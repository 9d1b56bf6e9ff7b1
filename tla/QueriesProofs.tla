--------------------------- MODULE QueriesProofs ----------------------------
(***************************************************************************)
(* Proofs about Queries, for every set of users, teams, cases and limits,  *)
(* every calendar and every text.                                          *)
(*   - Scopes: what an answer shows belongs to users the asker was         *)
(*     entitled to see.  The role, the setting, the membership and the     *)
(*     members are read one after another, so a state of the handler       *)
(*     stands for what was true at some point since the request came       *)
(*     (saw), which nothing undoes.                                        *)
(*   - Sums: what the events of an answer add up to, group by group.       *)
(*   - Times: the buckets are intervals of time, and few of them.          *)
(*   - Totals: the rows of an answer add up to the events it is made of.   *)
(*   - The parser accepts exactly the language: what the cursor has read   *)
(*     is the beginning of a reading (ParserInv), and the cursor follows   *)
(*     every reading of the text (Track), so that a text with a reading is *)
(*     never refused.                                                      *)
(***************************************************************************)
EXTENDS Queries, FiniteSetTheorems, WellFoundedInduction, TLAPS

(* What ScopeHolds asks of one user. *)
Entitled(u) ==
  \/ u = req.asker \/ req.asker \in saw.admins \/ "all" \in saw.scopes
  \/ /\ "team" \in saw.scopes
     /\ \E t \in Teams : <<t, req.asker>> \in saw.pairs /\ <<t, u>> \in saw.pairs

(* The history holds what is true now. *)
SawNow ==
  /\ member \subseteq saw.pairs /\ admins \subseteq saw.admins
  /\ maxScope \in saw.scopes \cap {"self", "team", "all"}

(* How far the checks of a team's scope have come. *)
ChecksPassed ==
  /\ st = "role" => req.scope \in Teams /\ ("team" \in saw.scopes \/ "all" \in saw.scopes)
  /\ st = "members" =>
       /\ req.scope \in Teams
       /\ \/ req.asker \in saw.admins \/ "all" \in saw.scopes
          \/ "team" \in saw.scopes /\ <<req.scope, req.asker>> \in saw.pairs

AllEntitled ==
  /\ \A u \in filter : Entitled(u)
  /\ \A e \in read : Entitled(e.user)
  /\ \A e \in answer.events : Entitled(e.user)
  /\ \A w \in answer.windows : Entitled(w.user)

ScopeInv == SawNow /\ ChecksPassed /\ AllEntitled

-----------------------------------------------------------------------------
(* The answers                                                               *)

LEMMA RefusedShowsNothing ==
  ASSUME Refused
  PROVE  st' = "answered" /\ answer'.events = {} /\ answer'.windows = {}
  BY DEF Refused, Reply, NoAnswer

LEMMA RowsShow ==
  ASSUME NEW k, NEW c, NEW r, NEW E,
         Reply([NoAnswer EXCEPT !.kind = k, !.truncated = c, !.rows = r, !.events = E])
  PROVE  st' = "answered" /\ answer'.events = E /\ answer'.windows = {}
  BY DEF Reply, NoAnswer

LEMMA RawShows ==
  ASSUME NEW k, NEW c, NEW E,
         Reply([NoAnswer EXCEPT !.kind = k, !.truncated = c, !.events = E])
  PROVE  st' = "answered" /\ answer'.events = E /\ answer'.windows = {}
  BY DEF Reply, NoAnswer

LEMMA WindowsShow ==
  ASSUME NEW k, NEW W, Reply([NoAnswer EXCEPT !.kind = k, !.windows = W])
  PROVE  st' = "answered" /\ answer'.events = {} /\ answer'.windows = W
  BY DEF Reply, NoAnswer

-----------------------------------------------------------------------------
LEMMA ScopeInvariant == Spec => []ScopeInv
<1>1. Init => ScopeInv
  <2> SUFFICES ASSUME Init PROVE ScopeInv
    OBVIOUS
  <2>1. st = "received" /\ filter = {} /\ read = {} /\ answer.events = {} /\ answer.windows = {}
    BY DEF Init, NoAnswer
  <2>2. SawNow
    BY QueriesAssumption DEF Init, Seen, SawNow
  <2> QED BY <2>1, <2>2 DEF ScopeInv, ChecksPassed, AllEntitled
<1>2. ScopeInv /\ [Next]_vars => ScopeInv'
  <2> SUFFICES ASSUME ScopeInv, [Next]_vars PROVE ScopeInv'
    OBVIOUS
  <2>0. SawNow /\ ChecksPassed /\ AllEntitled
    BY DEF ScopeInv
  (* Nothing administrative: what the handler adds is entitled. *)
  <2>1. ASSUME UNCHANGED <<req, adminVars>>, ChecksPassed',
               \A u \in filter' \ filter : Entitled(u),
               \A e \in read' \ read : Entitled(e.user),
               \A e \in answer'.events \ answer.events : Entitled(e.user),
               \A w \in answer'.windows \ answer.windows : Entitled(w.user)
        PROVE  ScopeInv'
    <3>1. SawNow'
      BY <2>0, <2>1 DEF SawNow, adminVars
    <3>2. ASSUME NEW u PROVE Entitled(u) => Entitled(u)'
      BY <2>1 DEF Entitled, adminVars
    <3>3. AllEntitled'
      BY <2>0, <2>1, <3>2 DEF AllEntitled
    <3> QED BY <2>1, <3>1, <3>3 DEF ScopeInv
  <2>2. ASSUME UNCHANGED <<req, filter, read, adminVars>>, Refused PROVE ScopeInv'
    <3>1. ChecksPassed'
      BY <2>2, RefusedShowsNothing DEF ChecksPassed
    <3> QED BY <2>1, <2>2, <3>1, RefusedShowsNothing
  <2>3. ASSUME UNCHANGED <<req, filter, read, answer, adminVars>>, st' \notin {"role", "members"}
        PROVE  ScopeInv'
    <3>1. ChecksPassed'
      BY <2>3 DEF ChecksPassed
    <3> QED BY <2>1, <2>3, <3>1
  <2>4. CASE Receive
    <3>1. UNCHANGED <<req, filter, read, adminVars>>
      BY <2>4 DEF Receive
    <3>2. CASE Refused
      BY <2>2, <3>1, <3>2
    <3>3. CASE ~Refused
      BY <2>3, <2>4, <3>1, <3>3 DEF Receive
    <3> QED BY <3>2, <3>3
  <2>5. CASE QueryWindows
    <3>1. UNCHANGED <<req, filter, read, adminVars>>
      BY <2>5 DEF QueryWindows
    <3>2. CASE req.scope # "self"
      BY <2>2, <2>5, <3>1, <3>2 DEF QueryWindows
    <3>3. CASE req.scope = "self"
      <4> DEFINE W == {w \in WindowRows : /\ w.user = req.asker
                                          /\ w.end >= Since(req) /\ w.end < Until(req)}
      <4>1. \A w \in W : w.user = req.asker
        OBVIOUS
      <4>2. Reply([NoAnswer EXCEPT !.kind = "windows", !.windows = W])
        BY <2>5, <3>3 DEF QueryWindows
      <4> HIDE DEF W
      <4>3. st' = "answered" /\ answer'.events = {} /\ answer'.windows = W
        BY <4>2, WindowsShow
      <4>4. ChecksPassed'
        BY <4>3 DEF ChecksPassed
      <4>5. \A w \in answer'.windows : Entitled(w.user)
        BY <4>1, <4>3 DEF Entitled
      <4> QED BY <2>1, <3>1, <4>3, <4>4, <4>5
    <3> QED BY <3>2, <3>3
  <2>6. CASE ParseStep
    BY <2>3, <2>6 DEF ParseStep, handlerVars
  <2>7. CASE Parsed
    <3>1. UNCHANGED <<req, filter, read, adminVars>>
      BY <2>7 DEF Parsed
    <3>2. CASE Refused
      BY <2>2, <3>1, <3>2
    <3>3. CASE st' = "scope" /\ UNCHANGED answer
      BY <2>3, <3>1, <3>3
    <3> QED BY <2>7, <3>2, <3>3 DEF Parsed
  <2>8. CASE ResolveScope
    <3>0. UNCHANGED <<req, read, adminVars>>
      BY <2>8 DEF ResolveScope
    <3>1. CASE filter' = {req.asker} /\ st' = "read" /\ UNCHANGED answer
      <4>1. ChecksPassed' /\ \A u \in filter' : Entitled(u)
        BY <3>1 DEF ChecksPassed, Entitled
      <4> QED BY <2>1, <3>0, <3>1, <4>1
    <3>2. CASE /\ req.asker \in admins \/ maxScope = "all"
               /\ st' = "read" /\ UNCHANGED answer
      <4>1. ChecksPassed' /\ \A u \in filter' : Entitled(u)
        BY <2>0, <3>2 DEF ChecksPassed, Entitled, SawNow
      <4> QED BY <2>1, <3>0, <3>2, <4>1
    <3>3. CASE /\ req.scope \in Teams /\ (req.asker \in admins \/ maxScope # "self")
               /\ st' = (IF req.asker \in admins THEN "members" ELSE "role")
               /\ UNCHANGED <<filter, answer>>
      <4>1. ChecksPassed'
        BY <2>0, <3>0, <3>3 DEF ChecksPassed, SawNow, adminVars
      <4> QED BY <2>1, <3>0, <3>3, <4>1
    <3>4. CASE Refused /\ UNCHANGED filter
      BY <2>2, <3>0, <3>4
    <3> QED BY <2>8, <3>1, <3>2, <3>3, <3>4 DEF ResolveScope
  <2>9. CASE MemberRole
    <3>0. UNCHANGED <<req, filter, read, adminVars>>
      BY <2>9 DEF MemberRole
    <3>1. CASE IsMember(req.scope, req.asker)
      <4>1. st = "role" /\ st' = "members" /\ UNCHANGED answer
        BY <2>9, <3>1 DEF MemberRole
      <4>2. <<req.scope, req.asker>> \in saw.pairs
        BY <2>0, <3>1 DEF IsMember, SawNow
      <4>3. ChecksPassed'
        BY <2>0, <3>0, <4>1, <4>2 DEF ChecksPassed, adminVars
      <4> QED BY <2>1, <3>0, <4>1, <4>3
    <3>2. CASE Refused
      BY <2>2, <3>0, <3>2
    <3> QED BY <2>9, <3>1, <3>2 DEF MemberRole
  <2>10. CASE ListMembers
    <3>1. /\ st = "members" /\ st' = "read" /\ UNCHANGED <<req, read, answer, adminVars>>
          /\ filter' = {u \in Users : <<req.scope, u>> \in member}
      BY <2>10 DEF ListMembers
    <3>2. ASSUME NEW u \in filter' PROVE Entitled(u)
      <4>1. <<req.scope, u>> \in saw.pairs
        BY <2>0, <3>1 DEF SawNow
      <4> QED BY <2>0, <3>1, <4>1 DEF ChecksPassed, Entitled
    <3>3. ChecksPassed'
      BY <3>1 DEF ChecksPassed
    <3> QED BY <2>1, <3>1, <3>2, <3>3
  <2>11. CASE QueryEvents
    <3>1. UNCHANGED <<req, filter, answer, adminVars>> /\ st' = "aggregate"
      BY <2>11 DEF QueryEvents
    <3>2. read' \subseteq Matching
      BY <2>11 DEF QueryEvents, Limited
    <3>3. \A e \in read' : Entitled(e.user)
      BY <2>0, <3>2 DEF Matching, AllEntitled
    <3>4. ChecksPassed'
      BY <3>1 DEF ChecksPassed
    <3> QED BY <2>1, <3>1, <3>3, <3>4
  <2>12. ASSUME NEW E, E \subseteq read, UNCHANGED <<req, filter, read, adminVars>>,
                st' = "answered", answer'.events = E, answer'.windows = {}
         PROVE  ScopeInv'
    <3>1. \A e \in E : Entitled(e.user)
      BY <2>0, <2>12 DEF AllEntitled
    <3>2. ChecksPassed'
      BY <2>12 DEF ChecksPassed
    <3> QED BY <2>1, <2>12, <3>1, <3>2
  <2>13. CASE Aggregate
    <3> DEFINE kept == {e \in read : Wanted(e) /\ Overlaps(e.ts)}
    <3>1. UNCHANGED <<req, filter, read, adminVars>>
      BY <2>13 DEF Aggregate
    <3>2. \E K, c, r : Reply([NoAnswer EXCEPT !.kind = "rows", !.truncated = c, !.rows = r,
                                              !.events = {e \in kept : EntryKey(e) \in K}])
      BY <2>13 DEF Aggregate
    <3>3. PICK K, c, r : Reply([NoAnswer EXCEPT !.kind = "rows", !.truncated = c, !.rows = r,
                                                !.events = {e \in kept : EntryKey(e) \in K}])
      BY <3>2
    <3> DEFINE E == {e \in kept : EntryKey(e) \in K}
    <3>4. E \subseteq read
      OBVIOUS
    <3> HIDE DEF E
    <3>5. Reply([NoAnswer EXCEPT !.kind = "rows", !.truncated = c, !.rows = r, !.events = E])
      BY <3>3 DEF E
    <3> QED BY <2>12, <3>1, <3>4, <3>5, RowsShow
  <2>14. CASE ListEvents
    <3> DEFINE E == {e \in read : Wanted(e)}
    <3>1. UNCHANGED <<req, filter, read, adminVars>>
      BY <2>14 DEF ListEvents
    <3>2. E \subseteq read
      OBVIOUS
    <3>3. Reply([NoAnswer EXCEPT !.kind = "raw", !.truncated = cut, !.events = E])
      BY <2>14 DEF ListEvents
    <3> HIDE DEF E
    <3> QED BY <2>12, <3>1, <3>2, <3>3, RawShows
  <2>15. CASE Change
    <3>1. /\ saw' = Seen(saw, member', admins', maxScope')
          /\ UNCHANGED <<req, handlerVars>>
          /\ maxScope' = maxScope \/ maxScope' \in {"self", "team", "all"}
      BY <2>15 DEF Change
    <3>2. /\ saw.pairs \subseteq saw'.pairs /\ saw.admins \subseteq saw'.admins
          /\ saw.scopes \subseteq saw'.scopes
          /\ member' \subseteq saw'.pairs /\ admins' \subseteq saw'.admins
          /\ maxScope' \in saw'.scopes
      BY <3>1 DEF Seen
    <3>3. SawNow'
      BY <2>0, <3>1, <3>2 DEF SawNow
    <3>4. ASSUME NEW u, Entitled(u) PROVE Entitled(u)'
      BY <3>1, <3>2, <3>4 DEF Entitled
    <3>5. AllEntitled'
      BY <2>0, <3>1, <3>4 DEF AllEntitled, handlerVars
    <3>6. ChecksPassed'
      BY <2>0, <3>1, <3>2 DEF ChecksPassed, handlerVars
    <3> QED BY <3>3, <3>5, <3>6 DEF ScopeInv
  <2>16. CASE UNCHANGED vars
    <3>1. ChecksPassed'
      BY <2>0, <2>16 DEF ChecksPassed, vars, handlerVars, adminVars
    <3> QED BY <2>1, <2>16, <3>1 DEF vars, handlerVars
  <2> QED
    BY <2>4, <2>5, <2>6, <2>7, <2>8, <2>9, <2>10, <2>11, <2>13, <2>14, <2>15, <2>16 DEF Next
<1> QED
  BY <1>1, <1>2, PTL DEF Spec

(* resolve_user_filter: however roles, the setting and memberships change    *)
(* between its reads, an answer shows nobody the asker was never entitled to *)
(* see while the request ran.                                                *)
THEOREM ScopesHold == Spec => []ScopeHolds
<1>1. ScopeInv => ScopeHolds
  <2> SUFFICES ASSUME ScopeInv,
                      NEW u \in {e.user : e \in answer.events} \cup {w.user : w \in answer.windows},
                      ~(u = req.asker \/ req.asker \in saw.admins \/ "all" \in saw.scopes)
               PROVE  /\ "team" \in saw.scopes
                      /\ \E t \in {p[1] : p \in {q \in saw.pairs : q[2] = req.asker}} :
                           <<t, u>> \in saw.pairs
    BY DEF ScopeHolds
  <2>1. Entitled(u)
    BY DEF ScopeInv, AllEntitled
  <2>2. PICK t \in Teams : <<t, req.asker>> \in saw.pairs /\ <<t, u>> \in saw.pairs
    BY <2>1 DEF Entitled
  <2>3. t \in {p[1] : p \in {q \in saw.pairs : q[2] = req.asker}}
    BY <2>2
  <2> QED BY <2>1, <2>2, <2>3 DEF Entitled
<1> QED
  BY <1>1, ScopeInvariant, PTL
-----------------------------------------------------------------------------
(* Sums                                                                      *)

LEMMA LeastNat ==   \* the least-number principle, in the place of induction
  ASSUME NEW S, S \subseteq Nat, S # {}
  PROVE  \E n \in S : \A m \in S : n <= m
  <1>1. PICK n \in S : \A m \in S : ~(<<m, n>> \in OpToRel(<, Nat))
    BY NatLessThanWellFounded, WFMin
  <1>2. \A m \in S : ~(m < n)
    BY <1>1 DEF OpToRel
  <1> QED BY <1>2

(* Of sets of subsets of a finite set, one has a smallest member. *)
LEMMA LeastSet ==
  ASSUME NEW S, IsFiniteSet(S), NEW B, B \subseteq SUBSET S, B # {}
  PROVE  \E T \in B : \A U \in B : Cardinality(T) <= Cardinality(U)
  <1>1. \A T \in SUBSET S : Cardinality(T) \in Nat
    BY FS_Subset, FS_CardinalityType
  <1> DEFINE N == {Cardinality(T) : T \in B}
  <1>2. N \subseteq Nat /\ N # {}
    BY <1>1
  <1>3. PICK n \in N : \A m \in N : n <= m
    BY <1>2, LeastNat
  <1> QED BY <1>3

One(s) == CHOOSE x \in s : TRUE

(* g sums f over the subsets of S, as SumFunction does. *)
SumStep(g, f, s) == IF s = {} THEN 0 ELSE f[One(s)] + g[s \ {One(s)}]
Sums(g, f, S) == \A s \in SUBSET S : g[s] = SumStep(g, f, s)

LEMMA OneIn ==
  ASSUME NEW s, s # {} PROVE One(s) \in s
  BY DEF One

(* Subsets of a finite set are finite, and smaller without an element. *)
LEMMA Smaller ==
  ASSUME NEW S, IsFiniteSet(S), NEW s \in SUBSET S
  PROVE  /\ IsFiniteSet(s) /\ Cardinality(s) \in Nat
         /\ \A x \in s : Cardinality(s \ {x}) = Cardinality(s) - 1 /\ Cardinality(s) # 0
  <1>1. IsFiniteSet(s)
    BY FS_Subset
  <1>2. Cardinality(s) \in Nat
    BY <1>1, FS_CardinalityType
  <1>3. ASSUME NEW x \in s PROVE Cardinality(s \ {x}) = Cardinality(s) - 1 /\ Cardinality(s) # 0
    <2>1. Cardinality(s \ {x}) = Cardinality(s) - 1
      BY <1>1, FS_RemoveElement
    <2>2. Cardinality(s \ {x}) \in Nat
      BY <1>1, FS_RemoveElement, FS_CardinalityType
    <2> QED BY <1>2, <2>1, <2>2
  <1> QED BY <1>1, <1>2, <1>3

(* Two sums of the same numbers are equal, whatever else is around. *)
LEMMA SumsAgree ==
  ASSUME NEW S, IsFiniteSet(S), NEW f, NEW g, NEW h, NEW d, NEW T,
         Sums(g, f, S), Sums(h, d, T), T \subseteq S, \A x \in T : f[x] = d[x]
  PROVE  g[T] = h[T]
  <1> DEFINE Bad == {s \in SUBSET T : g[s] # h[s]}
  <1>1. ASSUME Bad # {} PROVE FALSE
    <2>0. Bad \subseteq SUBSET S
      OBVIOUS
    <2>1. PICK s \in Bad : \A r \in Bad : Cardinality(s) <= Cardinality(r)
      BY <1>1, <2>0, LeastSet
    <2>2. s \subseteq T /\ s \subseteq S /\ g[s] # h[s]
      OBVIOUS
    <2>3. g[s] = SumStep(g, f, s) /\ h[s] = SumStep(h, d, s)
      BY <2>2 DEF Sums
    <2>4. s # {}
      BY <2>2, <2>3 DEF SumStep
    <2> DEFINE x == One(s)
               r == s \ {x}
    <2>5. x \in s
      BY <2>4, OneIn
    <2>6. Cardinality(r) = Cardinality(s) - 1 /\ Cardinality(s) \in Nat /\ r \in SUBSET T
      BY <2>2, <2>5, Smaller
    <2>7. r \notin Bad
      BY <2>1, <2>6
    <2>8. g[r] = h[r] /\ f[x] = d[x]
      BY <2>2, <2>5, <2>6, <2>7
    <2> QED BY <2>2, <2>3, <2>4, <2>8 DEF SumStep
  <1> QED BY <1>1

(* A sum may be begun with any element. *)
Begun(g, f, s, y) == g[s] = f[y] + g[s \ {y}]

LEMMA SumsAny ==
  ASSUME NEW S, IsFiniteSet(S), NEW f, NEW g \in [SUBSET S -> Nat], Sums(g, f, S),
         \A x \in S : f[x] \in Nat, NEW T, T \subseteq S, NEW y, y \in T
  PROVE  Begun(g, f, T, y)
  <1> DEFINE Bad == {s \in SUBSET S : \E z \in s : g[s] # f[z] + g[s \ {z}]}
  <1>1. ASSUME Bad # {} PROVE FALSE
    <2>1. PICK s \in Bad : \A r \in Bad : Cardinality(s) <= Cardinality(r)
      <3>1. Bad \subseteq SUBSET S
        OBVIOUS
      <3> HIDE DEF Bad
      <3> QED BY <1>1, <3>1, LeastSet
    <2>2. PICK z \in s : g[s] # f[z] + g[s \ {z}]
      OBVIOUS
    <2> DEFINE x == One(s)
    <2>3. x \in s /\ s \subseteq S
      BY <2>2, OneIn
    <2> HIDE DEF x
    <2>4. g[s] = f[x] + g[s \ {x}]
      BY <2>2, <2>3 DEF Sums, SumStep, x
    <2>5. x # z
      BY <2>2, <2>4
    <2>6. /\ Cardinality(s \ {x}) = Cardinality(s) - 1
          /\ Cardinality(s \ {z}) = Cardinality(s) - 1 /\ Cardinality(s) \in Nat
      BY <2>2, <2>3, Smaller
    <2>7. s \ {x} \notin Bad /\ s \ {z} \notin Bad
      <3> HIDE DEF Bad
      <3> QED BY <2>1, <2>6
    <2>8. g[s \ {x}] = f[z] + g[(s \ {x}) \ {z}] /\ g[s \ {z}] = f[x] + g[(s \ {z}) \ {x}]
      BY <2>3, <2>5, <2>7
    <2>9. (s \ {x}) \ {z} = (s \ {z}) \ {x} /\ (s \ {z}) \ {x} \in SUBSET S
      BY <2>3
    <2> DEFINE w == g[(s \ {z}) \ {x}]
    <2>10. f[x] \in Nat /\ f[z] \in Nat /\ w \in Nat
      BY <2>3, <2>9
    <2>11. g[s] = f[x] + (f[z] + w) /\ g[s \ {z}] = f[x] + w
      BY <2>4, <2>8, <2>9
    <2> HIDE DEF w
    <2>12. g[s] = f[z] + g[s \ {z}]
      BY <2>10, <2>11
    <2> QED BY <2>2, <2>12
  <1> QED BY <1>1 DEF Begun

(* The function that sums exists: no number is the least for which it would   *)
(* not on the sets of that size.                                              *)
LEMMA SumsExist ==
  ASSUME NEW S, IsFiniteSet(S), NEW f, \A x \in S : f[x] \in Nat
  PROVE  \E g \in [SUBSET S -> Nat] : Sums(g, f, S)
  <1> DEFINE Upto(n) == {s \in SUBSET S : Cardinality(s) <= n}
             Has(n) == \E g \in [SUBSET S -> Nat] : \A s \in Upto(n) : g[s] = SumStep(g, f, s)
             Bad == {n \in Nat : ~Has(n)}
  <1>1. \A s \in SUBSET S : Cardinality(s) \in Nat
    BY Smaller
  <1>2. Has(0)
    <2> DEFINE g == [s \in SUBSET S |-> 0]
    <2>1. ASSUME NEW s \in Upto(0) PROVE s = {}
      <3>1. Cardinality(s) = 0
        BY <1>1
      <3> QED BY <3>1, Smaller
    <2>2. g \in [SUBSET S -> Nat] /\ \A s \in Upto(0) : g[s] = SumStep(g, f, s)
      BY <2>1 DEF SumStep
    <2> QED BY <2>2
  <1>3. ASSUME NEW n \in Nat, Has(n) PROVE Has(n + 1)
    <2>1. PICK g \in [SUBSET S -> Nat] : \A s \in Upto(n) : g[s] = SumStep(g, f, s)
      BY <1>3
    <2> DEFINE h == [s \in SUBSET S |-> SumStep(g, f, s)]
    <2>2. ASSUME NEW s \in SUBSET S
          PROVE  SumStep(g, f, s) \in Nat
      <3>1. CASE s = {}
        BY <3>1 DEF SumStep
      <3>2. CASE s # {}
        <4>1. One(s) \in S /\ s \ {One(s)} \in SUBSET S
          BY <3>2, OneIn
        <4>2. f[One(s)] \in Nat /\ g[s \ {One(s)}] \in Nat
          BY <2>1, <4>1
        <4> QED BY <3>2, <4>2 DEF SumStep
      <3> QED BY <3>1, <3>2
    <2>3. h \in [SUBSET S -> Nat] /\ \A s \in SUBSET S : h[s] = SumStep(g, f, s)
      BY <2>2
    <2> HIDE DEF h
    <2>4. ASSUME NEW s \in Upto(n + 1) PROVE h[s] = SumStep(h, f, s)
      <3>1. CASE s = {}
        BY <2>3, <3>1 DEF SumStep
      <3>2. CASE s # {}
        <4> DEFINE r == s \ {One(s)}
        <4>1. One(s) \in s
          BY <3>2, OneIn
        <4>2. r \in SUBSET S /\ Cardinality(r) = Cardinality(s) - 1 /\ Cardinality(s) \in Nat
          BY <1>1, <4>1, Smaller
        <4>3. r \in Upto(n)
          BY <4>2
        <4>4. h[r] = SumStep(g, f, r) /\ g[r] = SumStep(g, f, r)
          BY <2>1, <2>3, <4>2, <4>3
        <4> QED BY <2>3, <3>2, <4>4 DEF SumStep
      <3> QED BY <3>1, <3>2
    <2> QED BY <2>3, <2>4
  <1> HIDE DEF Has
  <1>4. ASSUME Bad # {} PROVE FALSE
    <2>1. PICK n \in Bad : \A m \in Bad : n <= m
      BY <1>4, LeastNat
    <2>2. n \in Nat /\ ~Has(n) /\ n # 0
      BY <1>2
    <2>3. n - 1 \in Nat /\ n - 1 \notin Bad
      BY <2>1, <2>2
    <2>4. Has((n - 1) + 1) /\ (n - 1) + 1 = n
      BY <1>3, <2>2, <2>3
    <2> QED BY <2>2, <2>4
  <1>5. Cardinality(S) \in Nat /\ Has(Cardinality(S))
    BY <1>1, <1>4
  <1>6. Upto(Cardinality(S)) = SUBSET S
    <2>1. \A s \in SUBSET S : Cardinality(s) <= Cardinality(S)
      BY FS_Subset
    <2> QED BY <2>1
  <1> QED BY <1>5, <1>6 DEF Has, Sums

(* SumFunctionOnSet, its folds expanded. *)
SumOn(f, S) ==
  (CHOOSE g : g = [s \in SUBSET S |-> IF s = {} THEN 0
                     ELSE f[CHOOSE x \in s : TRUE] + g[s \ {CHOOSE x \in s : TRUE}]])[S]

LEMMA SumOnIs ==
  /\ \A f, S : SumFunctionOnSet(f, S) = SumOn(f, S)
  /\ \A f : SumFunction(f) = SumOn(f, DOMAIN f)
  <1>1. \A f, S : SumFunctionOnSet(f, S) = SumOn(f, S)
    BY DEF SumFunctionOnSet, FoldFunctionOnSet, MapThenFoldSet, SumOn
  <1> QED BY <1>1 DEF SumFunction

LEMMA SumOnSums ==
  ASSUME NEW S, IsFiniteSet(S), NEW f, \A x \in S : f[x] \in Nat
  PROVE  \E g \in [SUBSET S -> Nat] : Sums(g, f, S) /\ SumOn(f, S) = g[S]
  <1> DEFINE Eq(g) == g = [s \in SUBSET S |-> IF s = {} THEN 0
                      ELSE f[CHOOSE x \in s : TRUE] + g[s \ {CHOOSE x \in s : TRUE}]]
             h == CHOOSE g : Eq(g)
  <1>1. PICK g \in [SUBSET S -> Nat] : Sums(g, f, S)
    BY SumsExist
  <1>2. Eq(g)
    <2>1. \A s \in SUBSET S : g[s] = IF s = {} THEN 0
             ELSE f[CHOOSE x \in s : TRUE] + g[s \ {CHOOSE x \in s : TRUE}]
      BY <1>1 DEF Sums, SumStep, One
    <2> QED BY <1>1, <2>1
  <1>3. Eq(h)
    BY <1>2
  <1>4. SumOn(f, S) = h[S]
    BY DEF SumOn
  <1> HIDE DEF h
  <1>5. \A s \in SUBSET S : h[s] = IF s = {} THEN 0
             ELSE f[CHOOSE x \in s : TRUE] + h[s \ {CHOOSE x \in s : TRUE}]
    BY <1>3
  <1>6. Sums(h, f, S)
    BY <1>5 DEF Sums, SumStep, One
  <1>7. g[S] = h[S]
    <2>1. S \subseteq S /\ \A x \in S : f[x] = f[x]
      OBVIOUS
    <2> QED BY <1>1, <1>6, <2>1, SumsAgree
  <1> QED BY <1>1, <1>4, <1>7

(* A sum depends on the numbers summed only. *)
Same(f, d, S) == \A x \in S : f[x] = d[x]
Numbers(f, S) == \A x \in S : f[x] \in Nat

LEMMA SumSame ==
  ASSUME NEW S, IsFiniteSet(S), NEW f, NEW d, Numbers(f, S), Same(f, d, S)
  PROVE  SumOn(f, S) \in Nat /\ SumOn(d, S) = SumOn(f, S)
  <1>0. \A x \in S : f[x] \in Nat
    BY DEF Numbers
  <1>1. PICK g \in [SUBSET S -> Nat] : Sums(g, f, S) /\ SumOn(f, S) = g[S]
    BY <1>0, SumOnSums
  <1>2. PICK h \in [SUBSET S -> Nat] : Sums(h, d, S) /\ SumOn(d, S) = h[S]
    <2>1. \A x \in S : d[x] \in Nat
      BY <1>0 DEF Same
    <2> QED BY <2>1, SumOnSums
  <1>3. g[S] = h[S]
    <2>1. S \subseteq S /\ \A x \in S : f[x] = d[x]
      BY DEF Same
    <2> QED BY <1>1, <1>2, <2>1, SumsAgree
  <1> QED BY <1>1, <1>2, <1>3

LEMMA SumNat ==
  ASSUME NEW S, IsFiniteSet(S), NEW f, Numbers(f, S)
  PROVE  SumOn(f, S) \in Nat
  <1>1. Same(f, f, S)
    BY DEF Same
  <1> QED BY <1>1, SumSame

LEMMA SumEmpty ==
  ASSUME NEW f PROVE SumOn(f, {}) = 0
  <1>1. IsFiniteSet({}) /\ \A x \in {} : f[x] \in Nat
    BY FS_EmptySet
  <1>2. PICK g \in [SUBSET {} -> Nat] : Sums(g, f, {}) /\ SumOn(f, {}) = g[{}]
    BY <1>1, SumOnSums
  <1>3. g[{}] = SumStep(g, f, {})
    BY <1>2 DEF Sums
  <1> QED BY <1>2, <1>3 DEF SumStep

LEMMA SumWithout ==
  ASSUME NEW S, IsFiniteSet(S), NEW f, Numbers(f, S), NEW y, y \in S
  PROVE  /\ SumOn(f, S) = f[y] + SumOn(f, S \ {y})
         /\ f[y] \in Nat /\ SumOn(f, S \ {y}) \in Nat
  <1> DEFINE T == S \ {y}
  <1>0. \A x \in S : f[x] \in Nat
    BY DEF Numbers
  <1>1. PICK g \in [SUBSET S -> Nat] : Sums(g, f, S) /\ SumOn(f, S) = g[S]
    BY <1>0, SumOnSums
  <1>2. IsFiniteSet(T) /\ T \subseteq S /\ \A x \in T : f[x] \in Nat
    BY <1>0, FS_RemoveElement
  <1> HIDE DEF T
  <1>3. PICK h \in [SUBSET T -> Nat] : Sums(h, f, T) /\ SumOn(f, T) = h[T]
    BY <1>2, SumOnSums
  <1>4. g[T] = h[T]
    <2>1. \A x \in T : f[x] = f[x]
      OBVIOUS
    <2> QED BY <1>1, <1>2, <1>3, <2>1, SumsAgree
  <1>5. g[S] = f[y] + g[S \ {y}]
    <2>1. S \subseteq S
      OBVIOUS
    <2>2. Begun(g, f, S, y)
      BY <1>0, <1>1, <2>1, SumsAny
    <2> QED BY <2>2 DEF Begun
  <1>6. h[T] \in Nat
    BY <1>3
  <1> QED BY <1>0, <1>1, <1>3, <1>4, <1>5, <1>6 DEF T

LEMMA SumZero ==
  ASSUME NEW S, IsFiniteSet(S), NEW f, \A x \in S : f[x] = 0
  PROVE  SumOn(f, S) = 0
  <1> DEFINE Bad == {s \in SUBSET S : SumOn(f, s) # 0}
  <1>1. ASSUME Bad # {} PROVE FALSE
    <2>1. PICK s \in Bad : \A r \in Bad : Cardinality(s) <= Cardinality(r)
      <3>1. Bad \subseteq SUBSET S
        OBVIOUS
      <3> HIDE DEF Bad
      <3> QED BY <1>1, <3>1, LeastSet
    <2>2. PICK y \in s : TRUE
      BY SumEmpty
    <2>3. IsFiniteSet(s) /\ Numbers(f, s)
      BY Smaller DEF Numbers
    <2>4. SumOn(f, s) = f[y] + SumOn(f, s \ {y}) /\ SumOn(f, s \ {y}) \in Nat
      BY <2>3, SumWithout
    <2>5. s \ {y} \notin Bad
      <3>1. Cardinality(s \ {y}) = Cardinality(s) - 1 /\ Cardinality(s) \in Nat
        BY Smaller
      <3> QED BY <2>1, <3>1
    <2> QED BY <2>4, <2>5
  <1> QED BY <1>1

LEMMA SumOnes ==
  ASSUME NEW S, IsFiniteSet(S), NEW f, \A x \in S : f[x] = 1
  PROVE  SumOn(f, S) = Cardinality(S)
  <1> DEFINE Bad == {s \in SUBSET S : SumOn(f, s) # Cardinality(s)}
  <1>1. ASSUME Bad # {} PROVE FALSE
    <2>1. PICK s \in Bad : \A r \in Bad : Cardinality(s) <= Cardinality(r)
      <3>1. Bad \subseteq SUBSET S
        OBVIOUS
      <3> HIDE DEF Bad
      <3> QED BY <1>1, <3>1, LeastSet
    <2>2. PICK y \in s : TRUE
      BY SumEmpty, FS_EmptySet
    <2>3. IsFiniteSet(s) /\ Numbers(f, s)
      BY Smaller DEF Numbers
    <2>4. SumOn(f, s) = f[y] + SumOn(f, s \ {y}) /\ SumOn(f, s \ {y}) \in Nat
      BY <2>3, SumWithout
    <2>5. Cardinality(s \ {y}) = Cardinality(s) - 1 /\ Cardinality(s) \in Nat
      BY Smaller
    <2>6. s \ {y} \notin Bad
      BY <2>1, <2>5
    <2> QED BY <2>4, <2>5, <2>6
  <1> QED BY <1>1

(* A part of the numbers adds up to no more. *)
LEMMA SumPart ==
  ASSUME NEW S, IsFiniteSet(S), NEW f, Numbers(f, S), NEW T, T \subseteq S
  PROVE  SumOn(f, T) \in Nat /\ SumOn(f, T) <= SumOn(f, S)
  <1> DEFINE Bad == {s \in SUBSET S : T \subseteq s /\ ~(SumOn(f, T) <= SumOn(f, s))}
  <1>0. IsFiniteSet(T) /\ Numbers(f, T)
    BY Smaller DEF Numbers
  <1>1. SumOn(f, T) \in Nat
    BY <1>0, SumNat
  <1>2. ASSUME Bad # {} PROVE FALSE
    <2>1. PICK s \in Bad : \A r \in Bad : Cardinality(s) <= Cardinality(r)
      BY <1>2, LeastSet
    <2>2. PICK y \in s : y \notin T
      BY <1>1
    <2>3. IsFiniteSet(s) /\ Numbers(f, s)
      BY Smaller DEF Numbers
    <2>4. /\ SumOn(f, s) = f[y] + SumOn(f, s \ {y})
          /\ f[y] \in Nat /\ SumOn(f, s \ {y}) \in Nat
      BY <2>3, SumWithout
    <2>5. Cardinality(s \ {y}) = Cardinality(s) - 1 /\ Cardinality(s) \in Nat
      BY Smaller
    <2>6. s \ {y} \notin Bad
      BY <2>1, <2>5
    <2>7. SumOn(f, T) <= SumOn(f, s \ {y})
      BY <2>2, <2>6
    <2> QED BY <1>1, <2>4, <2>7
  <1> QED BY <1>1, <1>2

(* The numbers of S by the value of key, and their sums.                      *)
Group(key, S, k) == {x \in S : key[x] = k}
Groups(f, key, S, K) == [k \in K |-> SumOn(f, Group(key, S, k))]

LEMMA GroupNat ==
  ASSUME NEW S, IsFiniteSet(S), NEW f, Numbers(f, S), NEW key, NEW K
  PROVE  Numbers(Groups(f, key, S, K), K)
  <1>1. ASSUME NEW k \in K PROVE SumOn(f, Group(key, S, k)) \in Nat
    <2>1. Group(key, S, k) \subseteq S
      BY DEF Group
    <2> QED BY <2>1, SumPart
  <1> QED BY <1>1 DEF Numbers, Groups

(* Grouped by whatever key, numbers add up to the same.                       *)
LEMMA SumGrouped ==
  ASSUME NEW S, IsFiniteSet(S), NEW f, Numbers(f, S), NEW key, NEW K, IsFiniteSet(K),
         \A x \in S : key[x] \in K
  PROVE  SumOn(Groups(f, key, S, K), K) = SumOn(f, S)
  <1> DEFINE G(s) == Groups(f, key, s, K)
             Bad == {s \in SUBSET S : SumOn(G(s), K) # SumOn(f, s)}
  <1>1. ASSUME Bad # {} PROVE FALSE
    <2>1. PICK s \in Bad : \A r \in Bad : Cardinality(s) <= Cardinality(r)
      <3>1. Bad \subseteq SUBSET S
        OBVIOUS
      <3> HIDE DEF Bad
      <3> QED BY <1>1, <3>1, LeastSet
    <2>2. s # {}
      <3>1. SUFFICES ASSUME s = {} PROVE FALSE
        OBVIOUS
      <3>2. \A k \in K : G(s)[k] = 0
        BY <3>1, SumEmpty DEF Groups, Group
      <3> QED BY <3>1, <3>2, SumZero, SumEmpty
    <2>3. PICK y \in s : TRUE
      BY <2>2
    <2> DEFINE r == s \ {y}
               j == key[y]
    <2>4. IsFiniteSet(s) /\ Numbers(f, s) /\ IsFiniteSet(r) /\ Numbers(f, r) /\ j \in K
      BY Smaller DEF Numbers
    <2>5. SumOn(f, s) = f[y] + SumOn(f, r) /\ f[y] \in Nat /\ SumOn(f, r) \in Nat
      BY <2>4, SumWithout
    <2>6. SumOn(G(r), K) = SumOn(f, r)
      <3>1. Cardinality(r) = Cardinality(s) - 1 /\ Cardinality(s) \in Nat
        BY Smaller
      <3> QED BY <2>1, <3>1
    <2>7. Numbers(G(s), K) /\ Numbers(G(r), K)
      BY <2>4, GroupNat
    <2>8. G(s)[j] = f[y] + G(r)[j] /\ G(r)[j] \in Nat
      <3>1. y \in Group(key, s, j) /\ Group(key, r, j) = Group(key, s, j) \ {y}
        BY DEF Group
      <3>2. IsFiniteSet(Group(key, s, j)) /\ Numbers(f, Group(key, s, j))
        BY <2>4, FS_Subset DEF Group, Numbers
      <3>3. SumOn(f, Group(key, s, j)) = f[y] + SumOn(f, Group(key, s, j) \ {y})
        BY <3>1, <3>2, SumWithout
      <3> QED BY <2>4, <2>7, <3>1, <3>3 DEF Groups, Numbers
    <2>9. Same(G(s), G(r), K \ {j})
      <3>1. ASSUME NEW k \in K \ {j} PROVE Group(key, s, k) = Group(key, r, k)
        BY DEF Group
      <3> QED BY <3>1 DEF Same, Groups
    <2>10. /\ SumOn(G(s), K) = G(s)[j] + SumOn(G(s), K \ {j})
           /\ SumOn(G(r), K) = G(r)[j] + SumOn(G(r), K \ {j})
           /\ SumOn(G(r), K \ {j}) \in Nat
      <3> HIDE DEF G, r, j
      <3> QED BY <2>4, <2>7, SumWithout
    <2>11. SumOn(G(r), K \ {j}) = SumOn(G(s), K \ {j})
      <3>1. IsFiniteSet(K \ {j}) /\ Numbers(G(s), K \ {j})
        BY <2>7, FS_RemoveElement DEF Numbers
      <3> HIDE DEF G, r, j
      <3> QED BY <2>9, <3>1, SumSame
    <2>12. SumOn(G(s), K) = SumOn(f, s)
      <3> HIDE DEF G, r, j
      <3> QED BY <2>5, <2>6, <2>8, <2>10, <2>11
    <2> QED BY <2>12
  <1> QED BY <1>1

-----------------------------------------------------------------------------
(* Times and steps                                                           *)

(* The bounds of a request past its first check. *)
InTime(r) == None \notin {Since(r), Until(r)} /\ Since(r) <= Until(r)

(* The check of a range query's step. *)
StepAccepted(r) ==
  r.step # None => /\ (RangeSecs(r) + MaxBuckets - 1) \div MaxBuckets <= r.step
                   /\ r.step <= RangeSecs(r)

LEMMA Division ==
  ASSUME NEW a \in Int, NEW q \in Nat \ {0}
  PROVE  /\ a \div q \in Int /\ a % q \in 0..q - 1
         /\ q * (a \div q) <= a /\ a < q * (a \div q) + q
         /\ a = q * (a \div q) + (a % q)
  OBVIOUS

LEMMA Product ==
  ASSUME NEW a \in Nat, NEW b \in Nat
  PROVE  a * b \in Nat /\ (a # 0 => b <= a * b) /\ (b # 0 => a <= a * b)
  OBVIOUS

LEMMA Multiples ==
  ASSUME NEW a \in Int, NEW b \in Int, NEW q \in Nat \ {0}
  PROVE  /\ a * q \in Int /\ (a <= b <=> a * q <= b * q) /\ (a < b <=> a * q < b * q)
  OBVIOUS

LEMMA Threefold ==
  ASSUME NEW a \in Int, NEW b \in Int, NEW c \in Int
  PROVE  a * b \in Int /\ b * c \in Int /\ (a * b) * c = (b * c) * a
  OBVIOUS

LEMMA BoundsTyped ==
  ASSUME NEW r, Asks(r), None \notin {Since(r), Until(r)}
  PROVE  Since(r) \in Int /\ Until(r) \in Int
  <1>0. Ms \in Nat /\ DaySecs \in Nat /\ Now \in Nat
    BY QueriesAssumption
  <1>1. ASSUME NEW b \in {r.start, r.end} \ {None}, NEW isEnd \in BOOLEAN,
               BoundMs(b, isEnd, r.zone) # None
        PROVE  BoundMs(b, isEnd, r.zone) \in Int
    <2>1. b.form \in {"ms", "sec", "date", "bad"} /\ b.val \in Int
      BY DEF Asks, Bound
    <2>2. CASE b.form = "ms"
      BY <2>1, <2>2 DEF BoundMs
    <2>3. CASE b.form = "sec"
      BY <1>0, <2>1, <2>3 DEF BoundMs
    <2>4. CASE b.form = "date" /\ r.zone = None
      BY <1>0, <2>1, <2>4 DEF BoundMs
    <2>5. CASE b.form = "date" /\ r.zone # None
      <3>1. r.zone.start[b.val] \in Int /\ r.zone.start[b.val + 1] \in Int
        BY <2>5 DEF Asks, Calendar
      <3>2. \/ BoundMs(b, isEnd, r.zone) = r.zone.start[b.val] * Ms
            \/ BoundMs(b, isEnd, r.zone) = r.zone.start[b.val + 1] * Ms
        BY <1>1, <2>5 DEF BoundMs
      <3> QED BY <1>0, <3>1, <3>2
    <2>6. CASE b.form = "bad"
      BY <1>1, <2>6 DEF BoundMs
    <2> QED BY <2>1, <2>2, <2>3, <2>4, <2>5, <2>6
  <1>2. Since(r) \in Int
    <2>1. CASE r.start = None
      BY <2>1 DEF Since
    <2>2. CASE r.start # None
      BY <1>1, <2>2 DEF Since
    <2> QED BY <2>1, <2>2
  <1>3. Until(r) \in Int
    <2>1. CASE r.end = None
      BY <1>0, <2>1 DEF Until
    <2>2. CASE r.end # None
      BY <1>1, <2>2 DEF Until
    <2> QED BY <2>1, <2>2
  <1> QED BY <1>2, <1>3

LEMMA TimesTyped ==
  ASSUME NEW r, Asks(r), InTime(r)
  PROVE  Since(r) \in Int /\ Until(r) \in Int
  BY BoundsTyped DEF InTime

(* The range in seconds, of which the milliseconds are a second more at most. *)
LEMMA RangeTyped ==
  ASSUME NEW r, Asks(r), InTime(r)
  PROVE  /\ RangeSecs(r) \in Nat \ {0}
         /\ Until(r) - Since(r) < RangeSecs(r) * Ms + Ms
  <1>1. Since(r) \in Int /\ Until(r) \in Int /\ Until(r) - Since(r) \in Nat /\ Ms \in Nat \ {0}
    BY TimesTyped, QueriesAssumption DEF InTime
  <1> DEFINE len == Until(r) - Since(r)
             secs == len \div Ms
  <1>2. secs \in Int /\ Ms * secs <= len /\ len < Ms * secs + Ms
    <2>1. len \in Int
      BY <1>1
    <2> HIDE DEF len
    <2> QED BY <1>1, <2>1, Division
  <1>3. RangeSecs(r) = IF secs = 0 THEN 1 ELSE secs
    BY DEF RangeSecs
  <1> HIDE DEF secs
  <1>4. secs \in Nat
    <2>1. SUFFICES ASSUME secs < 0 PROVE FALSE
      BY <1>2
    <2>2. Ms * secs <= Ms * (0 - 1)
      BY <1>1, <1>2, <2>1
    <2> QED BY <1>1, <1>2, <2>2
  <1>5. CASE secs = 0
    BY <1>1, <1>2, <1>3, <1>5
  <1>6. CASE secs # 0
    BY <1>1, <1>2, <1>3, <1>4, <1>6
  <1> QED BY <1>5, <1>6

(* A step is a number of seconds; an accepted one spans the range in MaxBuckets. *)
LEMMA StepTyped ==
  ASSUME NEW r, Asks(r), InTime(r), StepAccepted(r)
  PROVE  /\ StepOf(r) \in Nat \ {0}
         /\ r.step # None => RangeSecs(r) <= StepOf(r) * MaxBuckets
  <1>1. RangeSecs(r) \in Nat \ {0} /\ MaxBuckets \in Nat \ {0}
    BY RangeTyped, QueriesAssumption
  <1>2. CASE r.step = None
    BY <1>1, <1>2 DEF StepOf
  <1>3. CASE r.step # None
    <2> DEFINE n == RangeSecs(r) + MaxBuckets - 1
               m == n \div MaxBuckets
               s == r.step
    <2>1. s \in Nat /\ m <= s /\ StepOf(r) = s
      BY <1>3 DEF StepAccepted, Asks, StepOf
    <2>2. m \in Int /\ n < MaxBuckets * m + MaxBuckets
      <3>1. n \in Int
        BY <1>1
      <3> HIDE DEF n
      <3> QED BY <1>1, <3>1, Division
    <2> HIDE DEF m, s
    <2>3. RangeSecs(r) <= m * MaxBuckets
      BY <1>1, <2>2
    <2>4. m * MaxBuckets <= s * MaxBuckets
      BY <1>1, <2>1, <2>2, Multiples
    <2>5. RangeSecs(r) <= s * MaxBuckets
      BY <1>1, <2>1, <2>2, <2>3, <2>4, Multiples
    <2>6. s # 0
      BY <1>1, <2>5
    <2> QED BY <2>1, <2>5, <2>6
  <1> QED BY <1>2, <1>3

-----------------------------------------------------------------------------
(* Buckets                                                                   *)

(* Where the local days are counted from in a step of several. *)
Origin(r) == IF StepOf(r) \div DaySecs = WeekDays THEN r.startOfWeek ELSE 0

FirstDay(r, d) ==
  LET days == StepOf(r) \div DaySecs IN days * ((d - Origin(r)) \div days) + Origin(r)

Daily(r) == r.zone # None /\ StepOf(r) % DaySecs = 0

LEMMA FirstDayOf ==
  ASSUME NEW r, Asks(r), StepOf(r) \in Nat \ {0}, StepOf(r) % DaySecs = 0, NEW d \in Int
  PROVE  /\ StepOf(r) \div DaySecs \in Nat \ {0}
         /\ StepOf(r) = (StepOf(r) \div DaySecs) * DaySecs
         /\ Origin(r) \in Int
         /\ FirstDay(r, d) \in Int
         /\ FirstDay(r, d) <= d /\ d < FirstDay(r, d) + (StepOf(r) \div DaySecs)
         /\ IF StepOf(r) \div DaySecs = WeekDays
            THEN FirstDay(r, d) = d - ((d - r.startOfWeek) % WeekDays)
            ELSE FirstDay(r, d) = (d \div (StepOf(r) \div DaySecs)) * (StepOf(r) \div DaySecs)
  <1> DEFINE s == StepOf(r)
             n == s \div DaySecs
             o == Origin(r)
             x == d - o
             k == x \div n
  <1>0. DaySecs \in Nat \ {0} /\ WeekDays \in Nat \ {0} /\ s \in Int /\ s > 0
    BY QueriesAssumption
  <1>1. n \in Int /\ s = DaySecs * n
    <2> HIDE DEF s
    <2>1. s % DaySecs = 0
      BY DEF s
    <2> QED BY <1>0, <2>1, Division
  <1> HIDE DEF n
  <1>2. n \in Nat \ {0}
    <2> HIDE DEF s
    <2>1. SUFFICES ASSUME n <= 0 PROVE FALSE
      BY <1>1
    <2>2. n * DaySecs <= 0 * DaySecs
      BY <1>0, <1>1, <2>1, Multiples
    <2> QED BY <1>0, <1>1, <2>2
  <1>3. o \in Int /\ x \in Int
    BY DEF Origin, Asks
  <1>4. k \in Int /\ x % n \in Int /\ n * k <= x /\ x < n * k + n /\ x = n * k + (x % n)
    <2> HIDE DEF x
    <2> QED BY <1>2, <1>3, Division
  <1>5. FirstDay(r, d) = n * k + o
    BY DEF FirstDay, n
  <1>6. n * k \in Int /\ n * k = k * n
    BY <1>2, <1>4
  <1>7. IF n = WeekDays THEN n * k + o = d - ((d - r.startOfWeek) % WeekDays)
        ELSE n * k + o = (d \div n) * n
    <2>1. CASE n = WeekDays
      <3>1. o = r.startOfWeek
        BY <2>1 DEF Origin, n
      <3>2. x % n = (d - r.startOfWeek) % WeekDays
        BY <2>1, <3>1
      <3>3. n * k + o = d - (x % n)
        <4>1. x = d - o
          OBVIOUS
        <4> HIDE DEF x, k, o
        <4> QED BY <1>3, <1>4, <1>6, <4>1
      <3> QED BY <2>1, <3>2, <3>3
    <2>2. CASE n # WeekDays
      <3>1. o = 0
        BY <2>2 DEF Origin, n
      <3>2. x = d
        BY <3>1
      <3> QED BY <1>6, <2>2, <3>1, <3>2
    <2> QED BY <2>1, <2>2
  <1>8. n * k + o <= d /\ d < n * k + o + n /\ n * k + o \in Int
    <2>1. x = d - o
      OBVIOUS
    <2> HIDE DEF x, k, o
    <2> QED BY <1>2, <1>3, <1>4, <1>6, <2>1
  <1>9. s = n * DaySecs
    BY <1>0, <1>1, <1>2
  <1> HIDE DEF k, x
  <1> QED BY <1>2, <1>3, <1>5, <1>7, <1>8, <1>9 DEF n

(* Days of a calendar, in order. *)
LEMMA DaysOrdered ==
  ASSUME NEW z, Calendar(z), NEW i \in DOMAIN z.start, NEW j \in DOMAIN z.start
  PROVE  /\ i \in Int /\ j \in Int /\ z.start[i] \in Int /\ z.start[j] \in Int
         /\ i <= j => z.start[i] <= z.start[j] /\ z.start[i] * Ms <= z.start[j] * Ms
         /\ \A d \in Int : i <= d /\ d <= j => d \in DOMAIN z.start
  <1>1. i \in Int /\ j \in Int /\ z.start[i] \in Int /\ z.start[j] \in Int
    BY DEF Calendar
  <1>2. i <= j => z.start[i] <= z.start[j]
    BY DEF Calendar
  <1>3. Ms \in Nat \ {0}
    BY QueriesAssumption
  <1>4. z.start[i] <= z.start[j] => z.start[i] * Ms <= z.start[j] * Ms
    BY <1>1, <1>3, Multiples
  <1>5. i..j \subseteq DOMAIN z.start
    BY DEF Calendar
  <1> QED BY <1>1, <1>2, <1>4, <1>5

(* An instant of the range lies in a day, and the days from the first of that *)
(* day's bucket to the one after it are in the calendar.                      *)
LEMMA DayFound ==
  ASSUME NEW r, Asks(r), InTime(r), r.zone # None, StepOf(r) \in Nat \ {0},
         NEW t \in Int, Since(r) <= t, t < Until(r)
  PROVE  LET d == DayOf(r.zone, t) IN
         /\ d \in DOMAIN r.zone.start /\ d + 1 \in DOMAIN r.zone.start
         /\ r.zone.start[d] * Ms <= t /\ t < r.zone.start[d + 1] * Ms
         /\ \A e \in Int : d - (StepOf(r) \div DaySecs) <= e /\ e <= d => e \in DOMAIN r.zone.start
  <1> DEFINE z == r.zone
             S == z.start
             n == StepOf(r) \div DaySecs
             d == DayOf(z, t)
  <1>0. Calendar(z) /\ Ms \in Nat \ {0} /\ DaySecs \in Nat \ {0}
    BY QueriesAssumption DEF Asks
  <1>1. Since(r) \in Int /\ Until(r) \in Int
    BY TimesTyped
  <1>2. PICK lo \in DOMAIN S, hi \in DOMAIN S :
               /\ lo - n \in DOMAIN S
               /\ S[lo] * Ms <= Since(r) /\ Until(r) <= S[hi] * Ms
    BY DEF Asks, InTime, LongEnough
  <1>3. n \in Int
    <2> DEFINE s == StepOf(r)
    <2>1. s \in Int
      OBVIOUS
    <2> HIDE DEF s
    <2> QED BY <1>0, <2>1, Division DEF s
  <1> DEFINE Covers(e) == /\ e \in DOMAIN S /\ S[e] * Ms <= t
                          /\ e + 1 \in DOMAIN S => t < S[e + 1] * Ms
  <1> HIDE DEF z, n
  <1>4. \A e \in DOMAIN S : e \in Int /\ S[e] \in Int /\ S[e] * Ms \in Int
    <2>1. \A e \in DOMAIN S : e \in Int /\ S[e] \in Int
      BY <1>0, DaysOrdered
    <2> QED BY <1>0, <2>1
  <1>5. \A e \in DOMAIN S : S[e] * Ms <= t => e < hi
    <2>1. SUFFICES ASSUME NEW e \in DOMAIN S, S[e] * Ms <= t, hi <= e PROVE FALSE
      BY <1>4
    <2>2. S[hi] * Ms <= S[e] * Ms
      BY <1>0, <2>1, DaysOrdered
    <2> QED BY <1>1, <1>2, <1>4, <2>1, <2>2
  <1>6. \E e \in DOMAIN S : Covers(e)
    <2> DEFINE N == {hi - e : e \in {x \in DOMAIN S : S[x] * Ms <= t}}
    <2>1. N \subseteq Nat
      BY <1>4, <1>5
    <2>2. N # {}
      <3>1. S[lo] * Ms <= t
        BY <1>1, <1>2, <1>4
      <3> QED BY <3>1
    <2>3. PICK m \in N : \A k \in N : m <= k
      BY <2>1, <2>2, LeastNat
    <2>4. PICK e \in DOMAIN S : m = hi - e /\ S[e] * Ms <= t
      OBVIOUS
    <2>5. ASSUME e + 1 \in DOMAIN S, S[e + 1] * Ms <= t PROVE FALSE
      <3>1. hi - (e + 1) \in N
        BY <2>5
      <3> QED BY <1>4, <2>3, <2>4, <3>1
    <2>6. e + 1 \in DOMAIN S => t < S[e + 1] * Ms
      BY <1>4, <2>5
    <2> QED BY <2>4, <2>6
  <1>7. Covers(d)
    <2>1. d = CHOOSE e \in DOMAIN S : /\ S[e] * Ms <= t
                                      /\ e + 1 \in DOMAIN S => t < S[e + 1] * Ms
      BY DEF DayOf
    <2> HIDE DEF d
    <2> QED BY <1>6, <2>1
  <1> HIDE DEF d
  <1>8. d < hi /\ d \in Int /\ hi \in Int
    BY <1>4, <1>5, <1>7
  <1>9. d + 1 \in DOMAIN S
    <2>1. d + 1 \in Int /\ d <= d + 1 /\ d + 1 <= hi
      BY <1>8
    <2> QED BY <1>0, <1>7, <2>1, DaysOrdered
  <1>10. lo <= d
    <2>1. SUFFICES ASSUME d + 1 <= lo PROVE FALSE
      BY <1>4, <1>8
    <2>2. S[d + 1] * Ms <= S[lo] * Ms
      BY <1>0, <1>9, <2>1, DaysOrdered
    <2> QED BY <1>1, <1>2, <1>4, <1>7, <1>9, <2>2
  <1>11. ASSUME NEW e \in Int, d - n <= e, e <= d PROVE e \in DOMAIN S
    <2>1. lo - n <= e
      BY <1>3, <1>4, <1>8, <1>10, <1>11
    <2> QED BY <1>0, <1>2, <1>7, <1>11, <2>1, DaysOrdered
  <1> QED BY <1>7, <1>9, <1>11 DEF z, n, d

(* Where a bucket begins. *)
LEMMA BucketBegins ==
  ASSUME Asks(req), InTime(req), StepOf(req) \in Nat \ {0},
         NEW t \in Int, Since(req) <= t, t < Until(req)
  PROVE  /\ ~Daily(req) =>
              BucketStart(t) = (t \div (StepOf(req) * Ms)) * StepOf(req)
         /\ Daily(req) =>
              BucketStart(t) = req.zone.start[FirstDay(req, DayOf(req.zone, t))]
  <1>1. ASSUME ~Daily(req) PROVE BucketStart(t) = (t \div (StepOf(req) * Ms)) * StepOf(req)
    BY <1>1 DEF Daily, BucketStart, EffectiveStep
  <1>2. ASSUME Daily(req)
        PROVE  BucketStart(t) = req.zone.start[FirstDay(req, DayOf(req.zone, t))]
    <2> DEFINE d == DayOf(req.zone, t)
    <2>1. d \in Int
      <3>1. Calendar(req.zone) /\ d \in DOMAIN req.zone.start
        BY <1>2, DayFound DEF Daily, Asks
      <3> QED BY <3>1 DEF Calendar
    <2> HIDE DEF d
    <2>2. IF StepOf(req) \div DaySecs = WeekDays
          THEN FirstDay(req, d) = d - ((d - req.startOfWeek) % WeekDays)
          ELSE FirstDay(req, d) = (d \div (StepOf(req) \div DaySecs)) * (StepOf(req) \div DaySecs)
      BY <1>2, <2>1, FirstDayOf DEF Daily
    <2>3. BucketStart(t) = IF StepOf(req) \div DaySecs = WeekDays
             THEN req.zone.start[d - ((d - req.startOfWeek) % WeekDays)]
             ELSE req.zone.start[(d \div (StepOf(req) \div DaySecs)) * (StepOf(req) \div DaySecs)]
      BY <1>2 DEF Daily, BucketStart, EffectiveStep, d
    <2> QED BY <2>2, <2>3 DEF d
  <1> QED BY <1>1, <1>2

(* Without a long day, days take at most their nominal time together. *)
LEMMA DaysLast ==
  ASSUME NEW z, Calendar(z), ~LongDays(z), NEW i \in DOMAIN z.start, NEW j \in DOMAIN z.start,
         i <= j
  PROVE  z.start[j] - z.start[i] <= (j - i) * DaySecs
  <1> DEFINE S == z.start
             Late(k) == S[k] - S[i] > (k - i) * DaySecs
             N == {k - i : k \in {x \in DOMAIN S : i <= x /\ Late(x)}}
  <1>0. DaySecs \in Nat /\ \A k \in DOMAIN S : k \in Int /\ S[k] \in Int
    BY QueriesAssumption, DaysOrdered
  <1>1. ASSUME N # {} PROVE FALSE
    <2>1. N \subseteq Nat
      BY <1>0
    <2>2. PICK m \in N : \A k \in N : m <= k
      BY <1>1, <2>1, LeastNat
    <2>3. PICK k \in DOMAIN S : m = k - i /\ i <= k /\ Late(k)
      OBVIOUS
    <2>4. k # i
      BY <1>0, <2>3
    <2>5. k - 1 \in DOMAIN S /\ i <= k - 1
      <3>1. k - 1 \in Int /\ i <= k - 1 /\ k - 1 <= k
        BY <1>0, <2>3, <2>4
      <3> QED BY <3>1, DaysOrdered
    <2>6. ~Late(k - 1)
      <3>1. (k - 1) - i \notin N
        <4>1. k \in Int /\ i \in Int /\ m = k - i /\ \A x \in N : m <= x
          BY <1>0, <2>2, <2>3
        <4> HIDE DEF N, Late, S
        <4>2. ~(m <= (k - 1) - i)
          BY <4>1
        <4> QED BY <4>1, <4>2
      <3> QED BY <2>5, <3>1
    <2>7. S[k] - S[k - 1] <= DaySecs
      <3>1. (k - 1) + 1 = k
        BY <1>0
      <3> QED BY <1>0, <2>5, <3>1 DEF LongDays
    <2>8. S[k - 1] - S[i] <= ((k - 1) - i) * DaySecs
      BY <1>0, <2>5, <2>6
    <2>9. ((k - 1) - i) * DaySecs + DaySecs = (k - i) * DaySecs
      BY <1>0
    <2>10. S[k] \in Int /\ S[k - 1] \in Int /\ S[i] \in Int
      BY <1>0, <2>5
    <2>11. S[k] - S[i] > (k - i) * DaySecs
      BY <2>3
    <2>12. ((k - 1) - i) * DaySecs \in Int /\ (k - i) * DaySecs \in Int
      BY <1>0
    <2> HIDE DEF S, Late
    <2> QED BY <1>0, <2>7, <2>8, <2>9, <2>10, <2>11, <2>12
  <1> HIDE DEF S
  <1>2. ~Late(j)
    BY <1>1 DEF S
  <1> QED BY <1>0, <1>2 DEF S

(* Every instant of the range is in a bucket the answer keeps, if no day is   *)
(* longer than its step takes it to be.                                       *)
LEMMA InBucket ==
  ASSUME Asks(req), InTime(req), StepOf(req) \in Nat \ {0},
         ~(req.zone # None /\ LongDays(req.zone)),
         NEW t \in Int, Since(req) <= t, t < Until(req)
  PROVE  Overlaps(t)
  <1> DEFINE s == StepOf(req)
             b == BucketStart(t)
  <1>0. /\ s \in Nat \ {0} /\ Ms \in Nat \ {0} /\ DaySecs \in Nat \ {0}
        /\ Since(req) \in Int /\ Until(req) \in Int
    BY QueriesAssumption, TimesTyped
  <1>1. SUFFICES b \in Int /\ b * Ms <= t /\ t < b * Ms + s * Ms
    <2>1. s * Ms \in Int
      BY <1>0
    <2>2. b * Ms + s * Ms > Since(req) /\ b * Ms < Until(req)
      <3>1. b * Ms \in Int
        BY <1>0, <1>1
      <3> HIDE DEF b, s
      <3> QED BY <1>0, <1>1, <2>1, <3>1
    <2> QED BY <2>2 DEF Overlaps, EffectiveStep
  <1>2. CASE ~Daily(req)
    <2> DEFINE q == s * Ms
               k == t \div q
    <2>1. q \in Nat \ {0}
      <3> HIDE DEF s
      <3> QED BY <1>0, Product
    <2>2. b = k * s
      BY <1>2, BucketBegins
    <2> HIDE DEF s, b
    <2>3. k \in Int /\ q * k <= t /\ t < q * k + q
      <3> HIDE DEF q
      <3> QED BY <2>1, Division
    <2>4. b \in Int /\ b * Ms = q * k
      <3> HIDE DEF k
      <3>1. k * s \in Int /\ (k * s) * Ms = (s * Ms) * k
        BY <1>0, <2>3, Threefold
      <3>2. (s * Ms) * k = q * k
        OBVIOUS
      <3> QED BY <2>2, <3>1, <3>2
    <2> QED BY <2>3, <2>4
  <1>3. CASE Daily(req)
    <2> DEFINE z == req.zone
               S == z.start
               d == DayOf(z, t)
               n == s \div DaySecs
               f == FirstDay(req, d)
    <2>1. Calendar(z) /\ ~LongDays(z) /\ z # None
      BY <1>3 DEF Asks, Daily
    <2>2. /\ d \in DOMAIN S /\ d + 1 \in DOMAIN S /\ S[d] * Ms <= t /\ t < S[d + 1] * Ms
          /\ \A e \in Int : d - n <= e /\ e <= d => e \in DOMAIN S
      BY <2>1, DayFound
    <2>3. d \in Int
      BY <2>1, <2>2, DaysOrdered
    <2>4. /\ n \in Nat \ {0} /\ s = n * DaySecs
          /\ f \in Int /\ f <= d /\ d < f + n
      <3> HIDE DEF d
      <3> QED BY <1>3, <2>3, FirstDayOf DEF Daily
    <2>5. b = S[f]
      BY <1>3, BucketBegins
    <2> HIDE DEF f, n, d, b, z, s
    <2>6. f \in DOMAIN S
      BY <2>2, <2>3, <2>4
    <2>7. S[f] \in Int /\ S[d] \in Int /\ S[d + 1] \in Int
      BY <2>1, <2>2, <2>6, DaysOrdered
    <2>8. S[f] * Ms <= S[d] * Ms
      BY <2>1, <2>2, <2>4, <2>6, DaysOrdered
    <2>9. S[d + 1] <= S[f] + s
      <3>1. f <= d + 1
        BY <2>3, <2>4
      <3>2. S[d + 1] - S[f] <= ((d + 1) - f) * DaySecs
        BY <2>1, <2>2, <2>6, <3>1, DaysLast
      <3>3. ((d + 1) - f) * DaySecs <= n * DaySecs /\ ((d + 1) - f) * DaySecs \in Int
        <4>1. (d + 1) - f \in Int /\ (d + 1) - f <= n
          BY <2>3, <2>4
        <4> HIDE DEF S
        <4> QED BY <1>0, <2>4, <4>1, Multiples
      <3> HIDE DEF S
      <3> QED BY <1>0, <2>4, <2>7, <3>2, <3>3
    <2>10. S[d + 1] * Ms <= (S[f] + s) * Ms /\ (S[f] + s) * Ms = S[f] * Ms + s * Ms
      <3> HIDE DEF S
      <3>1. S[f] + s \in Int
        BY <1>0, <2>7
      <3> QED BY <1>0, <2>7, <2>9, <3>1, Multiples
    <2>11. S[f] * Ms \in Int /\ S[d] * Ms \in Int /\ S[d + 1] * Ms \in Int /\ s * Ms \in Int
      BY <1>0, <2>7
    <2> HIDE DEF S
    <2> QED BY <2>2, <2>5, <2>7, <2>8, <2>10, <2>11
  <1> QED BY <1>2, <1>3

-----------------------------------------------------------------------------
(* How many buckets a range query can touch                                  *)

Numbered(B, f, a, b) == \A x \in B : \E k \in a..b : x = f[k]

LEMMA Counted ==
  ASSUME NEW B, NEW a \in Int, NEW b \in Int, NEW f, NEW n \in Nat,
         Numbered(B, f, a, b), b - a < n
  PROVE  Cardinality(B) <= n
  <1> DEFINE g == [k \in a..b |-> f[k]]
             T == {f[k] : k \in a..b}
  <1>1. IsFiniteSet(a..b) /\ Cardinality(a..b) <= n
    <2>1. IsFiniteSet(a..b) /\ Cardinality(a..b) = IF a > b THEN 0 ELSE (b - a) + 1
      BY FS_Interval
    <2> QED BY <2>1
  <1>2. g \in Surjection(a..b, T)
    BY DEF Surjection
  <1>3. IsFiniteSet(T) /\ Cardinality(T) <= Cardinality(a..b)
    <2> HIDE DEF g, T
    <2> QED BY <1>1, <1>2, FS_Surjection
  <1>4. B \in SUBSET T
    BY DEF Numbered
  <1> HIDE DEF T
  <1>5. IsFiniteSet(B) /\ Cardinality(B) <= Cardinality(T)
    BY <1>3, <1>4, FS_Subset
  <1>6. Cardinality(B) \in Nat /\ Cardinality(T) \in Nat /\ Cardinality(a..b) \in Nat
    BY <1>1, <1>3, <1>5, FS_CardinalityType
  <1> QED BY <1>1, <1>3, <1>5, <1>6

LEMMA DivisionOrdered ==
  ASSUME NEW a \in Int, NEW b \in Int, NEW q \in Nat \ {0}, a <= b
  PROVE  a \div q <= b \div q
  <1> DEFINE i == a \div q
             j == b \div q
  <1>1. i \in Int /\ j \in Int /\ q * i <= a /\ b < q * j + q
    BY Division
  <1> HIDE DEF i, j
  <1>2. SUFFICES ASSUME j + 1 <= i PROVE FALSE
    BY <1>1 DEF i, j
  <1>3. (j + 1) * q <= i * q /\ (j + 1) * q = q * j + q /\ i * q = q * i
    BY <1>1, <1>2, Multiples
  <1>4. q * i \in Int /\ q * j \in Int
    BY <1>1
  <1> QED BY <1>1, <1>3, <1>4

(* m multiples of q and one more do not fit within a length below m + 1 of them. *)
LEMMA MultiplesFit ==
  ASSUME NEW a \in Int, NEW b \in Int, NEW q \in Nat \ {0}, NEW m \in Nat,
         q * (b - a) < q * m
  PROVE  b - a < m
  <1>1. b - a \in Int /\ q * (b - a) = (b - a) * q /\ q * m = m * q
    OBVIOUS
  <1> QED BY <1>1, Multiples

LEMMA EpochBuckets ==
  ASSUME NEW s \in Nat \ {0}, NEW len \in Int, NEW secs \in Nat,
         len < secs * Ms + Ms, secs <= s * MaxBuckets,
         NEW a \in Int, NEW b \in Int, (s * Ms) * (b - a) < len + s * Ms
  PROVE  b - a < MaxBuckets + 2
  <1> DEFINE q == s * Ms
             m == MaxBuckets
  <1>0. Ms \in Nat \ {0} /\ m \in Nat
    BY QueriesAssumption
  <1>1. q \in Nat \ {0} /\ Ms <= q
    BY <1>0, Product
  <1>2. secs * Ms <= (s * m) * Ms /\ secs * Ms \in Int /\ s * m \in Int
    <2>1. s * m \in Int
      BY <1>0
    <2> QED BY <1>0, <2>1, Multiples
  <1>3. (s * m) * Ms = q * m
    BY <1>0
  <1>4. q * (m + 2) = q * m + 2 * q /\ q * m \in Int
    <2> HIDE DEF q
    <2> QED BY <1>0, <1>1
  <1>5. q * (b - a) \in Int
    <2> HIDE DEF q
    <2> QED BY <1>1
  <1> HIDE DEF q
  <1>6. q * (b - a) < q * (m + 2)
    <2>1. q * (b - a) < len + q
      BY DEF q
    <2> HIDE DEF m
    <2> QED BY <1>0, <1>1, <1>2, <1>3, <1>4, <1>5, <2>1
  <1> QED BY <1>0, <1>1, <1>6, MultiplesFit

LEMMA DailyBuckets ==
  ASSUME NEW n \in Nat \ {0}, NEW secs \in Nat, secs <= (n * DaySecs) * MaxBuckets,
         NEW days \in Int, NEW time \in Int, time <= secs, days * DaySecs - time < DaySecs,
         NEW a \in Int, NEW b \in Int, n * (b - a) <= days + n
  PROVE  b - a < MaxBuckets + 2
  <1> DEFINE m == MaxBuckets
  <1>0. DaySecs \in Nat \ {0} /\ m \in Nat
    BY QueriesAssumption
  <1>1. (n * DaySecs) * m = (n * m) * DaySecs /\ n * m \in Nat
    BY <1>0
  <1>2. days <= n * m
    <2>1. SUFFICES ASSUME n * m + 1 <= days PROVE FALSE
      BY <1>1
    <2>2. (n * m + 1) * DaySecs <= days * DaySecs
      BY <1>0, <1>1, <2>1, Multiples
    <2>3. (n * m + 1) * DaySecs = (n * m) * DaySecs + DaySecs
      BY <1>0, <1>1
    <2>4. (n * m) * DaySecs \in Int /\ days * DaySecs \in Int
      BY <1>0, <1>1
    <2> QED BY <1>0, <1>1, <2>2, <2>3, <2>4
  <1>3. n * (b - a) < n * (m + 2)
    <2>1. n * (m + 2) = n * m + 2 * n /\ n * (b - a) \in Int
      BY <1>0
    <2> QED BY <1>1, <1>2, <2>1
  <1> QED BY <1>0, <1>3, MultiplesFit

LEMMA DaysFollow ==
  ASSUME NEW r, Asks(r), InTime(r), r.zone # None, StepOf(r) \in Nat \ {0},
         NEW t \in Int, NEW u \in Int, Since(r) <= t, t <= u, u < Until(r)
  PROVE  DayOf(r.zone, t) <= DayOf(r.zone, u)
  <1> DEFINE S == r.zone.start
             d == DayOf(r.zone, t)
             e == DayOf(r.zone, u)
  <1>0. Calendar(r.zone) /\ Since(r) \in Int /\ Until(r) \in Int /\ Ms \in Nat
    BY TimesTyped, QueriesAssumption DEF Asks
  <1>1. Since(r) <= u /\ t < Until(r)
    BY <1>0
  <1>2. d \in DOMAIN S /\ S[d] * Ms <= t /\ e \in DOMAIN S /\ e + 1 \in DOMAIN S /\ u < S[e + 1] * Ms
    <2>1. d \in DOMAIN S /\ S[d] * Ms <= t
      BY <1>1, DayFound
    <2>2. e \in DOMAIN S /\ e + 1 \in DOMAIN S /\ u < S[e + 1] * Ms
      BY <1>1, DayFound
    <2> QED BY <2>1, <2>2
  <1> HIDE DEF d, e, S
  <1>3. d \in Int /\ e \in Int /\ S[d] \in Int /\ S[e + 1] \in Int
    BY <1>0, <1>2, DaysOrdered DEF S
  <1>4. SUFFICES ASSUME e + 1 <= d PROVE FALSE
    BY <1>3 DEF d, e
  <1>5. S[e + 1] * Ms <= S[d] * Ms
    BY <1>0, <1>2, <1>4, DaysOrdered DEF S
  <1>6. S[d] * Ms \in Int /\ S[e + 1] * Ms \in Int
    BY <1>0, <1>3
  <1> QED BY <1>2, <1>5, <1>6

(* The bound of BucketsBounded, of an accepted step. *)
LEMMA FewBuckets ==
  ASSUME Asks(req), InTime(req), StepAccepted(req), IsRange,
         req.zone # None => NearlyNominal(req.zone)
  PROVE  Cardinality({BucketStart(t) : t \in Since(req)..Until(req) - 1}) <= MaxBuckets + 2
  <1> DEFINE lo == Since(req)
             hi == Until(req) - 1
             B == {BucketStart(t) : t \in lo..hi}
             s == StepOf(req)
             secs == RangeSecs(req)
  <1>0. /\ Ms \in Nat \ {0} /\ DaySecs \in Nat \ {0} /\ MaxBuckets \in Nat /\ MaxBuckets + 2 \in Nat
        /\ lo \in Int /\ Until(req) \in Int /\ hi \in Int
        /\ s \in Nat \ {0} /\ secs \in Nat /\ secs <= s * MaxBuckets
        /\ Until(req) - lo < secs * Ms + Ms
    <2>1. lo \in Int /\ Until(req) \in Int
      BY TimesTyped
    <2>2. s \in Nat \ {0} /\ secs <= s * MaxBuckets
      BY StepTyped DEF IsRange
    <2>3. secs \in Nat /\ Until(req) - lo < secs * Ms + Ms
      BY RangeTyped
    <2> QED BY <2>1, <2>2, <2>3, QueriesAssumption
  <1>1. \A t \in lo..hi : t \in Int /\ Since(req) <= t /\ t < Until(req)
    BY <1>0
  <1>2. CASE lo > hi
    <2>1. lo..hi = {}
      BY <1>0, <1>2
    <2>2. B = {}
      BY <2>1
    <2>3. Cardinality(B) = 0
      <3> HIDE DEF B
      <3> QED BY <2>2, FS_EmptySet
    <2> QED BY <1>0, <2>3
  <1>3. CASE lo <= hi /\ ~Daily(req)
    <2> DEFINE q == s * Ms
               a == lo \div q
               b == hi \div q
               f == [k \in Int |-> k * s]
    <2>1. q \in Nat \ {0}
      <3> HIDE DEF s
      <3> QED BY <1>0, Product
    <2>2. ASSUME NEW x \in B PROVE \E k \in a..b : x = f[k]
      <3>1. PICK t \in lo..hi : x = BucketStart(t)
        OBVIOUS
      <3>2. x = (t \div q) * s
        BY <1>0, <1>1, <1>3, <3>1, BucketBegins
      <3>3. t \div q \in Int /\ a \in Int /\ b \in Int /\ a <= t \div q /\ t \div q <= b
        <4>1. t \in Int /\ lo <= t /\ t <= hi
          BY <1>0
        <4> HIDE DEF q, lo, hi
        <4> QED BY <1>0, <2>1, <4>1, Division, DivisionOrdered
      <3> HIDE DEF q, s, a, b
      <3> QED BY <3>2, <3>3 DEF a, b
    <2>3. /\ a \in Int /\ b \in Int /\ q * b <= hi /\ lo < q * a + q
          /\ q * a \in Int /\ q * b \in Int /\ q * (b - a) = q * b - q * a
      <3> HIDE DEF q, lo, hi
      <3>1. a \in Int /\ b \in Int /\ q * b <= hi /\ lo < q * a + q
        BY <1>0, <2>1, Division
      <3> HIDE DEF a, b
      <3> QED BY <2>1, <3>1
    <2> DEFINE len == Until(req) - lo
    <2>4. q * (b - a) < len + q /\ len \in Int
      <3>1. hi = Until(req) - 1
        OBVIOUS
      <3> HIDE DEF q, a, b, hi, lo
      <3> QED BY <1>0, <2>1, <2>3, <3>1
    <2>5. b - a < MaxBuckets + 2
      <3> HIDE DEF a, b, len, secs, s, lo, hi
      <3>1. len < secs * Ms + Ms
        BY <1>0 DEF len
      <3> QED BY <1>0, <2>3, <2>4, <3>1, EpochBuckets
    <2> HIDE DEF B, a, b, f
    <2>6. a \in Int /\ b \in Int /\ MaxBuckets + 2 \in Nat
      BY <1>0, <2>3
    <2>7. Numbered(B, f, a, b)
      BY <2>2 DEF Numbered
    <2>8. Cardinality(B) <= MaxBuckets + 2
      BY <2>5, <2>6, <2>7, Counted
    <2> QED BY <2>8 DEF B
  <1>4. CASE lo <= hi /\ Daily(req)
    <2> DEFINE z == req.zone
               S == z.start
               n == s \div DaySecs
               o == Origin(req)
               da == DayOf(z, lo)
               db == DayOf(z, hi)
               a == (da - o) \div n
               b == (db - o) \div n
               f == [k \in Int |-> S[n * k + o]]
    <2>1. Calendar(z) /\ z # None /\ NearlyNominal(z) /\ s % DaySecs = 0
      BY <1>4 DEF Asks, Daily
    <2>2. \A d \in Int : /\ n \in Nat \ {0} /\ s = n * DaySecs /\ o \in Int
                         /\ FirstDay(req, d) <= d /\ d < FirstDay(req, d) + n
      BY <1>0, <2>1, FirstDayOf
    <2>3. n \in Nat \ {0} /\ s = n * DaySecs /\ o \in Int
      <3>1. 0 \in Int
        OBVIOUS
      <3> QED BY <2>2, <3>1
    <2>4. \A d : FirstDay(req, d) = n * ((d - o) \div n) + o
      BY DEF FirstDay
    <2>5. ASSUME NEW t \in lo..hi
          PROVE  /\ DayOf(z, t) \in DOMAIN S /\ DayOf(z, t) + 1 \in DOMAIN S
                 /\ DayOf(z, t) \in Int
                 /\ S[DayOf(z, t)] * Ms <= t /\ t < S[DayOf(z, t) + 1] * Ms
      <3>1. /\ DayOf(z, t) \in DOMAIN S /\ DayOf(z, t) + 1 \in DOMAIN S
            /\ S[DayOf(z, t)] * Ms <= t /\ t < S[DayOf(z, t) + 1] * Ms
        BY <1>0, <1>1, <2>1, DayFound
      <3> QED BY <2>1, <3>1, DaysOrdered
    <2>6. lo \in lo..hi /\ hi \in lo..hi
      BY <1>0, <1>4
    <2>7. da \in Int /\ db \in Int /\ da \in DOMAIN S /\ da + 1 \in DOMAIN S /\ db \in DOMAIN S
          /\ S[db] * Ms <= hi /\ lo < S[da + 1] * Ms
      BY <2>5, <2>6
    <2>8. ASSUME NEW t \in lo..hi PROVE da <= DayOf(z, t) /\ DayOf(z, t) <= db
      <3>1. t \in Int /\ lo <= t /\ t <= hi /\ hi < Until(req) /\ Since(req) <= lo /\ t < Until(req)
        BY <1>0
      <3> QED BY <1>0, <2>1, <3>1, DaysFollow
    <2>9. ASSUME NEW d \in Int, NEW e \in Int, d <= e
          PROVE  /\ (d - o) \div n \in Int /\ (e - o) \div n \in Int
                 /\ (d - o) \div n <= (e - o) \div n
      <3> DEFINE x == d - o
                 y == e - o
      <3>1. x \in Int /\ y \in Int /\ x <= y
        BY <2>3, <2>9
      <3>2. x \div n \in Int /\ y \div n \in Int /\ x \div n <= y \div n
        <4> HIDE DEF x, y, n
        <4> QED BY <2>3, <3>1, Division, DivisionOrdered
      <3> QED BY <3>2
    <2>10. ASSUME NEW x \in B PROVE \E k \in a..b : x = f[k]
      <3>1. PICK t \in lo..hi : x = BucketStart(t)
        OBVIOUS
      <3> DEFINE d == DayOf(z, t)
                 k == (d - o) \div n
      <3>2. x = S[FirstDay(req, d)]
        BY <1>0, <1>1, <1>4, <3>1, BucketBegins
      <3>3. FirstDay(req, d) = n * k + o
        BY <2>4
      <3>4. d \in Int /\ da <= d /\ d <= db
        BY <2>5, <2>8
      <3> HIDE DEF d
      <3>5. k \in Int /\ a \in Int /\ b \in Int /\ a <= k /\ k <= b
        <4> HIDE DEF da, db, n, o
        <4> QED BY <2>7, <2>9, <3>4
      <3> HIDE DEF k, a, b, S, n, o
      <3>6. k \in a..b /\ x = f[k]
        BY <3>2, <3>3, <3>5
      <3> QED BY <3>6 DEF a, b, S, n, o
    <2>11. a \in Int /\ b \in Int /\ a <= b
      <3>1. da <= db
        BY <2>6, <2>8
      <3> HIDE DEF da, db, n, o
      <3> QED BY <2>7, <2>9, <3>1
    <2>12. b - a < MaxBuckets + 2
      <3>1. CASE da = db
        BY <1>0, <2>11, <3>1
      <3>2. CASE da # db
        <4> DEFINE days == db - (da + 1)
                   time == S[db] - S[da + 1]
        <4>1. da + 1 <= db
          BY <2>6, <2>7, <2>8, <3>2
        <4>2. days * DaySecs - time < DaySecs
          BY <2>1, <2>7, <4>1 DEF NearlyNominal
        <4>3. S[db] \in Int /\ S[da + 1] \in Int
          BY <2>1, <2>7, DaysOrdered
        <4>4. time * Ms = S[db] * Ms - S[da + 1] * Ms /\ S[db] * Ms \in Int /\ S[da + 1] * Ms \in Int
          <5> HIDE DEF S, da, db
          <5> QED BY <1>0, <4>3
        <4>5. (secs + 1) * Ms = secs * Ms + Ms /\ secs * Ms \in Int /\ time \in Int /\ days \in Int
          <5> HIDE DEF S, da, db, secs
          <5> QED BY <1>0, <2>7, <4>3
        <4>6. time * Ms < (secs + 1) * Ms
          <5>1. hi = Until(req) - 1
            OBVIOUS
          <5> HIDE DEF S, da, db, secs, hi, lo, time
          <5> QED BY <1>0, <2>7, <4>4, <4>5, <5>1
        <4>7. time <= secs
          <5> HIDE DEF time, secs
          <5>1. time < secs + 1
            BY <1>0, <4>5, <4>6, Multiples
          <5> QED BY <1>0, <4>5, <5>1
        <4>8. n * (b - a) <= days + n
          <5>1. /\ n * b + o <= db /\ db < n * b + o + n
                /\ n * a + o <= da /\ da < n * a + o + n
            <6>1. FirstDay(req, da) = n * a + o /\ FirstDay(req, db) = n * b + o
              BY <2>4
            <6> HIDE DEF da, db, a, b, n, o
            <6> QED BY <2>2, <2>7, <6>1 DEF n, o
          <5>2. n * a \in Int /\ n * b \in Int /\ n * (b - a) = n * b - n * a
            <6> HIDE DEF a, b, n
            <6> QED BY <2>3, <2>11
          <5> HIDE DEF a, b, n, o, da, db
          <5> QED BY <2>3, <2>7, <5>1, <5>2
        <4>9. secs <= (n * DaySecs) * MaxBuckets
          <5>1. secs <= s * MaxBuckets /\ s = n * DaySecs
            BY <1>0, <2>3
          <5> HIDE DEF s, n, secs
          <5> QED BY <5>1
        <4> HIDE DEF days, time, a, b, n, secs
        <4> QED BY <1>0, <2>3, <2>11, <4>2, <4>5, <4>7, <4>8, <4>9, DailyBuckets
      <3> QED BY <3>1, <3>2
    <2> HIDE DEF B, a, b, f
    <2>13. Numbered(B, f, a, b)
      BY <2>10 DEF Numbered
    <2>14. Cardinality(B) <= MaxBuckets + 2
      BY <1>0, <2>11, <2>12, <2>13, Counted
    <2> QED BY <2>14 DEF B
  <1> QED BY <1>0, <1>2, <1>3, <1>4

-----------------------------------------------------------------------------
(* What an answer is made of                                                 *)

Kept == {e \in read : Wanted(e) /\ Overlaps(e.ts)}

(* The rows of an answer that leaves none out. *)
Rows == [k \in {EntryKey(e) : e \in Kept} |-> Entry({e \in Kept : EntryKey(e) = k})]

LEMMA RowsStay ==
  ASSUME UNCHANGED <<cur, req, read>> PROVE Rows' = Rows
  <1>1. cur' = cur /\ req' = req /\ read' = read
    OBVIOUS
  <1>2. ASSUME NEW t PROVE BucketStart(t)' = BucketStart(t)
    BY <1>1 DEF BucketStart, EffectiveStep
  <1>3. ASSUME NEW t PROVE Overlaps(t)' = Overlaps(t)
    BY <1>1, <1>2 DEF Overlaps, EffectiveStep
  <1>4. ASSUME NEW e PROVE Wanted(e)' = Wanted(e)
    BY <1>1 DEF Wanted
  <1>5. Kept' = Kept
    BY <1>1, <1>3, <1>4 DEF Kept
  <1>6. GroupBy' = GroupBy
    BY <1>1 DEF GroupBy, Selected
  <1>7. ASSUME NEW e PROVE EntryKey(e)' = EntryKey(e)
    BY <1>2, <1>6 DEF EntryKey
  <1>8. ASSUME NEW E PROVE Entry(E)' = Entry(E)
    BY <1>1 DEF Entry, CostOf
  <1> QED BY <1>5, <1>7, <1>8 DEF Rows

(* The request is one of the cases; its bounds and its step passed their      *)
(* checks before its events were read, and those are of its range.            *)
OfCase == \E c \in Cases : req = c.req /\ stored = c.stored

RequestInv ==
  /\ OfCase
  /\ st \notin {"received", "answered"} => InTime(req)
  /\ st \in {"scope", "role", "members", "read", "aggregate"} => StepAccepted(req)
  /\ \A e \in read : e \in stored /\ Since(req) <= e.ts /\ e.ts < Until(req)
  /\ answer.kind = "rows" =>
       /\ st = "answered" /\ InTime(req) /\ StepAccepted(req)
       /\ ~answer.truncated => answer.rows = Rows

LEMMA AsksCase ==
  ASSUME OfCase
  PROVE  Asks(req) /\ IsFiniteSet(stored) /\ \A e \in stored : Priceable(e)
  BY CasesAssumption DEF OfCase

LEMMA ReplyKind ==
  /\ Refused => st' = "answered" /\ answer'.kind = "refused"
  /\ \A W : Reply([NoAnswer EXCEPT !.kind = "windows", !.windows = W])
              => st' = "answered" /\ answer'.kind = "windows"
  /\ \A c, E : Reply([NoAnswer EXCEPT !.kind = "raw", !.truncated = c, !.events = E])
              => st' = "answered" /\ answer'.kind = "raw"
  /\ \A c, R, E : Reply([NoAnswer EXCEPT !.kind = "rows", !.truncated = c, !.rows = R,
                                          !.events = E])
              => /\ st' = "answered" /\ answer'.kind = "rows"
                 /\ answer'.truncated = c /\ answer'.rows = R
  BY DEF Refused, Reply, NoAnswer

LEMMA RequestInvariant == Spec => []RequestInv
<1>1. Init => RequestInv
  BY DEF Init, RequestInv, OfCase, NoAnswer
<1>2. RequestInv /\ [Next]_vars => RequestInv'
  <2> SUFFICES ASSUME RequestInv, [Next]_vars PROVE RequestInv'
    OBVIOUS
  <2>0. OfCase /\ Asks(req)
    BY AsksCase DEF RequestInv
  <2>1. CASE UNCHANGED vars
    <3>1. UNCHANGED <<cur, req, stored, st, read, answer>>
      BY <2>1 DEF vars, parserVars, handlerVars
    <3>2. Rows' = Rows
      BY <3>1, RowsStay
    <3> QED BY <3>1, <3>2 DEF RequestInv, OfCase
  (* The answer, if the step gives one, has no rows. *)
  <2>2. ASSUME UNCHANGED <<req, stored>>, answer'.kind # "rows",
               st' \notin {"received", "answered"} => InTime(req),
               st' \in {"scope", "role", "members", "read", "aggregate"} => StepAccepted(req),
               \A e \in read' : e \in stored /\ Since(req) <= e.ts /\ e.ts < Until(req)
        PROVE  RequestInv'
    BY <2>0, <2>2 DEF RequestInv, OfCase
  <2>3. ASSUME UNCHANGED <<req, stored, read>>, Refused PROVE RequestInv'
    <3>1. st' = "answered" /\ answer'.kind # "rows"
      BY <2>3, ReplyKind
    <3> QED BY <2>2, <2>3, <3>1 DEF RequestInv
  <2>4. ASSUME UNCHANGED <<req, stored, read, answer>>, st # "answered",
               st' \notin {"received", "answered"} => InTime(req),
               st' \in {"scope", "role", "members", "read", "aggregate"} => StepAccepted(req)
        PROVE  RequestInv'
    BY <2>2, <2>4 DEF RequestInv
  <2>5. CASE Receive
    <3>1. UNCHANGED <<req, stored, read>> /\ st = "received"
      BY <2>5 DEF Receive
    <3>2. CASE Refused
      BY <2>3, <3>1, <3>2
    <3>3. CASE ~Refused
      <4>1. /\ UNCHANGED answer /\ st' \in {"windows", "parse"}
            /\ None \notin {Since(req), Until(req)} /\ ~(Since(req) > Until(req))
        BY <2>5, <3>3 DEF Receive
      <4>2. InTime(req)
        <5>1. CASE Since(req) \in Int /\ Until(req) \in Int
          BY <4>1, <5>1 DEF InTime
        <5> QED BY <2>0, <4>1, <5>1, BoundsTyped
      <4> QED BY <2>4, <3>1, <4>1, <4>2
    <3> QED BY <3>2, <3>3
  <2>6. CASE QueryWindows
    <3>1. UNCHANGED <<req, stored, read>> /\ st = "windows"
      BY <2>6 DEF QueryWindows
    <3>2. CASE Refused
      BY <2>3, <3>1, <3>2
    <3>3. CASE ~Refused
      <4>1. st' = "answered" /\ answer'.kind # "rows"
        BY <2>6, <3>3, ReplyKind DEF QueryWindows
      <4> QED BY <2>2, <3>1, <4>1 DEF RequestInv
    <3> QED BY <3>2, <3>3
  <2>7. CASE ParseStep
    <3>1. UNCHANGED <<req, stored, st, read, answer>> /\ st = "parse"
      BY <2>7 DEF ParseStep, handlerVars
    <3> QED BY <2>4, <3>1 DEF RequestInv
  <2>8. CASE Parsed
    <3>1. UNCHANGED <<req, stored, read>> /\ st = "parse" /\ InTime(req)
      BY <2>8 DEF Parsed, RequestInv
    <3>2. CASE Refused
      BY <2>3, <3>1, <3>2
    <3>3. CASE ~Refused
      <4>1. /\ st' = "scope" /\ UNCHANGED answer
            /\ IsRange => ~(req.step < MinStep) /\ ~(req.step > RangeSecs(req))
        BY <2>8, <3>3 DEF Parsed
      <4>2. ASSUME req.step # None
            PROVE  /\ req.step \in Int /\ MinStep \in Int /\ RangeSecs(req) \in Int
        <5>1. RangeSecs(req) \in Int /\ MaxBuckets \in Nat \ {0}
          BY <2>0, <3>1, RangeTyped, QueriesAssumption
        <5> DEFINE n == RangeSecs(req) + MaxBuckets - 1
        <5>2. n \in Int
          BY <5>1
        <5>3. n \div MaxBuckets \in Int
          <6> HIDE DEF n
          <6> QED BY <5>1, <5>2, Division
        <5> QED BY <2>0, <4>2, <5>1, <5>3 DEF Asks, MinStep
      <4>3. StepAccepted(req)
        BY <4>1, <4>2 DEF StepAccepted, IsRange, MinStep
      <4> QED BY <2>4, <3>1, <4>1, <4>3
    <3> QED BY <3>2, <3>3
  <2>9. CASE ResolveScope
    <3>1. /\ UNCHANGED <<req, stored, read>> /\ st = "scope" /\ InTime(req) /\ StepAccepted(req)
      BY <2>9 DEF ResolveScope, RequestInv
    <3>2. CASE Refused
      BY <2>3, <3>1, <3>2
    <3>3. CASE UNCHANGED answer /\ st' \in {"read", "members", "role"}
      BY <2>4, <3>1, <3>3
    <3> QED BY <2>9, <3>2, <3>3 DEF ResolveScope
  <2>10. CASE MemberRole
    <3>1. /\ UNCHANGED <<req, stored, read>> /\ st = "role" /\ InTime(req) /\ StepAccepted(req)
      BY <2>10 DEF MemberRole, RequestInv
    <3>2. CASE Refused
      BY <2>3, <3>1, <3>2
    <3>3. CASE UNCHANGED answer /\ st' = "members"
      BY <2>4, <3>1, <3>3
    <3> QED BY <2>10, <3>2, <3>3 DEF MemberRole
  <2>11. CASE ListMembers
    <3>1. /\ UNCHANGED <<req, stored, read, answer>> /\ st = "members" /\ st' = "read"
          /\ InTime(req) /\ StepAccepted(req)
      BY <2>11 DEF ListMembers, RequestInv
    <3> QED BY <2>4, <3>1
  <2>12. CASE QueryEvents
    <3>1. /\ UNCHANGED <<req, stored, answer>> /\ st = "read" /\ InTime(req) /\ StepAccepted(req)
          /\ answer.kind # "rows" /\ read' \subseteq Matching
      BY <2>12 DEF QueryEvents, RequestInv, Limited
    <3>2. ASSUME NEW e \in Matching
          PROVE  e \in stored /\ Since(req) <= e.ts /\ e.ts < Until(req)
      <4>1. e \in stored /\ e.ts >= Since(req) /\ e.ts < Until(req)
        BY DEF Matching
      <4>2. e.ts \in Nat /\ Since(req) \in Int
        BY <2>0, <3>1, <4>1, AsksCase, TimesTyped DEF Priceable
      <4> QED BY <4>1, <4>2
    <3> QED BY <2>2, <3>1, <3>2
  <2>13. CASE Aggregate
    <3> DEFINE keys == {EntryKey(e) : e \in Kept}
    <3>1. UNCHANGED <<cur, req, stored, read>> /\ st = "aggregate"
      BY <2>13 DEF Aggregate, parserVars
    <3>2. \E K : Reply([NoAnswer EXCEPT !.kind = "rows", !.truncated = (K # keys),
                          !.rows = [k \in K |-> Entry({e \in Kept : EntryKey(e) = k})],
                          !.events = {e \in Kept : EntryKey(e) \in K}])
      BY <2>13 DEF Aggregate, Kept
    <3>3. PICK K : Reply([NoAnswer EXCEPT !.kind = "rows", !.truncated = (K # keys),
                          !.rows = [k \in K |-> Entry({e \in Kept : EntryKey(e) = k})],
                          !.events = {e \in Kept : EntryKey(e) \in K}])
      BY <3>2
    <3> DEFINE R == [k \in K |-> Entry({e \in Kept : EntryKey(e) = k})]
               E == {e \in Kept : EntryKey(e) \in K}
               c == K # keys
    <3>4. st' = "answered" /\ answer'.truncated = c /\ answer'.rows = R
      <4>1. Reply([NoAnswer EXCEPT !.kind = "rows", !.truncated = c, !.rows = R, !.events = E])
        BY <3>3
      <4> HIDE DEF R, E, c
      <4> QED BY <4>1, ReplyKind
    <3>5. ~answer'.truncated => answer'.rows = Rows
      BY <3>4 DEF Rows
    <3>6. Rows' = Rows
      BY <3>1, RowsStay
    <3>7. InTime(req) /\ StepAccepted(req)
      BY <3>1 DEF RequestInv
    <3> HIDE DEF R, E, c, keys
    <3> QED BY <2>0, <3>1, <3>4, <3>5, <3>6, <3>7 DEF RequestInv, OfCase
  <2>14. CASE ListEvents
    <3>1. UNCHANGED <<req, stored, read>>
      BY <2>14 DEF ListEvents
    <3>2. \E E : Reply([NoAnswer EXCEPT !.kind = "raw", !.truncated = cut, !.events = E])
      BY <2>14 DEF ListEvents
    <3>3. st' = "answered" /\ answer'.kind # "rows"
      BY <3>2, ReplyKind
    <3> QED BY <2>2, <3>1, <3>3 DEF RequestInv
  <2>15. CASE Change
    <3>1. UNCHANGED <<req, stored, st, read, answer>> /\ st # "answered"
      BY <2>15 DEF Change, handlerVars
    <3> QED BY <2>4, <3>1 DEF RequestInv
  <2> QED
    BY <2>1, <2>5, <2>6, <2>7, <2>8, <2>9, <2>10, <2>11, <2>12, <2>13, <2>14, <2>15 DEF Next
<1> QED
  BY <1>1, <1>2, PTL DEF Spec

-----------------------------------------------------------------------------
(* What the rows add up to                                                   *)

LEMMA CostTyped ==
  ASSUME NEW e, Priceable(e), Prices[e.model] # None
  PROVE  EventCost(e) \in Nat
  <1> DEFINE p == Prices[e.model]
             fresh == IF Provider(e) = "codex"
                      THEN (IF e.cached > e.input THEN 0 ELSE e.input - e.cached) ELSE e.input
  <1>1. e.input \in Nat /\ e.cached \in Nat /\ p.input \in Nat /\ p.cached \in Nat
    BY DEF Priceable
  <1>2. fresh \in Nat
    BY <1>1
  <1>3. EventCost(e) = fresh * p.input + e.cached * p.cached
    BY DEF EventCost
  <1> HIDE DEF fresh, p
  <1>4. fresh * p.input \in Nat /\ e.cached * p.cached \in Nat
    BY <1>1, <1>2, Product
  <1> QED BY <1>3, <1>4

(* An image of a finite set is finite. *)
LEMMA ImageFinite ==
  ASSUME NEW S, IsFiniteSet(S), NEW f
  PROVE  IsFiniteSet({f[x] : x \in S})
  <1> DEFINE T == {f[x] : x \in S}
             g == [x \in S |-> f[x]]
  <1>1. g \in Surjection(S, T)
    BY DEF Surjection
  <1> HIDE DEF g, T
  <1>2. IsFiniteSet(T)
    BY <1>1, FS_Surjection
  <1> QED BY <1>2 DEF T

(* The rows of E by the value of key: their events, their input, their cost.  *)
RowsBy(R, key, E, K) ==
  /\ \A e \in E : Priceable(e) /\ key[e] \in K
  /\ DOMAIN R = K /\ \A k \in K : R[k] = Entry(Group(key, E, k))

LEMMA RowsAddUp ==
  ASSUME NEW E, IsFiniteSet(E), NEW K, IsFiniteSet(K), NEW key, NEW R, RowsBy(R, key, E, K)
  PROVE  /\ SumFunction([k \in DOMAIN R |-> R[k].events]) = Cardinality(E)
         /\ cur.metric # "events" /\ InputOf(E) <= MaxSum =>
              /\ SumFunction([k \in DOMAIN R |-> R[k].input]) = InputOf(E)
              /\ ~req.noCost =>
                   SumFunction([k \in DOMAIN R |-> IF R[k].cost = None THEN 0 ELSE R[k].cost])
                     = Costs(E)
  <1> DEFINE G(k) == Group(key, E, k)
  <1> USE DEF RowsBy
  <1>1. \A k \in K : IsFiniteSet(G(k)) /\ G(k) \subseteq E
    <2>1. \A k \in K : G(k) \subseteq E
      BY DEF Group
    <2> QED BY <2>1, FS_Subset
  <1>2. SumFunction([k \in DOMAIN R |-> R[k].events]) = Cardinality(E)
    <2> DEFINE one == [e \in E |-> 1]
               ev == [k \in DOMAIN R |-> R[k].events]
    <2>1. Numbers(one, E)
      BY DEF Numbers
    <2>2. \A k \in K : ev[k] = Cardinality(G(k))
      <3> HIDE DEF G
      <3>1. \A k \in K : R[k].events = Cardinality(Group(key, E, k))
        BY DEF Entry
      <3> QED BY <3>1 DEF G
    <2>3. ASSUME NEW k \in K PROVE SumOn(one, G(k)) = Cardinality(G(k))
      <3>1. \A e \in G(k) : one[e] = 1
        BY <1>1
      <3> HIDE DEF G, one
      <3> QED BY <1>1, <3>1, SumOnes
    <2>4. Same(Groups(one, key, E, K), ev, K)
      <3> HIDE DEF one, ev
      <3> QED BY <2>2, <2>3 DEF Same, Groups
    <2>5. Numbers(Groups(one, key, E, K), K) /\ SumOn(Groups(one, key, E, K), K) = SumOn(one, E)
      <3> HIDE DEF one
      <3> QED BY <2>1, GroupNat, SumGrouped
    <2>6. SumOn(one, E) = Cardinality(E)
      <3>1. \A e \in E : one[e] = 1
        OBVIOUS
      <3> HIDE DEF one
      <3> QED BY <3>1, SumOnes
    <2>7. SumFunction(ev) = SumOn(ev, K)
      BY SumOnIs
    <2> HIDE DEF one, ev
    <2>8. SumOn(ev, K) = SumOn(Groups(one, key, E, K), K)
      BY <2>4, <2>5, SumSame
    <2>9. SumFunction(ev) = Cardinality(E)
      BY <2>5, <2>6, <2>7, <2>8
    <2> QED BY <2>9 DEF ev
  <1>3. ASSUME cur.metric # "events", InputOf(E) <= MaxSum
        PROVE  SumFunction([k \in DOMAIN R |-> R[k].input]) = InputOf(E)
    <2> DEFINE in == [e \in E |-> e.input]
               ev == [k \in DOMAIN R |-> R[k].input]
    <2>1. Numbers(in, E)
      BY DEF Numbers, Priceable
    <2>2. InputOf(E) = SumOn(in, E)
      <3>1. DOMAIN in = E
        OBVIOUS
      <3> HIDE DEF in
      <3>2. SumFunction(in) = SumOn(in, E)
        BY <3>1, SumOnIs
      <3> QED BY <3>2 DEF InputOf, in
    <2>3. ASSUME NEW k \in K PROVE InputOf(G(k)) = SumOn(in, G(k))
      <3> DEFINE H == G(k)
                 j == [e \in H |-> e.input]
      <3>1. H \subseteq E /\ IsFiniteSet(H)
        BY <1>1
      <3> HIDE DEF H
      <3>2. Numbers(in, H) /\ Same(in, j, H)
        BY <2>1, <3>1 DEF Numbers, Same
      <3>3. DOMAIN j = H
        OBVIOUS
      <3> HIDE DEF in, j
      <3>4. SumFunction(j) = SumOn(j, H) /\ SumOn(j, H) = SumOn(in, H)
        BY <3>1, <3>2, <3>3, SumOnIs, SumSame
      <3> QED BY <3>4 DEF InputOf, j, H
    <2>4. ASSUME NEW k \in K PROVE ev[k] = SumOn(in, G(k))
      <3>1. SumOn(in, G(k)) \in Nat /\ SumOn(in, G(k)) <= SumOn(in, E)
        <4> HIDE DEF in, G
        <4> QED BY <1>1, <2>1, SumPart
      <3>2. R[k].input = IF InputOf(G(k)) > MaxSum THEN MaxSum ELSE InputOf(G(k))
        BY <1>3 DEF Entry
      <3>3. ev[k] = R[k].input
        OBVIOUS
      <3>4. SumOn(in, E) \in Nat /\ MaxSum \in Nat
        <4> HIDE DEF in
        <4> QED BY <2>1, SumNat, QueriesAssumption
      <3> HIDE DEF in, G, ev
      <3> QED BY <1>3, <2>2, <2>3, <3>1, <3>2, <3>3, <3>4
    <2>5. Same(Groups(in, key, E, K), ev, K)
      <3> HIDE DEF in, ev
      <3> QED BY <2>4 DEF Same, Groups
    <2>6. Numbers(Groups(in, key, E, K), K) /\ SumOn(Groups(in, key, E, K), K) = SumOn(in, E)
      <3> HIDE DEF in
      <3> QED BY <2>1, GroupNat, SumGrouped
    <2>7. SumFunction(ev) = SumOn(ev, K)
      BY SumOnIs
    <2> HIDE DEF in, ev
    <2>8. SumOn(ev, K) = SumOn(Groups(in, key, E, K), K)
      BY <2>5, <2>6, SumSame
    <2>9. SumFunction(ev) = InputOf(E)
      BY <2>2, <2>6, <2>7, <2>8
    <2> QED BY <2>9 DEF ev
  <1>4. ASSUME cur.metric # "events", ~req.noCost
        PROVE  SumFunction([k \in DOMAIN R |-> IF R[k].cost = None THEN 0 ELSE R[k].cost])
                 = Costs(E)
    <2> DEFINE P == Priced(E)
               co == [e \in P |-> EventCost(e)]
               ev == [k \in DOMAIN R |-> IF R[k].cost = None THEN 0 ELSE R[k].cost]
    <2>0. P \subseteq E /\ IsFiniteSet(P)
      <3>1. P \subseteq E
        BY DEF Priced
      <3> QED BY <3>1, FS_Subset
    <2>1. Numbers(co, P)
      <3>1. \A e \in P : EventCost(e) \in Nat
        BY CostTyped DEF Priced
      <3> QED BY <3>1 DEF Numbers
    <2>2. Costs(E) = SumOn(co, P)
      <3>1. DOMAIN co = P
        OBVIOUS
      <3> HIDE DEF co, P
      <3>2. SumFunction(co) = SumOn(co, P)
        BY <3>1, SumOnIs
      <3> QED BY <3>2 DEF Costs, co, P
    <2>3. ASSUME NEW k \in K
          PROVE  /\ Group(key, P, k) = Priced(G(k))
                 /\ Costs(G(k)) = SumOn(co, Group(key, P, k)) /\ Costs(G(k)) \in Nat
      <3> DEFINE H == Priced(G(k))
                 j == [e \in H |-> EventCost(e)]
      <3>1. H = Group(key, P, k)
        BY DEF Priced, Group
      <3>2. H \subseteq P /\ IsFiniteSet(H)
        <4>1. H \subseteq P
          BY <3>1 DEF Group
        <4> QED BY <2>0, <4>1, FS_Subset
      <3>3. Costs(G(k)) = SumFunction(j)
        BY DEF Costs
      <3> HIDE DEF H, G, P
      <3>4. Numbers(co, H) /\ Same(co, j, H)
        BY <2>1, <3>2 DEF Numbers, Same
      <3>5. DOMAIN j = H
        OBVIOUS
      <3> HIDE DEF co, j
      <3>6. SumFunction(j) = SumOn(j, H) /\ SumOn(j, H) = SumOn(co, H) /\ SumOn(co, H) \in Nat
        BY <3>2, <3>4, <3>5, SumOnIs, SumSame
      <3> QED BY <3>1, <3>3, <3>6 DEF H
    <2>4. ASSUME NEW k \in K PROVE ev[k] = SumOn(co, Group(key, P, k))
      <3>1. R[k].cost = IF Priced(G(k)) = {} THEN None ELSE Costs(G(k))
        BY <1>4 DEF Entry, CostOf
      <3>2. ev[k] = IF R[k].cost = None THEN 0 ELSE R[k].cost
        OBVIOUS
      <3> HIDE DEF ev, co, G, P
      <3>3. CASE Priced(G(k)) = {}
        BY <2>3, <3>1, <3>2, <3>3, SumEmpty
      <3>4. CASE Priced(G(k)) # {}
        <4>1. Costs(G(k)) # None
          BY <2>3, QueriesAssumption
        <4> QED BY <2>3, <3>1, <3>2, <3>4, <4>1
      <3> QED BY <3>3, <3>4
    <2>5. Same(Groups(co, key, P, K), ev, K)
      <3> HIDE DEF co, ev, P
      <3> QED BY <2>4 DEF Same, Groups
    <2>6. Numbers(Groups(co, key, P, K), K) /\ SumOn(Groups(co, key, P, K), K) = SumOn(co, P)
      <3> HIDE DEF co
      <3>1. \A e \in P : key[e] \in K
        BY <2>0
      <3> HIDE DEF P
      <3> QED BY <2>0, <2>1, <3>1, GroupNat, SumGrouped
    <2>7. SumFunction(ev) = SumOn(ev, K)
      BY SumOnIs
    <2> HIDE DEF co, ev
    <2>8. SumOn(ev, K) = SumOn(Groups(co, key, P, K), K)
      BY <2>5, <2>6, SumSame
    <2>9. SumFunction(ev) = Costs(E)
      BY <2>2, <2>6, <2>7, <2>8
    <2> QED BY <2>9 DEF ev
  <1> QED BY <1>2, <1>3, <1>4

(* aggregate_events_to_toki_json: every event read is in a bucket the answer  *)
(* keeps and in one of its rows, so that an answer that leaves none out adds  *)
(* up to the events, the tokens and the cost of what was read.                *)
THEOREM BucketsConserve == Spec => []Conserved
<1>1. RequestInv => Conserved
  <2> DEFINE E == {e \in read : Wanted(e)}
             key == [e \in E |-> EntryKey(e)]
             K == {EntryKey(e) : e \in E}
  <2> SUFFICES ASSUME RequestInv, answer.kind = "rows", ~answer.truncated,
                      ~(req.zone # None /\ LongDays(req.zone))
               PROVE  Conserved
    BY DEF Conserved
  <2>1. Asks(req) /\ IsFiniteSet(stored) /\ \A e \in stored : Priceable(e)
    BY AsksCase DEF RequestInv
  <2>2. InTime(req) /\ StepAccepted(req) /\ answer.rows = Rows
    BY DEF RequestInv
  <2>3. \A e \in read : e \in stored /\ Since(req) <= e.ts /\ e.ts < Until(req)
    BY DEF RequestInv
  <2>4. StepOf(req) \in Nat \ {0}
    BY <2>1, <2>2, StepTyped
  <2>5. E \subseteq read /\ IsFiniteSet(E) /\ \A e \in E : Priceable(e)
    <3>1. E \subseteq stored
      BY <2>3
    <3> QED BY <2>1, <3>1, FS_Subset
  <2>6. Kept = E
    <3>1. ASSUME NEW e \in read PROVE Overlaps(e.ts)
      <4>1. e.ts \in Int
        BY <2>1, <2>3 DEF Priceable
      <4> QED BY <2>1, <2>2, <2>3, <2>4, <4>1, InBucket
    <3> QED BY <3>1 DEF Kept
  <2>7. IsFiniteSet(K)
    <3>1. K = {key[e] : e \in E}
      OBVIOUS
    <3> HIDE DEF key, K, E
    <3> QED BY <2>5, <3>1, ImageFinite
  <2>8. answer.rows = [k \in K |-> Entry({e \in E : EntryKey(e) = k})]
    BY <2>2, <2>6 DEF Rows
  <2> DEFINE R == answer.rows
  <2>9. DOMAIN R = K /\ \A k \in K : R[k] = Entry(Group(key, E, k))
    <3>1. \A k : Group(key, E, k) = {e \in E : EntryKey(e) = k}
      BY DEF Group
    <3> HIDE DEF key, E, K
    <3> QED BY <2>8, <3>1
  <2>10. \A e \in E : key[e] \in K
    OBVIOUS
  <2> HIDE DEF E, key, K, R
  <2>11. /\ SumFunction([k \in DOMAIN R |-> R[k].events]) = Cardinality(E)
         /\ cur.metric # "events" /\ InputOf(E) <= MaxSum =>
              /\ SumFunction([k \in DOMAIN R |-> R[k].input]) = InputOf(E)
              /\ ~req.noCost =>
                   SumFunction([k \in DOMAIN R |-> IF R[k].cost = None THEN 0 ELSE R[k].cost])
                     = Costs(E)
    <3>1. RowsBy(R, key, E, K)
      BY <2>5, <2>9, <2>10 DEF RowsBy
    <3> QED BY <2>5, <2>7, <3>1, RowsAddUp
  <2> QED BY <2>11 DEF Conserved, E, R
<1> QED
  BY <1>1, RequestInvariant, PTL

(* The step check of toki_query: however the bounds and the days are aligned, *)
(* a range query touches two buckets more than the cap at most, in a zone     *)
(* whose days, together, fall short of their nominal time by less than a day. *)
THEOREM StepBoundsBuckets ==
  ASSUME \A c \in Cases : c.req.zone # None => NearlyNominal(c.req.zone)
  PROVE  Spec => []BucketsBounded
<1>1. RequestInv => BucketsBounded
  <2> SUFFICES ASSUME RequestInv, answer.kind = "rows", IsRange PROVE BucketsBounded
    BY DEF BucketsBounded
  <2>1. OfCase /\ InTime(req) /\ StepAccepted(req)
    BY DEF RequestInv
  <2>2. Asks(req) /\ (req.zone # None => NearlyNominal(req.zone))
    BY <2>1, AsksCase DEF OfCase
  <2>3. Cardinality({BucketStart(t) : t \in Since(req)..Until(req) - 1}) <= MaxBuckets + 2
    BY <2>1, <2>2, FewBuckets
  <2> QED BY <2>3 DEF BucketsBounded
<1> QED
  BY <1>1, RequestInvariant, PTL

-----------------------------------------------------------------------------
(* The parser: what of the grammar a cursor has read                         *)

States == {"wrapper", "wrapper_by", "function", "metric", "open", "filter", "filter_end",
           "range", "offset", "close", "trailing", "by", "label", "label_end", "finish",
           "ok", "refused"}
ByStates == {"by", "label", "label_end"}

Cursor == [st : States, pos : Nat \ {0}, ret : {"none", "wrapper", "trailing"},
           haveBy : BOOLEAN, open : Nat, operator : BOOLEAN, bucket : BOOLEAN,
           metric : Metrics \cup {"none"}, labels : Seq(Idents),
           provider : Quoted \cup {"none"}]

LabelSet(c) == {c.labels[k] : k \in DOMAIN c.labels}

(* A list of labels from i up to j, of which not all may be supported. *)
LabelList(s, c, i, j) ==
  /\ \A k \in i..j - 1 : IF (k - i) % 2 = 0 THEN At(s, k) \in Idents ELSE At(s, k) = Comma
  /\ LabelSet(c) = {At(s, k) : k \in i..j - 1} \ {Comma}

(* A by clause at i, read to the end at j, or as far as the cursor. *)
Clause(s, c, i, j) ==
  /\ At(s, i) = "by" /\ At(s, i + 1) = "(" /\ i + 3 < j /\ At(s, j - 1) = ")"
  /\ LabelList(s, c, i + 2, j - 1)

InClause(s, c, i) ==
  /\ At(s, i) = "by"
  /\ c.st = "by" => c.pos = i + 1 /\ c.labels = <<>>
  /\ c.st \in {"label", "label_end"} =>
       /\ At(s, i + 1) = "(" /\ i + 2 <= c.pos /\ LabelList(s, c, i + 2, c.pos)
       /\ (c.pos - i) % 2 = (IF c.st = "label" THEN 0 ELSE 1)

(* What comes before an expression, with any labels. *)
Opened(s, c, h, i) ==
  \/ h = "none" /\ i = 1 /\ ~c.haveBy
  \/ h = "sum" /\ At(s, 1) = "sum" /\ At(s, 2) = "(" /\ i = 3 /\ ~c.haveBy
  \/ /\ h = "sum_by" /\ At(s, 1) = "sum" /\ c.haveBy
     /\ Clause(s, c, 2, i - 1) /\ At(s, i - 1) = "("

HasCall(s, c, m) ==
  \E h \in {"none", "sum", "sum_by"}, i \in Nat :
    /\ Opened(s, c, h, i) /\ Call(s, i, m)
    /\ c.open = Parentheses(h, i, m) /\ (c.operator <=> h # "none" \/ m # i)

HasMetric(s, c, m) == HasCall(s, c, m) /\ At(s, m) \in Metrics /\ c.metric = At(s, m)

(* The matchers from the brace at i up to the cursor, all of one value.       *)
Matcher(s, i, k) ==
  At(s, k) \in CASE (k - i) % 4 = 1 -> {"provider"} [] (k - i) % 4 = 2 -> {"="}
                 [] (k - i) % 4 = 3 -> Quoted \ {"''"} [] (k - i) % 4 = 0 -> {Comma}

Matchers(s, c, i, j) ==
  /\ At(s, i) = LBrace /\ i < j /\ \A k \in i + 1..j - 1 : Matcher(s, i, k)
  /\ {At(s, k) : k \in i + 1..j - 1} \cap Quoted = {c.provider} \ {"none"}

InFilters(s, c, m) ==
  /\ HasMetric(s, c, m) /\ Matchers(s, c, m + 1, c.pos)
  /\ (c.pos - m) % 4 = (IF c.st = "filter" THEN 2 ELSE 1)

HasFilters(s, c, f) ==
  \E m \in Nat \ {0} :
    /\ HasMetric(s, c, m)
    /\ \/ f = m + 1 /\ c.provider = "none"
       \/ /\ m + 2 < f /\ At(s, f - 1) = RBrace /\ (f - m) % 4 \in {2, 3}
          /\ Matchers(s, c, m + 1, f - 1)

HasRange(s, c, r) ==
  \/ HasFilters(s, c, r) /\ ~c.bucket
  \/ r - 1 \in Nat /\ HasFilters(s, c, r - 1) /\ At(s, r - 1) = "[1d]" /\ c.bucket

HasClose(s, c, e) ==
  \E r \in Nat : /\ HasRange(s, c, r) /\ e = r + c.open
                 /\ \A k \in r..e - 1 : At(s, k) = ")"

NoLabels(c) == c.haveBy \/ c.labels = <<>>

Finished(s, c, e) ==
  \/ c.pos = e /\ NoLabels(c)
  \/ ~c.haveBy /\ Clause(s, c, e, c.pos)

(* Nothing read that counts, and nothing read of filters and range. *)
Blank(c) == /\ ~c.haveBy /\ c.open = 0 /\ ~c.operator /\ ~c.bucket /\ c.provider = "none"
Early(c) == /\ ~c.bucket /\ c.provider = "none" /\ NoLabels(c)

Shape(s, c) ==
  /\ c.st = "wrapper" => Blank(c) /\ c.pos = 1 /\ c.labels = <<>>
  /\ c.st \in ByStates /\ c.ret # "trailing" => Blank(c) /\ c.ret = "wrapper" /\ InClause(s, c, 2)
  /\ c.st = "wrapper_by" => Blank(c) /\ Clause(s, c, 2, c.pos)
  /\ c.st = "function" =>
       /\ Early(c)
       /\ \E h \in {"none", "sum", "sum_by"} :
            /\ Opened(s, c, h, c.pos) /\ (c.operator <=> h # "none")
            /\ c.open = (IF h = "none" THEN 0 ELSE 1)
  /\ c.st = "metric" => Early(c) /\ HasCall(s, c, c.pos)
  /\ c.st = "open" => Early(c) /\ c.pos - 1 \in Nat \ {0} /\ HasMetric(s, c, c.pos - 1)
                               /\ At(s, c.pos) = LBrace
  /\ c.st \in {"filter", "filter_end"} =>
       ~c.bucket /\ NoLabels(c) /\ \E m \in Nat \ {0} : InFilters(s, c, m)
  /\ c.st = "range" => ~c.bucket /\ NoLabels(c) /\ HasFilters(s, c, c.pos)
  /\ c.st \in {"offset", "close"} => NoLabels(c) /\ HasRange(s, c, c.pos)
  /\ c.st = "trailing" => NoLabels(c) /\ HasClose(s, c, c.pos)
  /\ c.st \in ByStates /\ c.ret = "trailing" =>
       ~c.haveBy /\ \E e \in Nat : HasClose(s, c, e) /\ InClause(s, c, e)
  /\ c.st \in {"finish", "ok"} => \E e \in Nat : HasClose(s, c, e) /\ Finished(s, c, e)
  /\ c.st = "ok" => c.pos = Len(s) + 1 /\ Supported(LabelSet(c) \ {"type"})

ParserInv(s, c) ==
  s \in Seq(Tokens) /\ c \in Cursor /\ c.pos <= Len(s) + 1 /\ Shape(s, c)

-----------------------------------------------------------------------------
(* What was read stays read.                                                  *)

SameHead(c, d) ==
  /\ d.haveBy = c.haveBy /\ d.open = c.open /\ d.operator = c.operator
  /\ c.haveBy => d.labels = c.labels

LEMMA LabelSetStays ==
  ASSUME NEW c, NEW d, d.labels = c.labels
  PROVE  LabelSet(d) = LabelSet(c)
  BY DEF LabelSet

LEMMA OpenedStays ==
  ASSUME NEW s, NEW c, NEW d, NEW h, NEW i, SameHead(c, d), Opened(s, c, h, i)
  PROVE  Opened(s, d, h, i)
  <1>1. ASSUME c.haveBy PROVE Clause(s, c, 2, i - 1) => Clause(s, d, 2, i - 1)
    BY <1>1, LabelSetStays DEF SameHead, Clause, LabelList
  <1> QED BY <1>1 DEF Opened, SameHead

LEMMA CallStays ==
  ASSUME NEW s, NEW c, NEW d, NEW m, SameHead(c, d), HasCall(s, c, m)
  PROVE  HasCall(s, d, m)
  <1>1. PICK h \in {"none", "sum", "sum_by"}, i \in Nat :
          /\ Opened(s, c, h, i) /\ Call(s, i, m)
          /\ c.open = Parentheses(h, i, m) /\ (c.operator <=> h # "none" \/ m # i)
    BY DEF HasCall
  <1>2. Opened(s, d, h, i)
    BY <1>1, OpenedStays
  <1>3. d.open = c.open /\ d.operator = c.operator
    BY DEF SameHead
  <1> QED BY <1>1, <1>2, <1>3 DEF HasCall

LEMMA MetricStays ==
  ASSUME NEW s, NEW c, NEW d, NEW m, SameHead(c, d), d.metric = c.metric, HasMetric(s, c, m)
  PROVE  HasMetric(s, d, m)
  BY CallStays DEF HasMetric

LEMMA FiltersStay ==
  ASSUME NEW s, NEW c, NEW d, NEW f, SameHead(c, d), d.metric = c.metric,
         d.provider = c.provider, HasFilters(s, c, f)
  PROVE  HasFilters(s, d, f)
  <1>1. PICK m \in Nat \ {0} :
          /\ HasMetric(s, c, m)
          /\ \/ f = m + 1 /\ c.provider = "none"
             \/ /\ m + 2 < f /\ At(s, f - 1) = RBrace /\ (f - m) % 4 \in {2, 3}
                /\ Matchers(s, c, m + 1, f - 1)
    BY DEF HasFilters
  <1>2. HasMetric(s, d, m)
    BY <1>1, MetricStays
  <1>3. Matchers(s, c, m + 1, f - 1) => Matchers(s, d, m + 1, f - 1)
    BY DEF Matchers
  <1> QED BY <1>1, <1>2, <1>3 DEF HasFilters

LEMMA RangeStays ==
  ASSUME NEW s, NEW c, NEW d, NEW r, SameHead(c, d), d.metric = c.metric,
         d.provider = c.provider, d.bucket = c.bucket, HasRange(s, c, r)
  PROVE  HasRange(s, d, r)
  BY FiltersStay DEF HasRange

LEMMA CloseStays ==
  ASSUME NEW s, NEW c, NEW d, NEW e, SameHead(c, d), d.metric = c.metric,
         d.provider = c.provider, d.bucket = c.bucket, HasClose(s, c, e)
  PROVE  HasClose(s, d, e)
  <1>1. PICK r \in Nat : /\ HasRange(s, c, r) /\ e = r + c.open
                         /\ \A k \in r..e - 1 : At(s, k) = ")"
    BY DEF HasClose
  <1>2. HasRange(s, d, r) /\ d.open = c.open
    BY <1>1, RangeStays DEF SameHead
  <1> QED BY <1>1, <1>2 DEF HasClose

-----------------------------------------------------------------------------
(* What the assignments to the cursor change.                                 *)

ToBy(c, p, x) == [c EXCEPT !.st = "by", !.pos = p, !.ret = x]
Rewound(c) == [c EXCEPT !.st = "function", !.pos = 1, !.labels = <<>>]
Called(c) ==
  [c EXCEPT !.st = "metric", !.pos = @ + 2, !.operator = TRUE, !.open = @ + 1]
Measured(c, x, v) == [c EXCEPT !.metric = v, !.pos = @ + 1, !.st = x]
Provided(c, v) == [c EXCEPT !.provider = v, !.pos = @ + 3, !.st = "filter_end"]
Ranged(c) == [c EXCEPT !.bucket = TRUE, !.pos = @ + 1, !.st = "offset"]
Labelled(c, v) ==
  [c EXCEPT !.labels = Append(@, v), !.pos = @ + 1, !.st = "label_end"]
Wrapped(c, p, ls) ==
  [c EXCEPT !.st = "function", !.pos = p + 1, !.operator = TRUE, !.open = 1,
            !.labels = ls, !.haveBy = ls # <<>>]

LEMMA ByUpdate ==
  ASSUME NEW c \in Cursor, NEW p \in Nat \ {0}, NEW x \in {"wrapper", "trailing"}, NEW d,
         d = ToBy(c, p, x)
  PROVE  /\ d \in Cursor
         /\ d.st = "by" /\ d.pos = p /\ d.ret = x /\ d.haveBy = c.haveBy
         /\ d.open = c.open /\ d.operator = c.operator /\ d.bucket = c.bucket
         /\ d.metric = c.metric /\ d.labels = c.labels /\ d.provider = c.provider
  <1>1. /\ d.st = "by" /\ d.pos = p /\ d.ret = x /\ d.haveBy = c.haveBy
        /\ d.open = c.open /\ d.operator = c.operator /\ d.bucket = c.bucket
        /\ d.metric = c.metric /\ d.labels = c.labels /\ d.provider = c.provider
    BY DEF Cursor, ToBy
  <1>2. /\ "by" \in States
        /\ p \in Nat \ {0}
        /\ x \in {"none", "wrapper", "trailing"}
    BY DEF Cursor, States
  <1>3. d \in Cursor
    BY <1>2 DEF Cursor, ToBy
  <1> QED BY <1>1, <1>3

LEMMA RewindUpdate ==
  ASSUME NEW c \in Cursor, NEW d,
         d = Rewound(c)
  PROVE  /\ d \in Cursor
         /\ d.st = "function" /\ d.pos = 1 /\ d.ret = c.ret /\ d.haveBy = c.haveBy
         /\ d.open = c.open /\ d.operator = c.operator /\ d.bucket = c.bucket
         /\ d.metric = c.metric /\ d.labels = <<>> /\ d.provider = c.provider
  <1>1. /\ d.st = "function" /\ d.pos = 1 /\ d.ret = c.ret /\ d.haveBy = c.haveBy
        /\ d.open = c.open /\ d.operator = c.operator /\ d.bucket = c.bucket
        /\ d.metric = c.metric /\ d.labels = <<>> /\ d.provider = c.provider
    BY DEF Cursor, Rewound
  <1>2. /\ "function" \in States
        /\ 1 \in Nat \ {0}
        /\ <<>> \in Seq(Idents)
    BY DEF Cursor, States
  <1>3. d \in Cursor
    BY <1>2 DEF Cursor, Rewound
  <1> QED BY <1>1, <1>3

LEMMA CallUpdate ==
  ASSUME NEW c \in Cursor, NEW d,
         d = Called(c)
  PROVE  /\ d \in Cursor
         /\ d.st = "metric" /\ d.pos = c.pos + 2 /\ d.ret = c.ret /\ d.haveBy = c.haveBy
         /\ d.open = c.open + 1 /\ d.operator /\ d.bucket = c.bucket
         /\ d.metric = c.metric /\ d.labels = c.labels /\ d.provider = c.provider
  <1>1. /\ d.st = "metric" /\ d.pos = c.pos + 2 /\ d.ret = c.ret /\ d.haveBy = c.haveBy
        /\ d.open = c.open + 1 /\ d.operator /\ d.bucket = c.bucket
        /\ d.metric = c.metric /\ d.labels = c.labels /\ d.provider = c.provider
    BY DEF Cursor, Called
  <1>2. /\ "metric" \in States
        /\ c.pos + 2 \in Nat \ {0}
        /\ c.open + 1 \in Nat
    BY DEF Cursor, States
  <1>3. d \in Cursor
    BY <1>2 DEF Cursor, Called
  <1> QED BY <1>1, <1>3

LEMMA MetricUpdate ==
  ASSUME NEW c \in Cursor, NEW x \in {"open", "range"}, NEW v \in Metrics, NEW d,
         d = Measured(c, x, v)
  PROVE  /\ d \in Cursor
         /\ d.st = x /\ d.pos = c.pos + 1 /\ d.ret = c.ret /\ d.haveBy = c.haveBy
         /\ d.open = c.open /\ d.operator = c.operator /\ d.bucket = c.bucket
         /\ d.metric = v /\ d.labels = c.labels /\ d.provider = c.provider
  <1>1. /\ d.st = x /\ d.pos = c.pos + 1 /\ d.ret = c.ret /\ d.haveBy = c.haveBy
        /\ d.open = c.open /\ d.operator = c.operator /\ d.bucket = c.bucket
        /\ d.metric = v /\ d.labels = c.labels /\ d.provider = c.provider
    BY DEF Cursor, Measured
  <1>2. /\ x \in States
        /\ c.pos + 1 \in Nat \ {0}
        /\ v \in Metrics \cup {"none"}
    BY DEF Cursor, States
  <1>3. d \in Cursor
    BY <1>2 DEF Cursor, Measured
  <1> QED BY <1>1, <1>3

LEMMA ProviderUpdate ==
  ASSUME NEW c \in Cursor, NEW v \in Quoted, NEW d,
         d = Provided(c, v)
  PROVE  /\ d \in Cursor
         /\ d.st = "filter_end" /\ d.pos = c.pos + 3 /\ d.ret = c.ret /\ d.haveBy = c.haveBy
         /\ d.open = c.open /\ d.operator = c.operator /\ d.bucket = c.bucket
         /\ d.metric = c.metric /\ d.labels = c.labels /\ d.provider = v
  <1>1. /\ d.st = "filter_end" /\ d.pos = c.pos + 3 /\ d.ret = c.ret /\ d.haveBy = c.haveBy
        /\ d.open = c.open /\ d.operator = c.operator /\ d.bucket = c.bucket
        /\ d.metric = c.metric /\ d.labels = c.labels /\ d.provider = v
    BY DEF Cursor, Provided
  <1>2. /\ "filter_end" \in States
        /\ c.pos + 3 \in Nat \ {0}
        /\ v \in Quoted \cup {"none"}
    BY DEF Cursor, States
  <1>3. d \in Cursor
    BY <1>2 DEF Cursor, Provided
  <1> QED BY <1>1, <1>3

LEMMA RangeUpdate ==
  ASSUME NEW c \in Cursor, NEW d,
         d = Ranged(c)
  PROVE  /\ d \in Cursor
         /\ d.st = "offset" /\ d.pos = c.pos + 1 /\ d.ret = c.ret /\ d.haveBy = c.haveBy
         /\ d.open = c.open /\ d.operator = c.operator /\ d.bucket
         /\ d.metric = c.metric /\ d.labels = c.labels /\ d.provider = c.provider
  <1>1. /\ d.st = "offset" /\ d.pos = c.pos + 1 /\ d.ret = c.ret /\ d.haveBy = c.haveBy
        /\ d.open = c.open /\ d.operator = c.operator /\ d.bucket
        /\ d.metric = c.metric /\ d.labels = c.labels /\ d.provider = c.provider
    BY DEF Cursor, Ranged
  <1>2. /\ "offset" \in States
        /\ c.pos + 1 \in Nat \ {0}
    BY DEF Cursor, States
  <1>3. d \in Cursor
    BY <1>2 DEF Cursor, Ranged
  <1> QED BY <1>1, <1>3

LEMMA LabelUpdate ==
  ASSUME NEW c \in Cursor, NEW v \in Idents, NEW d,
         d = Labelled(c, v)
  PROVE  /\ d \in Cursor
         /\ d.st = "label_end" /\ d.pos = c.pos + 1 /\ d.ret = c.ret /\ d.haveBy = c.haveBy
         /\ d.open = c.open /\ d.operator = c.operator /\ d.bucket = c.bucket
         /\ d.metric = c.metric /\ d.labels = Append(c.labels, v) /\ d.provider = c.provider
  <1>1. /\ d.st = "label_end" /\ d.pos = c.pos + 1 /\ d.ret = c.ret /\ d.haveBy = c.haveBy
        /\ d.open = c.open /\ d.operator = c.operator /\ d.bucket = c.bucket
        /\ d.metric = c.metric /\ d.labels = Append(c.labels, v) /\ d.provider = c.provider
    BY DEF Cursor, Labelled
  <1>2. /\ "label_end" \in States
        /\ c.pos + 1 \in Nat \ {0}
        /\ Append(c.labels, v) \in Seq(Idents)
    BY DEF Cursor, States
  <1>3. d \in Cursor
    BY <1>2 DEF Cursor, Labelled
  <1> QED BY <1>1, <1>3

LEMMA WrapUpdate ==
  ASSUME NEW c \in Cursor, NEW p \in Nat, NEW ls \in Seq(Idents), NEW d,
         d = Wrapped(c, p, ls)
  PROVE  /\ d \in Cursor
         /\ d.st = "function" /\ d.pos = p + 1 /\ d.ret = c.ret /\ d.haveBy = (ls # <<>>)
         /\ d.open = 1 /\ d.operator /\ d.bucket = c.bucket
         /\ d.metric = c.metric /\ d.labels = ls /\ d.provider = c.provider
  <1>1. /\ d.st = "function" /\ d.pos = p + 1 /\ d.ret = c.ret /\ d.haveBy = (ls # <<>>)
        /\ d.open = 1 /\ d.operator /\ d.bucket = c.bucket
        /\ d.metric = c.metric /\ d.labels = ls /\ d.provider = c.provider
    BY DEF Cursor, Wrapped
  <1>2. /\ "function" \in States
        /\ p + 1 \in Nat \ {0}
        /\ 1 \in Nat
        /\ ls \in Seq(Idents)
    BY DEF Cursor, States
  <1>3. d \in Cursor
    BY <1>2 DEF Cursor, Wrapped
  <1> QED BY <1>1, <1>3

-----------------------------------------------------------------------------
(* A list grows by one label or one comma, the matchers by one or a comma.    *)

LEMMA Marks ==
  /\ Comma \notin Idents \cup Quoted \cup {"(", ")", "=", "!=", "[1d]", "[?]", "end"}
  /\ LBrace \notin Idents \cup Quoted \cup {"(", ")", "=", "!=", "[1d]", "[?]", "end"}
  /\ RBrace \notin Idents \cup Quoted \cup {"(", ")", "=", "!=", "[1d]", "[?]", "end"}
  /\ Comma # LBrace /\ Comma # RBrace /\ LBrace # RBrace
  BY Zenon DEF Comma, LBrace, RBrace, Idents, Metrics, Dimensions, Quoted

LEMMA Ends ==
  ASSUME NEW s \in Seq(Tokens), NEW p \in Nat \ {0}
  PROVE  /\ At(s, p) # "end" => p <= Len(s) /\ At(s, p) \in Tokens
         /\ At(s, p) = "end" => Len(s) < p
  <1>1. CASE p <= Len(s)
    <2>1. At(s, p) = s[p] /\ s[p] \in Tokens
      BY <1>1 DEF At
    <2>2. "end" \notin Tokens
      BY Marks DEF Tokens, Idents, Metrics, Dimensions, Quoted
    <2> QED BY <1>1, <2>1, <2>2
  <1>2. CASE ~(p <= Len(s))
    BY <1>2 DEF At
  <1> QED BY <1>1, <1>2

LEMMA NoList ==
  ASSUME NEW s, NEW c, NEW i \in Nat, c.labels = <<>>
  PROVE  LabelList(s, c, i, i)
  <1>1. LabelSet(c) = {} /\ i..i - 1 = {}
    BY DEF LabelSet
  <1> QED BY <1>1 DEF LabelList

LEMMA LabelAdds ==
  ASSUME NEW s, NEW c, NEW d, NEW i \in Nat, NEW j \in Nat, i <= j, (j - i) % 2 = 0,
         c.labels \in Seq(Idents), At(s, j) \in Idents, d.labels = Append(c.labels, At(s, j)),
         LabelList(s, c, i, j)
  PROVE  LabelList(s, d, i, j + 1)
  <1>1. LabelSet(d) = LabelSet(c) \cup {At(s, j)}
    <2> DEFINE n == Len(c.labels)
    <2>1. /\ DOMAIN d.labels = 1..n + 1 /\ DOMAIN c.labels = 1..n /\ n \in Nat
          /\ d.labels[n + 1] = At(s, j) /\ \A k \in 1..n : d.labels[k] = c.labels[k]
      OBVIOUS
    <2>2. 1..n + 1 = (1..n) \cup {n + 1}
      BY <2>1
    <2> HIDE DEF n
    <2> QED BY <2>1, <2>2 DEF LabelSet
  <1>2. i..j + 1 - 1 = (i..j - 1) \cup {j}
    OBVIOUS
  <1>3. At(s, j) # Comma
    BY Marks
  <1>4. \A k \in i..j + 1 - 1 : IF (k - i) % 2 = 0 THEN At(s, k) \in Idents ELSE At(s, k) = Comma
    BY <1>2 DEF LabelList
  <1>5. {At(s, k) : k \in i..j + 1 - 1} = {At(s, k) : k \in i..j - 1} \cup {At(s, j)}
    BY <1>2
  <1>6. LabelSet(c) = {At(s, k) : k \in i..j - 1} \ {Comma}
    BY DEF LabelList
  <1>7. LabelSet(d) = {At(s, k) : k \in i..j + 1 - 1} \ {Comma}
    BY <1>1, <1>3, <1>5, <1>6
  <1> QED BY <1>4, <1>7 DEF LabelList

LEMMA CommaAdds ==
  ASSUME NEW s, NEW c, NEW d, NEW i \in Nat, NEW j \in Nat, i <= j, (j - i) % 2 = 1,
         At(s, j) = Comma, LabelSet(d) = LabelSet(c), LabelList(s, c, i, j)
  PROVE  LabelList(s, d, i, j + 1)
  <1>2. i..j + 1 - 1 = (i..j - 1) \cup {j}
    OBVIOUS
  <1>4. \A k \in i..j + 1 - 1 : IF (k - i) % 2 = 0 THEN At(s, k) \in Idents ELSE At(s, k) = Comma
    BY <1>2 DEF LabelList
  <1>5. {At(s, k) : k \in i..j + 1 - 1} = {At(s, k) : k \in i..j - 1} \cup {At(s, j)}
    BY <1>2
  <1>6. LabelSet(c) = {At(s, k) : k \in i..j - 1} \ {Comma}
    BY DEF LabelList
  <1>7. LabelSet(d) = {At(s, k) : k \in i..j + 1 - 1} \ {Comma}
    BY <1>5, <1>6
  <1> QED BY <1>4, <1>7 DEF LabelList

LEMMA ClauseNames ==
  ASSUME NEW s, NEW c, NEW i \in Nat, NEW j \in Nat, Clause(s, c, i, j)
  PROVE  c.labels # <<>>
  <1>1. i + 2 \in i + 2..j - 1 - 1 /\ (i + 2 - (i + 2)) % 2 = 0
    BY DEF Clause
  <1>2. At(s, i + 2) \in Idents
    BY <1>1 DEF Clause, LabelList
  <1>3. At(s, i + 2) \in LabelSet(c)
    BY <1>1, <1>2, Marks DEF Clause, LabelList
  <1> QED BY <1>3 DEF LabelSet

LEMMA NoMatcher ==
  ASSUME NEW s, NEW c, NEW i \in Nat, At(s, i) = LBrace, c.provider = "none"
  PROVE  Matchers(s, c, i, i + 1)
  <1>1. i + 1..i + 1 - 1 = {} /\ i < i + 1
    OBVIOUS
  <1> QED BY <1>1 DEF Matchers

LEMMA ProviderAdds ==
  ASSUME NEW s, NEW c, NEW d, NEW i \in Nat, NEW j \in Nat, (j - i) % 4 = 1,
         At(s, j) = "provider", At(s, j + 1) = "=", At(s, j + 2) \in Quoted \ {"''"},
         c.provider \in {"none", At(s, j + 2)}, d.provider = At(s, j + 2),
         Matchers(s, c, i, j)
  PROVE  Matchers(s, d, i, j + 3)
  <1>0. i < j
    BY DEF Matchers
  <1>1. i + 1..j + 3 - 1 = (i + 1..j - 1) \cup {j, j + 1, j + 2}
    BY <1>0
  <1>2. Matcher(s, i, j) /\ Matcher(s, i, j + 1) /\ Matcher(s, i, j + 2)
    <2>1. (j + 1 - i) % 4 = 2 /\ (j + 2 - i) % 4 = 3
      OBVIOUS
    <2> QED BY <2>1 DEF Matcher
  <1>3. \A k \in i + 1..j + 3 - 1 : Matcher(s, i, k)
    BY <1>1, <1>2 DEF Matchers
  <1>4. {At(s, k) : k \in i + 1..j + 3 - 1}
          = {At(s, k) : k \in i + 1..j - 1} \cup {"provider", "=", At(s, j + 2)}
    BY <1>1
  <1>5. "provider" \notin Quoted /\ "=" \notin Quoted /\ "none" \notin Quoted
    BY DEF Quoted
  <1>6. {At(s, k) : k \in i + 1..j - 1} \cap Quoted = {c.provider} \ {"none"}
    BY DEF Matchers
  <1>7. {At(s, k) : k \in i + 1..j + 3 - 1} \cap Quoted = {d.provider} \ {"none"}
    <2> HIDE DEF Quoted
    <2> QED BY <1>4, <1>5, <1>6
  <1>8. At(s, i) = LBrace /\ i < j + 3
    BY DEF Matchers
  <1> QED BY <1>3, <1>7, <1>8 DEF Matchers

LEMMA CommaMatches ==
  ASSUME NEW s, NEW c, NEW d, NEW i \in Nat, NEW j \in Nat, (j - i) % 4 = 0,
         At(s, j) = Comma, d.provider = c.provider, Matchers(s, c, i, j)
  PROVE  Matchers(s, d, i, j + 1)
  <1>1. i + 1..j + 1 - 1 = (i + 1..j - 1) \cup {j}
    BY DEF Matchers
  <1>2. Matcher(s, i, j)
    BY DEF Matcher
  <1>3. \A k \in i + 1..j + 1 - 1 : Matcher(s, i, k)
    BY <1>1, <1>2 DEF Matchers
  <1>4. {At(s, k) : k \in i + 1..j + 1 - 1} = {At(s, k) : k \in i + 1..j - 1} \cup {Comma}
    BY <1>1
  <1>5. Comma \notin Quoted
    BY Marks
  <1>6. {At(s, k) : k \in i + 1..j - 1} \cap Quoted = {c.provider} \ {"none"}
    BY DEF Matchers
  <1>7. {At(s, k) : k \in i + 1..j + 1 - 1} \cap Quoted = {d.provider} \ {"none"}
    BY <1>4, <1>5, <1>6
  <1>8. At(s, i) = LBrace /\ i < j + 1
    BY DEF Matchers
  <1> QED BY <1>3, <1>7, <1>8 DEF Matchers

-----------------------------------------------------------------------------
(* Every step of the parser keeps what the cursor has read.                   *)

LEMMA Basics ==
  ASSUME ParserInv(text, cur)
  PROVE  /\ text \in Seq(Tokens) /\ cur \in Cursor /\ Shape(text, cur)
         /\ cur.pos \in Nat \ {0} /\ cur.pos <= Len(text) + 1 /\ cur.open \in Nat
         /\ cur.labels \in Seq(Idents) /\ cur.provider \in Quoted \cup {"none"}
         /\ Len(text) \in Nat
  BY DEF ParserInv, Cursor

(* The fields that neither a move nor a refusal touches. *)
Alike(c, d) ==
  /\ d.haveBy = c.haveBy /\ d.open = c.open /\ d.operator = c.operator
  /\ d.ret = c.ret /\ d.labels = c.labels /\ d.metric = c.metric
  /\ d.provider = c.provider /\ d.bucket = c.bucket

LEMMA Moved ==
  ASSUME ParserInv(text, cur), NEW x \in States, NEW p \in Nat \ {0}, Move(x, p)
  PROVE  cur' \in Cursor /\ cur'.st = x /\ cur'.pos = p /\ Alike(cur, cur')
  <1>0. cur \in Cursor
    BY Basics
  <1>1. cur'.st = x /\ cur'.pos = p /\ Alike(cur, cur')
    BY <1>0 DEF Cursor, Move, Alike
  <1>2. cur' \in Cursor
    BY <1>0 DEF Cursor, Move
  <1> QED BY <1>1, <1>2

LEMMA RefusalKeeps ==
  ASSUME ParserInv(text, cur), Refuse
  PROVE  ParserInv(text, cur') /\ cur'.st = "refused"
  <1>0. cur \in Cursor /\ "refused" \in States
    BY Basics DEF States
  <1>1. cur' \in Cursor
    BY <1>0 DEF Cursor, Refuse
  <1>2. cur'.st = "refused" /\ cur'.pos = cur.pos
    BY <1>0 DEF Cursor, Refuse
  <1>3. Shape(text, cur')
    BY <1>2 DEF Shape, ByStates
  <1> QED BY <1>1, <1>2, <1>3, Basics DEF ParserInv

LEMMA AlikeKeeps ==
  ASSUME NEW c, NEW d, Alike(c, d)
  PROVE  /\ SameHead(c, d)
         /\ NoLabels(c) => NoLabels(d)
         /\ Early(c) => Early(d)
         /\ Blank(c) => Blank(d)
         /\ LabelSet(d) = LabelSet(c)
  BY DEF Alike, SameHead, NoLabels, Early, Blank, LabelSet

LEMMA AlikeClause ==
  ASSUME NEW s, NEW c, NEW d, LabelSet(d) = LabelSet(c), NEW i, NEW j
  PROVE  /\ LabelList(s, c, i, j) => LabelList(s, d, i, j)
         /\ Clause(s, c, i, j) => Clause(s, d, i, j)
  BY DEF Clause, LabelList

LEMMA RangeFunctionReads ==
  ASSUME ParserInv(text, cur), RangeFunction
  PROVE  ParserInv(text, cur')
  <1> DEFINE p == cur.pos
  <1>0. /\ cur.st = "function" /\ cur \in Cursor /\ p \in Nat \ {0} /\ text \in Seq(Tokens)
        /\ p <= Len(text) + 1 /\ Shape(text, cur)
    BY Basics DEF RangeFunction, In
  <1>1. Early(cur)
    BY <1>0 DEF Shape
  <1>2. PICK h \in {"none", "sum", "sum_by"} :
          /\ Opened(text, cur, h, p) /\ (cur.operator <=> h # "none")
          /\ cur.open = (IF h = "none" THEN 0 ELSE 1)
    BY <1>0 DEF Shape
  <1>3. CASE Move("metric", p)
    <2>1. cur' \in Cursor /\ cur'.st = "metric" /\ cur'.pos = p /\ Alike(cur, cur')
      BY <1>0, <1>3, Moved DEF States
    <2>2. SameHead(cur, cur') /\ Early(cur')
      BY <1>1, <2>1, AlikeKeeps
    <2>3. Opened(text, cur', h, p)
      BY <1>2, <2>2, OpenedStays
    <2>4. cur'.open = Parentheses(h, p, p) /\ (cur'.operator <=> h # "none" \/ p # p)
      BY <1>2, <2>1 DEF Alike, Parentheses
    <2>5. HasCall(text, cur', p)
      BY <1>0, <2>3, <2>4 DEF HasCall, Call
    <2>6. Shape(text, cur')
      BY <2>1, <2>2, <2>5 DEF Shape, ByStates
    <2> QED BY <1>0, <2>1, <2>6 DEF ParserInv
  <1>4. ASSUME At(text, p) = "increase", At(text, p + 1) = "(",
               cur' = Called(cur)
        PROVE  ParserInv(text, cur')
    <2>1. /\ cur' \in Cursor /\ cur'.st = "metric" /\ cur'.pos = p + 2 /\ cur'.operator
          /\ cur'.open = cur.open + 1 /\ cur'.labels = cur.labels /\ cur'.haveBy = cur.haveBy
          /\ cur'.bucket = cur.bucket /\ cur'.provider = cur.provider
      BY <1>0, <1>4, CallUpdate
    <2>2. Early(cur')
      BY <1>1, <2>1 DEF Early, NoLabels
    <2>3. Opened(text, cur', h, p)
      <3>1. LabelSet(cur') = LabelSet(cur)
        BY <2>1, LabelSetStays
      <3>2. Clause(text, cur, 2, p - 1) => Clause(text, cur', 2, p - 1)
        BY <3>1, AlikeClause
      <3> QED BY <1>2, <2>1, <3>2 DEF Opened
    <2>4. /\ cur'.open = Parentheses(h, p, p + 2)
          /\ (cur'.operator <=> h # "none" \/ p + 2 # p)
      <3>1. p + 2 # p
        BY <1>0
      <3> QED BY <1>2, <2>1, <3>1 DEF Parentheses
    <2>5. HasCall(text, cur', p + 2)
      BY <1>0, <1>4, <2>3, <2>4 DEF HasCall, Call
    <2>6. p + 2 <= Len(text) + 1
      BY <1>0, <1>4, Ends
    <2>7. Shape(text, cur')
      BY <2>1, <2>2, <2>5 DEF Shape, ByStates
    <2> QED BY <1>0, <2>1, <2>6, <2>7 DEF ParserInv
  <1>5. CASE Refuse
    BY <1>5, RefusalKeeps
  <1> QED BY <1>3, <1>4, <1>5 DEF RangeFunction, Here, Tok, Called

LEMMA WrapReads ==
  ASSUME ParserInv(text, cur), NEW p \in Nat \ {0}, NEW ls, Wrap(p, ls), At(text, p) = "(",
         Blank(cur),
         \/ p = 2 /\ ls = <<>>
         \/ ls = cur.labels /\ Clause(text, cur, 2, p)
  PROVE  ParserInv(text, cur')
  <1>0. /\ cur \in Cursor /\ text \in Seq(Tokens) /\ cur.labels \in Seq(Idents)
        /\ p <= Len(text)
    BY Basics, Ends
  <1>1. CASE Refuse
    BY <1>1, RefusalKeeps
  <1>2. CASE ~Refuse
    <2>1. /\ At(text, 1) = "sum"
          /\ cur' = Wrapped(cur, p, ls)
      BY <1>2 DEF Wrap, Tok, Wrapped
    <2>2. cur \in Cursor /\ ls \in Seq(Idents) /\ p \in Nat /\ cur' = Wrapped(cur, p, ls)
      <3>1. <<>> \in Seq(Idents)
        OBVIOUS
      <3> QED BY <1>0, <2>1, <3>1
    <2>8. cur' \in Cursor
      BY <2>2, WrapUpdate
    <2>9. cur'.haveBy = (ls # <<>>)
      BY <2>2 DEF Wrapped, Cursor
    <2>10. /\ cur'.st = "function" /\ cur'.pos = p + 1 /\ cur'.open = 1 /\ cur'.operator
           /\ cur'.bucket = cur.bucket /\ cur'.labels = ls /\ cur'.provider = cur.provider
      BY <2>2 DEF Wrapped, Cursor
    <2>3. /\ cur' \in Cursor /\ cur'.st = "function" /\ cur'.pos = p + 1
          /\ cur'.haveBy = (ls # <<>>) /\ cur'.open = 1 /\ cur'.operator
          /\ cur'.bucket = cur.bucket /\ cur'.labels = ls /\ cur'.provider = cur.provider
      BY <2>8, <2>9, <2>10
    <2>11. (ls = <<>> => ~cur'.haveBy) /\ (ls # <<>> => cur'.haveBy)
      BY <2>9
    <2>4. Early(cur')
      BY <2>3 DEF Blank, Early, NoLabels
    <2>5. \E h \in {"sum", "sum_by"} : Opened(text, cur', h, p + 1)
      <3>1. CASE p = 2 /\ ls = <<>>
        BY <2>1, <2>11, <3>1 DEF Opened
      <3>2. CASE ls = cur.labels /\ Clause(text, cur, 2, p)
        <4>1. cur.labels # <<>> /\ LabelSet(cur') = LabelSet(cur) /\ p + 1 - 1 = p
          BY <2>3, <3>2, ClauseNames, LabelSetStays
        <4>2. Clause(text, cur', 2, p + 1 - 1)
          BY <3>2, <4>1, AlikeClause
        <4>3. Opened(text, cur', "sum_by", p + 1)
          BY <2>1, <2>11, <3>2, <4>1, <4>2 DEF Opened
        <4> QED BY <4>3
      <3> QED BY <3>1, <3>2
    <2>6. Shape(text, cur')
      BY <2>3, <2>4, <2>5 DEF Shape, ByStates
    <2>7. p + 1 <= Len(text) + 1
      BY <1>0
    <2> QED BY <1>0, <2>3, <2>6, <2>7 DEF ParserInv
  <1> QED BY <1>1, <1>2

LEMMA WrapperReads ==
  ASSUME ParserInv(text, cur), Wrapper
  PROVE  ParserInv(text, cur')
  <1>0. /\ cur.st = "wrapper" /\ cur \in Cursor /\ text \in Seq(Tokens) /\ Shape(text, cur)
        /\ Len(text) \in Nat
    BY Basics DEF Wrapper, In
  <1>1. Blank(cur) /\ cur.pos = 1 /\ cur.labels = <<>>
    BY <1>0 DEF Shape
  <1>2. CASE At(text, 2) = "(" /\ Wrap(2, <<>>)
    BY <1>1, <1>2, WrapReads
  <1>3. ASSUME At(text, 2) = "by", cur' = ToBy(cur, 3, "wrapper")
        PROVE  ParserInv(text, cur')
    <2>0. cur \in Cursor /\ cur' = ToBy(cur, 3, "wrapper")
      BY <1>0, <1>3
    <2>1. /\ cur' \in Cursor
          /\ cur'.st = "by" /\ cur'.pos = 3 /\ cur'.ret = "wrapper" /\ cur'.haveBy = cur.haveBy
          /\ cur'.open = cur.open /\ cur'.operator = cur.operator /\ cur'.bucket = cur.bucket
          /\ cur'.metric = cur.metric /\ cur'.labels = cur.labels
          /\ cur'.provider = cur.provider
      BY <2>0, ByUpdate
    <2>2. Blank(cur')
      BY <1>1, <2>1 DEF Blank
    <2>3. InClause(text, cur', 2)
      BY <1>1, <1>3, <2>1 DEF InClause
    <2>4. Shape(text, cur')
      BY <2>1, <2>2, <2>3 DEF Shape, ByStates
    <2>5. 3 <= Len(text) + 1
      BY <1>0, <1>3, Ends
    <2> QED BY <1>0, <2>1, <2>4, <2>5 DEF ParserInv
  <1>4. CASE Move("function", 1)
    <2>1. cur' \in Cursor /\ cur'.st = "function" /\ cur'.pos = 1 /\ Alike(cur, cur')
      BY <1>4, Moved DEF States
    <2>2. Early(cur') /\ Opened(text, cur', "none", 1) /\ ~cur'.operator /\ cur'.open = 0
      BY <1>1, <2>1 DEF Alike, Blank, Early, NoLabels, Opened
    <2>3. Shape(text, cur')
      BY <2>1, <2>2 DEF Shape, ByStates
    <2> QED BY <1>0, <2>1, <2>3 DEF ParserInv
  <1>5. CASE Refuse
    BY <1>5, RefusalKeeps
  <1> QED BY <1>1, <1>2, <1>3, <1>4, <1>5 DEF Wrapper, Here, Tok, ToBy

LEMMA WrapperByReads ==
  ASSUME ParserInv(text, cur), WrapperBy
  PROVE  ParserInv(text, cur')
  <1>0. /\ cur.st = "wrapper_by" /\ cur \in Cursor /\ text \in Seq(Tokens) /\ Shape(text, cur)
        /\ Len(text) \in Nat /\ cur.pos \in Nat \ {0}
    BY Basics DEF WrapperBy, In
  <1>1. Blank(cur) /\ Clause(text, cur, 2, cur.pos)
    BY <1>0 DEF Shape
  <1>2. CASE At(text, cur.pos) = "(" /\ Wrap(cur.pos, cur.labels)
    BY <1>0, <1>1, <1>2, WrapReads
  <1>3. CASE cur' = Rewound(cur)
    <2>1. /\ cur' \in Cursor /\ cur'.st = "function" /\ cur'.pos = 1
          /\ cur'.haveBy = cur.haveBy /\ cur'.open = cur.open /\ cur'.operator = cur.operator
          /\ cur'.bucket = cur.bucket /\ cur'.labels = <<>> /\ cur'.provider = cur.provider
      BY <1>0, <1>3, RewindUpdate
    <2>2. Early(cur') /\ Opened(text, cur', "none", 1) /\ ~cur'.operator /\ cur'.open = 0
      BY <1>1, <2>1 DEF Blank, Early, NoLabels, Opened
    <2>3. Shape(text, cur')
      BY <2>1, <2>2 DEF Shape, ByStates
    <2> QED BY <1>0, <2>1, <2>3 DEF ParserInv
  <1> QED BY <1>2, <1>3 DEF WrapperBy, Here, Tok, Rewound

LEMMA MetricReads ==
  ASSUME ParserInv(text, cur), Metric
  PROVE  ParserInv(text, cur')
  <1> DEFINE p == cur.pos
             x == IF At(text, p + 1) = LBrace THEN "open" ELSE "range"
  <1>0. /\ cur.st = "metric" /\ cur \in Cursor /\ p \in Nat \ {0} /\ text \in Seq(Tokens)
        /\ p <= Len(text) + 1 /\ Shape(text, cur) /\ Len(text) \in Nat
    BY Basics DEF Metric, In
  <1>1. Early(cur) /\ HasCall(text, cur, p)
    BY <1>0 DEF Shape
  <1>2. ASSUME At(text, p) \in Metrics, cur' = Measured(cur, x, At(text, p))
        PROVE  ParserInv(text, cur')
    <2>0. x \in {"open", "range"}
      OBVIOUS
    <2>1. /\ cur' \in Cursor /\ cur'.st = x /\ cur'.pos = p + 1
          /\ cur'.haveBy = cur.haveBy /\ cur'.open = cur.open /\ cur'.operator = cur.operator
          /\ cur'.bucket = cur.bucket /\ cur'.labels = cur.labels
          /\ cur'.provider = cur.provider /\ cur'.metric = At(text, p)
      <3> HIDE DEF x
      <3> QED BY <1>0, <1>2, <2>0, MetricUpdate
    <2>2. SameHead(cur, cur') /\ Early(cur')
      BY <1>1, <2>1 DEF SameHead, Early, NoLabels
    <2>3. HasMetric(text, cur', p)
      BY <1>1, <1>2, <2>1, <2>2, CallStays DEF HasMetric
    <2>4. HasFilters(text, cur', p + 1) /\ ~cur'.bucket /\ NoLabels(cur')
      BY <1>0, <2>2, <2>3 DEF HasFilters, Early
    <2>5. p + 1 <= Len(text) + 1
      <3>1. "end" \notin Metrics
        BY DEF Metrics
      <3> QED BY <1>0, <1>2, <3>1, Ends
    <2>6. CASE At(text, p + 1) = LBrace
      <3>1. cur'.st = "open" /\ cur'.pos - 1 = p /\ At(text, cur'.pos) = LBrace
        BY <1>0, <2>1, <2>6
      <3>2. Shape(text, cur')
        BY <1>0, <2>2, <2>3, <3>1 DEF Shape, ByStates
      <3> QED BY <1>0, <2>1, <2>5, <3>2 DEF ParserInv
    <2>7. CASE At(text, p + 1) # LBrace
      <3>1. cur'.st = "range" /\ cur'.pos = p + 1
        BY <2>1, <2>7
      <3>2. Shape(text, cur')
        BY <2>4, <3>1 DEF Shape, ByStates
      <3> QED BY <1>0, <2>1, <2>5, <3>2 DEF ParserInv
    <2> QED BY <2>6, <2>7
  <1>3. CASE Refuse
    BY <1>3, RefusalKeeps
  <1> QED BY <1>2, <1>3 DEF Metric, Here, Tok, Measured

LEMMA FilterOpensReads ==
  ASSUME ParserInv(text, cur), FilterOpens
  PROVE  ParserInv(text, cur')
  <1> DEFINE p == cur.pos
  <1>0. /\ cur.st = "open" /\ cur \in Cursor /\ p \in Nat \ {0} /\ text \in Seq(Tokens)
        /\ p <= Len(text) + 1 /\ Shape(text, cur) /\ Len(text) \in Nat
    BY Basics DEF FilterOpens, In
  <1>1. /\ Early(cur) /\ p - 1 \in Nat \ {0} /\ HasMetric(text, cur, p - 1)
        /\ At(text, p) = LBrace
    BY <1>0 DEF Shape
  <1>2. cur' \in Cursor /\ cur'.st = "filter" /\ cur'.pos = p + 1 /\ Alike(cur, cur')
    BY <1>0, Moved DEF FilterOpens, States
  <1>3. SameHead(cur, cur') /\ Early(cur')
    BY <1>1, <1>2, AlikeKeeps
  <1>4. HasMetric(text, cur', p - 1)
    BY <1>1, <1>2, <1>3, MetricStays DEF Alike
  <1>5. Matchers(text, cur', p, p + 1)
    BY <1>0, <1>1, <1>3, NoMatcher DEF Early
  <1>6. p - 1 + 1 = p /\ (cur'.pos - (p - 1)) % 4 = 2
    BY <1>0, <1>2
  <1>7. InFilters(text, cur', p - 1)
    <2>1. Matchers(text, cur', p - 1 + 1, cur'.pos)
      BY <1>2, <1>5, <1>6
    <2> QED BY <1>2, <1>4, <1>6, <2>1 DEF InFilters
  <1>8. Shape(text, cur')
    BY <1>1, <1>2, <1>3, <1>7 DEF Shape, ByStates, Early
  <1>9. p + 1 <= Len(text) + 1
    <2>1. LBrace # "end"
      BY Marks
    <2> QED BY <1>0, <1>1, <2>1, Ends
  <1> QED BY <1>0, <1>2, <1>8, <1>9 DEF ParserInv

LEMMA Fourths ==
  ASSUME NEW m \in Nat, NEW p \in Nat, m + 1 < p
  PROVE  /\ (p - m) % 4 = 2 => (p - (m + 1)) % 4 = 1 /\ (p + 1 - m) % 4 = 3 /\ (p + 3 - m) % 4 = 1
         /\ (p - m) % 4 = 1 => (p - (m + 1)) % 4 = 0 /\ (p + 1 - m) % 4 = 2
  <1> DEFINE d == p - m
  <1>1. /\ d \in Nat /\ 1 < d /\ p - (m + 1) = d - 1 /\ p + 1 - m = d + 1 /\ p + 3 - m = d + 3
    OBVIOUS
  <1>2. /\ d % 4 = 2 => (d - 1) % 4 = 1 /\ (d + 1) % 4 = 3 /\ (d + 3) % 4 = 1
        /\ d % 4 = 1 => (d - 1) % 4 = 0 /\ (d + 1) % 4 = 2
    <2> HIDE DEF d
    <2> QED BY <1>1
  <1> QED BY <1>1, <1>2

LEMMA FiltersClose ==
  ASSUME NEW s, NEW c, NEW m \in Nat \ {0}, NEW p \in Nat, m + 1 < p, HasMetric(s, c, m),
         At(s, p) = RBrace, Matchers(s, c, m + 1, p), (p - m) % 4 \in {1, 2}
  PROVE  HasFilters(s, c, p + 1)
  <1> DEFINE f == p + 1
  <1>1. m + 2 < f /\ f - 1 = p /\ (f - m) % 4 \in {2, 3}
    BY Fourths
  <1>2. At(s, f - 1) = RBrace /\ Matchers(s, c, m + 1, f - 1)
    BY <1>1
  <1> HIDE DEF f
  <1>3. HasFilters(s, c, f)
    BY <1>1, <1>2 DEF HasFilters
  <1> QED BY <1>3 DEF f

LEMMA FilterReads ==
  ASSUME ParserInv(text, cur), Filter
  PROVE  ParserInv(text, cur')
  <1> DEFINE p == cur.pos
  <1>0. /\ cur.st = "filter" /\ cur \in Cursor /\ p \in Nat \ {0} /\ text \in Seq(Tokens)
        /\ p <= Len(text) + 1 /\ Shape(text, cur) /\ Len(text) \in Nat
    BY Basics DEF Filter, In
  <1>1. ~cur.bucket /\ NoLabels(cur)
    BY <1>0 DEF Shape
  <1>2. PICK m \in Nat \ {0} : InFilters(text, cur, m)
    BY <1>0 DEF Shape
  <1>3. /\ HasMetric(text, cur, m) /\ Matchers(text, cur, m + 1, p) /\ (p - m) % 4 = 2
        /\ m + 1 < p /\ (p - (m + 1)) % 4 = 1
    <2>1. HasMetric(text, cur, m) /\ Matchers(text, cur, m + 1, p) /\ (p - m) % 4 = 2
      BY <1>0, <1>2 DEF InFilters
    <2>2. m + 1 < p
      BY <2>1 DEF Matchers
    <2>3. (p - (m + 1)) % 4 = 1
      BY <1>0, <2>1, <2>2, Fourths
    <2> QED BY <2>1, <2>2, <2>3
  <1>4. CASE At(text, p) = RBrace /\ Move("range", p + 1)
    <2>1. cur' \in Cursor /\ cur'.st = "range" /\ cur'.pos = p + 1 /\ Alike(cur, cur')
      BY <1>0, <1>4, Moved DEF States
    <2>2. SameHead(cur, cur') /\ NoLabels(cur') /\ ~cur'.bucket
      BY <1>1, <2>1, AlikeKeeps DEF Alike
    <2>3. HasMetric(text, cur', m)
      BY <1>3, <2>1, <2>2, MetricStays DEF Alike
    <2>4. Matchers(text, cur', m + 1, p)
      BY <1>3, <2>1 DEF Matchers, Alike
    <2>5. HasFilters(text, cur', p + 1)
      BY <1>0, <1>3, <1>4, <2>3, <2>4, FiltersClose
    <2>6. Shape(text, cur')
      BY <2>1, <2>2, <2>5 DEF Shape, ByStates
    <2>7. p + 1 <= Len(text) + 1
      BY <1>0, <1>4, Marks, Ends
    <2> QED BY <1>0, <2>1, <2>6, <2>7 DEF ParserInv
  <1>5. ASSUME At(text, p) = "provider", At(text, p + 1) = "=",
               At(text, p + 2) \in Quoted \ {"''"}, ~Conflicting(At(text, p + 2)),
               cur' = Provided(cur, At(text, p + 2))
        PROVE  ParserInv(text, cur')
    <2>0. At(text, p + 2) \in Quoted
      BY <1>5
    <2>1. /\ cur' \in Cursor /\ cur'.st = "filter_end" /\ cur'.pos = p + 3
          /\ cur'.haveBy = cur.haveBy /\ cur'.open = cur.open /\ cur'.operator = cur.operator
          /\ cur'.bucket = cur.bucket /\ cur'.labels = cur.labels
          /\ cur'.provider = At(text, p + 2) /\ cur'.metric = cur.metric
      BY <1>0, <1>5, <2>0, ProviderUpdate
    <2>2. SameHead(cur, cur') /\ NoLabels(cur') /\ ~cur'.bucket
      BY <1>1, <2>1 DEF SameHead, NoLabels
    <2>3. HasMetric(text, cur', m)
      BY <1>3, <2>1, <2>2, MetricStays
    <2>4. Matchers(text, cur', m + 1, p + 3)
      <3>1. cur.provider \in {"none", At(text, p + 2)}
        BY <1>5 DEF Conflicting
      <3>2. m + 1 \in Nat /\ p \in Nat
        BY <1>0
      <3> QED BY <1>3, <1>5, <2>1, <3>1, <3>2, ProviderAdds
    <2>5. InFilters(text, cur', m)
      <3>1. (p + 3 - m) % 4 = 1
        BY <1>0, <1>3, Fourths
      <3>2. (cur'.pos - m) % 4 = 1 /\ Matchers(text, cur', m + 1, cur'.pos)
        BY <1>0, <2>1, <2>4, <3>1
      <3> QED BY <2>1, <2>3, <3>2 DEF InFilters
    <2>6. Shape(text, cur')
      BY <2>1, <2>2, <2>5 DEF Shape, ByStates
    <2>7. p + 3 <= Len(text) + 1
      <3>1. "end" \notin Quoted
        BY DEF Quoted
      <3>2. p + 2 \in Nat \ {0} /\ At(text, p + 2) # "end"
        BY <1>0, <2>0, <3>1
      <3> QED BY <1>0, <3>2, Ends
    <2> QED BY <1>0, <2>1, <2>6, <2>7 DEF ParserInv
  <1>6. CASE Refuse
    BY <1>6, RefusalKeeps
  <1> QED BY <1>4, <1>5, <1>6 DEF Filter, Here, Tok, Provided

LEMMA FilterEndReads ==
  ASSUME ParserInv(text, cur), FilterEnd
  PROVE  ParserInv(text, cur')
  <1> DEFINE p == cur.pos
  <1>0. /\ cur.st = "filter_end" /\ cur \in Cursor /\ p \in Nat \ {0} /\ text \in Seq(Tokens)
        /\ p <= Len(text) + 1 /\ Shape(text, cur) /\ Len(text) \in Nat
    BY Basics DEF FilterEnd, In
  <1>1. ~cur.bucket /\ NoLabels(cur)
    BY <1>0 DEF Shape
  <1>2. PICK m \in Nat \ {0} : InFilters(text, cur, m)
    BY <1>0 DEF Shape
  <1>3. /\ HasMetric(text, cur, m) /\ Matchers(text, cur, m + 1, p) /\ (p - m) % 4 = 1
        /\ m + 1 < p /\ (p - (m + 1)) % 4 = 0
    <2>1. HasMetric(text, cur, m) /\ Matchers(text, cur, m + 1, p) /\ (p - m) % 4 = 1
      BY <1>0, <1>2 DEF InFilters
    <2>2. m + 1 < p
      BY <2>1 DEF Matchers
    <2>3. (p - (m + 1)) % 4 = 0
      BY <1>0, <2>1, <2>2, Fourths
    <2> QED BY <2>1, <2>2, <2>3
  <1>4. CASE At(text, p) = RBrace /\ Move("range", p + 1)
    <2>1. cur' \in Cursor /\ cur'.st = "range" /\ cur'.pos = p + 1 /\ Alike(cur, cur')
      BY <1>0, <1>4, Moved DEF States
    <2>2. SameHead(cur, cur') /\ NoLabels(cur') /\ ~cur'.bucket
      BY <1>1, <2>1, AlikeKeeps DEF Alike
    <2>3. HasMetric(text, cur', m)
      BY <1>3, <2>1, <2>2, MetricStays DEF Alike
    <2>4. Matchers(text, cur', m + 1, p)
      BY <1>3, <2>1 DEF Matchers, Alike
    <2>5. HasFilters(text, cur', p + 1)
      BY <1>0, <1>3, <1>4, <2>3, <2>4, FiltersClose
    <2>6. Shape(text, cur')
      BY <2>1, <2>2, <2>5 DEF Shape, ByStates
    <2>7. p + 1 <= Len(text) + 1
      BY <1>0, <1>4, Marks, Ends
    <2> QED BY <1>0, <2>1, <2>6, <2>7 DEF ParserInv
  <1>5. CASE At(text, p) = Comma /\ Move("filter", p + 1)
    <2>1. cur' \in Cursor /\ cur'.st = "filter" /\ cur'.pos = p + 1 /\ Alike(cur, cur')
      BY <1>0, <1>5, Moved DEF States
    <2>2. SameHead(cur, cur') /\ NoLabels(cur') /\ ~cur'.bucket
      BY <1>1, <2>1, AlikeKeeps DEF Alike
    <2>3. HasMetric(text, cur', m)
      BY <1>3, <2>1, <2>2, MetricStays DEF Alike
    <2>4. Matchers(text, cur', m + 1, p + 1)
      BY <1>0, <1>3, <1>5, <2>1, CommaMatches DEF Alike
    <2>5. InFilters(text, cur', m)
      <3>1. (p + 1 - m) % 4 = 2
        BY <1>0, <1>3, Fourths
      <3>2. (cur'.pos - m) % 4 = 2 /\ Matchers(text, cur', m + 1, cur'.pos)
        BY <1>0, <2>1, <2>4, <3>1
      <3> QED BY <2>1, <2>3, <3>2 DEF InFilters
    <2>6. Shape(text, cur')
      BY <2>1, <2>2, <2>5 DEF Shape, ByStates
    <2>7. p + 1 <= Len(text) + 1
      BY <1>0, <1>5, Marks, Ends
    <2> QED BY <1>0, <2>1, <2>6, <2>7 DEF ParserInv
  <1>6. CASE Refuse
    BY <1>6, RefusalKeeps
  <1> QED BY <1>4, <1>5, <1>6 DEF FilterEnd, Here, Tok

LEMMA RangeSelectorReads ==
  ASSUME ParserInv(text, cur), RangeSelector
  PROVE  ParserInv(text, cur')
  <1> DEFINE p == cur.pos
  <1>0. /\ cur.st = "range" /\ cur \in Cursor /\ p \in Nat \ {0} /\ text \in Seq(Tokens)
        /\ p <= Len(text) + 1 /\ Shape(text, cur) /\ Len(text) \in Nat
    BY Basics DEF RangeSelector, In
  <1>1. ~cur.bucket /\ NoLabels(cur) /\ HasFilters(text, cur, p)
    BY <1>0 DEF Shape
  <1>2. ASSUME At(text, p) = "[1d]", cur' = Ranged(cur)
        PROVE  ParserInv(text, cur')
    <2>1. /\ cur' \in Cursor /\ cur'.st = "offset" /\ cur'.pos = p + 1
          /\ cur'.haveBy = cur.haveBy /\ cur'.open = cur.open /\ cur'.operator = cur.operator
          /\ cur'.bucket /\ cur'.labels = cur.labels
          /\ cur'.provider = cur.provider /\ cur'.metric = cur.metric
      BY <1>0, <1>2, RangeUpdate
    <2>2. SameHead(cur, cur') /\ NoLabels(cur')
      BY <1>1, <2>1 DEF SameHead, NoLabels
    <2>3. HasFilters(text, cur', p)
      BY <1>1, <2>1, <2>2, FiltersStay
    <2>4. HasRange(text, cur', p + 1)
      <3>1. p + 1 - 1 = p
        BY <1>0
      <3> QED BY <1>0, <1>2, <2>1, <2>3, <3>1 DEF HasRange
    <2>5. Shape(text, cur')
      BY <2>1, <2>2, <2>4 DEF Shape, ByStates
    <2>6. p + 1 <= Len(text) + 1
      BY <1>0, <1>2, Ends
    <2> QED BY <1>0, <2>1, <2>5, <2>6 DEF ParserInv
  <1>3. CASE Move("offset", p)
    <2>1. cur' \in Cursor /\ cur'.st = "offset" /\ cur'.pos = p /\ Alike(cur, cur')
      BY <1>0, <1>3, Moved DEF States
    <2>2. SameHead(cur, cur') /\ NoLabels(cur') /\ ~cur'.bucket
      BY <1>1, <2>1, AlikeKeeps DEF Alike
    <2>3. HasFilters(text, cur', p)
      BY <1>1, <2>1, <2>2, FiltersStay DEF Alike
    <2>4. HasRange(text, cur', p)
      BY <2>2, <2>3 DEF HasRange
    <2>5. Shape(text, cur')
      BY <2>1, <2>2, <2>4 DEF Shape, ByStates
    <2> QED BY <1>0, <2>1, <2>5 DEF ParserInv
  <1>4. CASE Refuse
    BY <1>4, RefusalKeeps
  <1> QED BY <1>2, <1>3, <1>4 DEF RangeSelector, Here, Tok, Ranged

LEMMA OffsetReads ==
  ASSUME ParserInv(text, cur), Offset
  PROVE  ParserInv(text, cur')
  <1> DEFINE p == cur.pos
  <1>0. /\ cur.st = "offset" /\ cur \in Cursor /\ p \in Nat \ {0} /\ text \in Seq(Tokens)
        /\ p <= Len(text) + 1 /\ Shape(text, cur)
    BY Basics DEF Offset, In
  <1>1. NoLabels(cur) /\ HasRange(text, cur, p)
    BY <1>0 DEF Shape
  <1>2. CASE Move("close", p)
    <2>1. cur' \in Cursor /\ cur'.st = "close" /\ cur'.pos = p /\ Alike(cur, cur')
      BY <1>0, <1>2, Moved DEF States
    <2>2. SameHead(cur, cur') /\ NoLabels(cur')
      BY <1>1, <2>1, AlikeKeeps
    <2>3. HasRange(text, cur', p)
      BY <1>1, <2>1, <2>2, RangeStays DEF Alike
    <2>4. Shape(text, cur')
      BY <2>1, <2>2, <2>3 DEF Shape, ByStates
    <2> QED BY <1>0, <2>1, <2>4 DEF ParserInv
  <1>3. CASE Refuse
    BY <1>3, RefusalKeeps
  <1> QED BY <1>2, <1>3 DEF Offset

LEMMA CloseReads ==
  ASSUME ParserInv(text, cur), Close
  PROVE  ParserInv(text, cur')
  <1> DEFINE p == cur.pos
             e == p + cur.open
  <1>0. /\ cur.st = "close" /\ cur \in Cursor /\ p \in Nat \ {0} /\ text \in Seq(Tokens)
        /\ p <= Len(text) + 1 /\ Shape(text, cur) /\ Len(text) \in Nat /\ cur.open \in Nat
    BY Basics DEF Close, In
  <1>1. NoLabels(cur) /\ HasRange(text, cur, p)
    BY <1>0 DEF Shape
  <1>2. ASSUME \A k \in 0..cur.open - 1 : At(text, p + k) = ")", Move("trailing", e)
        PROVE  ParserInv(text, cur')
    <2>0. e \in Nat \ {0}
      BY <1>0
    <2>1. cur' \in Cursor /\ cur'.st = "trailing" /\ cur'.pos = e /\ Alike(cur, cur')
      BY <1>2, <2>0, Moved DEF States
    <2>2. SameHead(cur, cur') /\ NoLabels(cur')
      BY <1>1, <2>1, AlikeKeeps
    <2>3. HasRange(text, cur', p)
      BY <1>1, <2>1, <2>2, RangeStays DEF Alike
    <2>4. \A k \in p..e - 1 : At(text, k) = ")"
      <3>1. SUFFICES ASSUME NEW k \in p..e - 1 PROVE At(text, k) = ")"
        OBVIOUS
      <3>2. k - p \in 0..cur.open - 1 /\ p + (k - p) = k
        BY <1>0
      <3> QED BY <1>2, <3>2
    <2>5. HasClose(text, cur', e)
      <3>1. cur'.open = cur.open
        BY <2>1 DEF Alike
      <3> QED BY <1>0, <2>3, <2>4, <3>1 DEF HasClose
    <2>6. Shape(text, cur')
      BY <2>1, <2>2, <2>5 DEF Shape, ByStates
    <2>7. e <= Len(text) + 1
      <3>1. CASE cur.open = 0
        BY <1>0, <3>1
      <3>2. CASE cur.open # 0
        <4>1. e - 1 \in p..e - 1 /\ e - 1 \in Nat \ {0}
          BY <1>0, <3>2
        <4>2. At(text, e - 1) # "end"
          BY <2>4, <4>1
        <4> QED BY <1>0, <4>1, <4>2, Ends
      <3> QED BY <3>1, <3>2
    <2> QED BY <1>0, <2>1, <2>6, <2>7 DEF ParserInv
  <1>3. CASE Refuse
    BY <1>3, RefusalKeeps
  <1> QED BY <1>2, <1>3 DEF Close, Tok

LEMMA Halves ==
  ASSUME NEW b \in Nat, NEW p \in Nat, b + 2 <= p
  PROVE  /\ (p - b) % 2 = 0 => (p - (b + 2)) % 2 = 0 /\ (p + 1 - b) % 2 = 1
         /\ (p - b) % 2 = 1 => (p - (b + 2)) % 2 = 1 /\ (p + 1 - b) % 2 = 0
  <1> DEFINE d == p - b
  <1>1. d \in Nat /\ p - (b + 2) = d - 2 /\ p + 1 - b = d + 1
    OBVIOUS
  <1>2. /\ d % 2 = 0 => (d - 2) % 2 = 0 /\ (d + 1) % 2 = 1
        /\ d % 2 = 1 => (d - 2) % 2 = 1 /\ (d + 1) % 2 = 0
    <2> HIDE DEF d
    <2> QED BY <1>1
  <1> QED BY <1>1, <1>2

LEMMA ClauseCloses ==
  ASSUME NEW s, NEW c, NEW b \in Nat, NEW p \in Nat, b + 2 < p, At(s, b) = "by",
         At(s, b + 1) = "(", LabelList(s, c, b + 2, p), At(s, p) = ")"
  PROVE  Clause(s, c, b, p + 1)
  <1> DEFINE j == p + 1
  <1>1. b + 3 < j /\ j - 1 = p
    OBVIOUS
  <1>2. At(s, j - 1) = ")" /\ LabelList(s, c, b + 2, j - 1)
    BY <1>1
  <1> HIDE DEF j
  <1>3. Clause(s, c, b, j)
    BY <1>1, <1>2 DEF Clause
  <1> QED BY <1>3 DEF j

LEMMA TrailingByReads ==
  ASSUME ParserInv(text, cur), TrailingBy
  PROVE  ParserInv(text, cur')
  <1> DEFINE p == cur.pos
  <1>0. /\ cur.st = "trailing" /\ cur \in Cursor /\ p \in Nat \ {0} /\ text \in Seq(Tokens)
        /\ p <= Len(text) + 1 /\ Shape(text, cur) /\ Len(text) \in Nat
    BY Basics DEF TrailingBy, In
  <1>1. NoLabels(cur) /\ HasClose(text, cur, p)
    BY <1>0 DEF Shape
  <1>2. ASSUME At(text, p) = "by", ~cur.haveBy, cur' = ToBy(cur, p + 1, "trailing")
        PROVE  ParserInv(text, cur')
    <2> DEFINE q == p + 1
    <2>0. cur \in Cursor /\ q \in Nat \ {0} /\ cur' = ToBy(cur, q, "trailing")
      BY <1>0, <1>2
    <2>1. /\ cur' \in Cursor
          /\ cur'.st = "by" /\ cur'.pos = q /\ cur'.ret = "trailing" /\ cur'.haveBy = cur.haveBy
          /\ cur'.open = cur.open /\ cur'.operator = cur.operator /\ cur'.bucket = cur.bucket
          /\ cur'.metric = cur.metric /\ cur'.labels = cur.labels
          /\ cur'.provider = cur.provider
      <3> HIDE DEF q
      <3> QED BY <2>0, ByUpdate
    <2>2. SameHead(cur, cur') /\ ~cur'.haveBy /\ cur'.labels = <<>>
      BY <1>1, <1>2, <2>1 DEF SameHead, NoLabels
    <2>3. HasClose(text, cur', p)
      BY <1>1, <2>1, <2>2, CloseStays
    <2>4. InClause(text, cur', p)
      BY <1>2, <2>1, <2>2 DEF InClause
    <2>5. Shape(text, cur')
      BY <1>0, <2>1, <2>2, <2>3, <2>4 DEF Shape, ByStates
    <2>6. p + 1 <= Len(text) + 1
      BY <1>0, <1>2, Ends
    <2> QED BY <1>0, <2>1, <2>5, <2>6 DEF ParserInv
  <1>3. CASE Move("finish", p)
    <2>1. cur' \in Cursor /\ cur'.st = "finish" /\ cur'.pos = p /\ Alike(cur, cur')
      BY <1>0, <1>3, Moved DEF States
    <2>2. SameHead(cur, cur') /\ NoLabels(cur')
      BY <1>1, <2>1, AlikeKeeps
    <2>3. HasClose(text, cur', p) /\ Finished(text, cur', p)
      BY <1>1, <2>1, <2>2, CloseStays DEF Alike, Finished
    <2>4. Shape(text, cur')
      BY <1>0, <2>1, <2>3 DEF Shape, ByStates
    <2> QED BY <1>0, <2>1, <2>4 DEF ParserInv
  <1>4. CASE Refuse
    BY <1>4, RefusalKeeps
  <1> QED BY <1>2, <1>3, <1>4 DEF TrailingBy, Here, Tok, ToBy

(* Where the clause being read began, whichever way it is left. *)
LEMMA ClauseBegan ==
  ASSUME ParserInv(text, cur), cur.st \in ByStates
  PROVE  /\ cur.ret \in {"wrapper", "trailing"}
         /\ cur.ret = "wrapper" => Blank(cur) /\ InClause(text, cur, 2)
         /\ cur.ret = "trailing" =>
              ~cur.haveBy /\ \E e \in Nat : HasClose(text, cur, e) /\ InClause(text, cur, e)
  <1>1. Shape(text, cur)
    BY Basics
  <1>2. CASE cur.ret = "trailing"
    BY <1>1, <1>2 DEF Shape
  <1>3. CASE cur.ret # "trailing"
    <2>1. Blank(cur) /\ cur.ret = "wrapper" /\ InClause(text, cur, 2)
      BY <1>1, <1>3 DEF Shape
    <2> QED BY <2>1
  <1> QED BY <1>2, <1>3

(* A step inside a clause keeps what is around it. *)
LEMMA ClauseGoesOn ==
  ASSUME ParserInv(text, cur), cur.st \in ByStates,
         cur' \in Cursor, cur'.st \in ByStates, cur'.pos <= Len(text) + 1,
         cur'.ret = cur.ret, cur'.haveBy = cur.haveBy, cur'.open = cur.open,
         cur'.operator = cur.operator, cur'.bucket = cur.bucket, cur'.metric = cur.metric,
         cur'.provider = cur.provider,
         \A b \in Nat : InClause(text, cur, b) => InClause(text, cur', b)
  PROVE  ParserInv(text, cur')
  <1>0. cur'.st \notin States \ ByStates
    BY DEF ByStates
  <1>1. CASE cur.ret = "wrapper"
    <2>1. Blank(cur') /\ InClause(text, cur', 2) /\ cur'.ret = "wrapper"
      BY <1>1, ClauseBegan DEF Blank
    <2>2. Shape(text, cur')
      BY <1>0, <2>1 DEF Shape, ByStates
    <2> QED BY <2>2, Basics DEF ParserInv
  <1>2. CASE cur.ret = "trailing"
    <2>1. PICK e \in Nat : HasClose(text, cur, e) /\ InClause(text, cur, e)
      BY <1>2, ClauseBegan
    <2>2. ~cur.haveBy
      BY <1>2, ClauseBegan
    <2>3. SameHead(cur, cur') /\ ~cur'.haveBy
      BY <2>2 DEF SameHead
    <2>4. HasClose(text, cur', e) /\ InClause(text, cur', e)
      BY <2>1, <2>3, CloseStays
    <2>5. Shape(text, cur')
      BY <1>0, <1>2, <2>3, <2>4 DEF Shape, ByStates
    <2> QED BY <2>5, Basics DEF ParserInv
  <1> QED BY <1>1, <1>2, ClauseBegan

(* The steps inside a clause. *)
LEMMA ClauseOpens ==
  ASSUME ParserInv(text, cur), cur.st = "by", At(text, cur.pos) = "(",
         Move("label", cur.pos + 1), NEW b \in Nat, InClause(text, cur, b)
  PROVE  InClause(text, cur', b)
  <1> DEFINE p == cur.pos
  <1>1. p \in Nat \ {0}
    BY Basics
  <1>2. cur' \in Cursor /\ cur'.st = "label" /\ cur'.pos = p + 1 /\ Alike(cur, cur')
    BY <1>1, Moved DEF States
  <1>3. At(text, b) = "by" /\ p = b + 1 /\ cur.labels = <<>>
    BY DEF InClause
  <1>4. At(text, b + 1) = "(" /\ cur'.pos = b + 2 /\ cur'.labels = <<>>
    BY <1>2, <1>3 DEF Alike
  <1>5. LabelList(text, cur', b + 2, cur'.pos)
    BY <1>4, NoList
  <1>6. (cur'.pos - b) % 2 = 0
    BY <1>4
  <1> QED BY <1>2, <1>3, <1>4, <1>5, <1>6 DEF InClause

LEMMA LabelAdded ==
  ASSUME ParserInv(text, cur), cur.st = "label", At(text, cur.pos) \in Idents,
         cur' = Labelled(cur, At(text, cur.pos)), NEW b \in Nat, InClause(text, cur, b)
  PROVE  InClause(text, cur', b)
  <1> DEFINE p == cur.pos
             i == b + 2
  <1>0. p \in Nat \ {0} /\ cur \in Cursor /\ cur.labels \in Seq(Idents)
    BY Basics
  <1>1. /\ cur'.st = "label_end" /\ cur'.pos = p + 1
        /\ cur'.labels = Append(cur.labels, At(text, p))
    <2>1. ASSUME NEW v \in Idents, NEW d, d = Labelled(cur, v)
          PROVE  d.st = "label_end" /\ d.pos = p + 1 /\ d.labels = Append(cur.labels, v)
      BY <1>0, <2>1, LabelUpdate, ZenonT(60)
    <2>2. At(text, p) \in Idents /\ cur' = Labelled(cur, At(text, p))
      OBVIOUS
    <2> QED BY <2>1, <2>2
  <1>2. /\ At(text, b) = "by" /\ At(text, b + 1) = "(" /\ b + 2 <= p
        /\ LabelList(text, cur, b + 2, p) /\ (p - b) % 2 = 0
    BY DEF InClause
  <1>3. p \in Nat /\ b + 2 <= p /\ (p - b) % 2 = 0
    BY <1>0, <1>2
  <1>4. (p - (b + 2)) % 2 = 0 /\ (p + 1 - b) % 2 = 1 /\ b + 2 <= p + 1
    BY <1>3, Halves
  <1>5. LabelList(text, cur', i, p + 1)
    <2>1. /\ i \in Nat /\ p \in Nat /\ i <= p /\ (p - i) % 2 = 0 /\ At(text, p) \in Idents
          /\ cur.labels \in Seq(Idents) /\ cur'.labels = Append(cur.labels, At(text, p))
          /\ LabelList(text, cur, i, p)
      BY <1>0, <1>1, <1>2, <1>3, <1>4
    <2> HIDE DEF i
    <2> QED BY <2>1, LabelAdds
  <1>6. /\ LabelList(text, cur', b + 2, cur'.pos) /\ (cur'.pos - b) % 2 = 1
        /\ b + 2 <= cur'.pos
    BY <1>0, <1>1, <1>4, <1>5
  <1> QED BY <1>1, <1>2, <1>6 DEF InClause

LEMMA CommaAdded ==
  ASSUME ParserInv(text, cur), cur.st = "label_end", At(text, cur.pos) = Comma,
         Move("label", cur.pos + 1), NEW b \in Nat, InClause(text, cur, b)
  PROVE  InClause(text, cur', b)
  <1> DEFINE p == cur.pos
  <1>0. p \in Nat \ {0} /\ cur \in Cursor
    BY Basics
  <1>1. cur' \in Cursor /\ cur'.st = "label" /\ cur'.pos = p + 1 /\ Alike(cur, cur')
    BY <1>0, Moved DEF States
  <1>2. /\ At(text, b) = "by" /\ At(text, b + 1) = "(" /\ b + 2 <= p
        /\ LabelList(text, cur, b + 2, p) /\ (p - b) % 2 = 1
    BY DEF InClause
  <1>3. (p - (b + 2)) % 2 = 1 /\ (p + 1 - b) % 2 = 0 /\ b + 2 <= p + 1
    BY <1>0, <1>2, Halves
  <1>4. LabelSet(cur') = LabelSet(cur)
    BY <1>1, AlikeKeeps
  <1>5. LabelList(text, cur', b + 2, p + 1)
    BY <1>0, <1>2, <1>3, <1>4, CommaAdds
  <1>6. /\ LabelList(text, cur', b + 2, cur'.pos) /\ (cur'.pos - b) % 2 = 0
        /\ b + 2 <= cur'.pos
    BY <1>0, <1>1, <1>3, <1>5
  <1> QED BY <1>1, <1>2, <1>6 DEF InClause

(* A clause is not left without a label. *)
LEMMA ClauseEnded ==
  ASSUME ParserInv(text, cur), cur.st \in {"label", "label_end"}, At(text, cur.pos) = ")",
         cur.st = "label" => cur.labels # <<>>, LabelSet(cur') = LabelSet(cur),
         NEW b \in Nat, InClause(text, cur, b)
  PROVE  Clause(text, cur', b, cur.pos + 1)
  <1> DEFINE p == cur.pos
  <1>0. p \in Nat \ {0}
    BY Basics
  <1>1. /\ At(text, b) = "by" /\ At(text, b + 1) = "(" /\ b + 2 <= p
        /\ LabelList(text, cur, b + 2, p) /\ (p - b) % 2 = (IF cur.st = "label" THEN 0 ELSE 1)
    BY DEF InClause
  <1>2. b + 2 # p
    <2>1. SUFFICES ASSUME p = b + 2 PROVE FALSE
      BY <1>0
    <2>2. (p - b) % 2 = 0
      BY <2>1
    <2>3. cur.labels # <<>>
      BY <1>1, <2>2
    <2>4. LabelSet(cur) = {} /\ cur.labels \in Seq(Idents)
      <3>1. b + 2..p - 1 = {}
        BY <2>1
      <3> QED BY <1>1, <3>1, Basics DEF LabelList
    <2>5. cur.labels[1] \in LabelSet(cur)
      BY <2>3, <2>4 DEF LabelSet
    <2> QED BY <2>4, <2>5
  <1>3. b + 2 < p /\ p \in Nat
    BY <1>0, <1>1, <1>2
  <1>4. LabelList(text, cur', b + 2, p)
    BY <1>1, AlikeClause
  <1> QED BY <1>1, <1>3, <1>4, ClauseCloses

LEMMA ByOpensReads ==
  ASSUME ParserInv(text, cur), ByOpens
  PROVE  ParserInv(text, cur')
  <1> DEFINE p == cur.pos
  <1>0. cur.st = "by" /\ cur.st \in ByStates /\ p \in Nat \ {0} /\ text \in Seq(Tokens)
        /\ Len(text) \in Nat
    BY Basics DEF ByOpens, In, ByStates
  <1>1. CASE At(text, p) = "(" /\ Move("label", p + 1)
    <2>1. cur' \in Cursor /\ cur'.st = "label" /\ cur'.pos = p + 1 /\ Alike(cur, cur')
      BY <1>0, <1>1, Moved DEF States
    <2>2. \A b \in Nat : InClause(text, cur, b) => InClause(text, cur', b)
      BY <1>0, <1>1, ClauseOpens
    <2>3. p + 1 <= Len(text) + 1
      BY <1>0, <1>1, Ends
    <2>4. cur'.st \in ByStates
      BY <2>1 DEF ByStates
    <2> QED BY <1>0, <2>1, <2>2, <2>3, <2>4, ClauseGoesOn DEF Alike
  <1>2. CASE Refuse
    BY <1>2, RefusalKeeps
  <1> QED BY <1>1, <1>2 DEF ByOpens, Here, Tok

(* What follows a clause that is read to its end. *)
LEMMA ClauseEnds ==
  ASSUME ParserInv(text, cur), cur.st \in {"label", "label_end"}, At(text, cur.pos) = ")",
         cur.st = "label" => cur.labels # <<>>, Move(AfterBy, cur.pos + 1)
  PROVE  ParserInv(text, cur')
  <1> DEFINE p == cur.pos
  <1>0. /\ cur \in Cursor /\ p \in Nat \ {0} /\ text \in Seq(Tokens) /\ Len(text) \in Nat
        /\ cur.st \in ByStates
    BY Basics DEF ByStates
  <1>1. AfterBy \in States /\ p + 1 \in Nat \ {0}
    BY <1>0 DEF AfterBy, States
  <1>2. cur' \in Cursor /\ cur'.st = AfterBy /\ cur'.pos = p + 1 /\ Alike(cur, cur')
    BY <1>1, Moved
  <1>3. SameHead(cur, cur') /\ (Blank(cur) => Blank(cur')) /\ LabelSet(cur') = LabelSet(cur)
    BY <1>2, AlikeKeeps
  <1>4. p + 1 <= Len(text) + 1
    BY <1>0, Ends
  <1>5. \A b \in Nat : InClause(text, cur, b) => Clause(text, cur', b, p + 1)
    BY <1>3, ClauseEnded
  <1>6. CASE cur.ret = "wrapper"
    <2>1. cur'.st = "wrapper_by" /\ Blank(cur') /\ Clause(text, cur', 2, cur'.pos)
      BY <1>0, <1>2, <1>3, <1>5, <1>6, ClauseBegan DEF AfterBy
    <2>2. Shape(text, cur')
      BY <2>1 DEF Shape, ByStates
    <2> QED BY <1>0, <1>2, <1>4, <2>2 DEF ParserInv
  <1>7. CASE cur.ret = "trailing"
    <2>1. PICK e \in Nat : HasClose(text, cur, e) /\ InClause(text, cur, e)
      BY <1>0, <1>7, ClauseBegan
    <2>2. cur'.st = "finish" /\ ~cur'.haveBy
      BY <1>0, <1>2, <1>7, ClauseBegan DEF AfterBy, Alike
    <2>3. HasClose(text, cur', e)
      BY <1>2, <1>3, <2>1, CloseStays DEF Alike
    <2>4. Finished(text, cur', e)
      BY <1>2, <1>5, <2>1, <2>2 DEF Finished
    <2>5. Shape(text, cur')
      BY <2>2, <2>3, <2>4 DEF Shape, ByStates
    <2> QED BY <1>0, <1>2, <1>4, <2>5 DEF ParserInv
  <1> QED BY <1>0, <1>6, <1>7, ClauseBegan

LEMMA LabelReads ==
  ASSUME ParserInv(text, cur), Label
  PROVE  ParserInv(text, cur')
  <1> DEFINE p == cur.pos
  <1>0. /\ cur.st = "label" /\ cur.st \in ByStates /\ p \in Nat \ {0} /\ text \in Seq(Tokens)
        /\ Len(text) \in Nat /\ cur \in Cursor /\ cur.labels \in Seq(Idents)
    BY Basics DEF Label, In, ByStates
  <1>1. CASE At(text, p) = ")" /\ cur.labels # <<>> /\ Move(AfterBy, p + 1)
    BY <1>0, <1>1, ClauseEnds
  <1>2. ASSUME At(text, p) \in Idents, cur' = Labelled(cur, At(text, p))
        PROVE  ParserInv(text, cur')
    <2>0. cur \in Cursor
      BY <1>0
    <2>1. /\ cur' \in Cursor
          /\ cur'.st = "label_end" /\ cur'.pos = p + 1 /\ cur'.ret = cur.ret /\ cur'.haveBy = cur.haveBy
          /\ cur'.open = cur.open /\ cur'.operator = cur.operator /\ cur'.bucket = cur.bucket
          /\ cur'.metric = cur.metric /\ cur'.labels = Append(cur.labels, At(text, p))
          /\ cur'.provider = cur.provider
      BY <1>2, <2>0, LabelUpdate
    <2>2. \A b \in Nat : InClause(text, cur, b) => InClause(text, cur', b)
      BY <1>0, <1>2, LabelAdded
    <2>3. p + 1 <= Len(text) + 1
      <3>1. "end" \notin Idents
        BY DEF Idents, Metrics, Dimensions
      <3> QED BY <1>0, <1>2, <3>1, Ends
    <2>4. cur'.st \in ByStates
      BY <2>1 DEF ByStates
    <2> QED BY <1>0, <2>1, <2>2, <2>3, <2>4, ClauseGoesOn
  <1>3. CASE Refuse
    BY <1>3, RefusalKeeps
  <1> QED BY <1>1, <1>2, <1>3 DEF Label, Here, Tok, Labelled

LEMMA LabelEndReads ==
  ASSUME ParserInv(text, cur), LabelEnd
  PROVE  ParserInv(text, cur')
  <1> DEFINE p == cur.pos
  <1>0. /\ cur.st = "label_end" /\ cur.st \in ByStates /\ p \in Nat \ {0} /\ text \in Seq(Tokens)
        /\ Len(text) \in Nat /\ cur \in Cursor
    BY Basics DEF LabelEnd, In, ByStates
  <1>1. CASE At(text, p) = ")" /\ Move(AfterBy, p + 1)
    BY <1>0, <1>1, ClauseEnds
  <1>2. CASE At(text, p) = Comma /\ Move("label", p + 1)
    <2>1. cur' \in Cursor /\ cur'.st = "label" /\ cur'.pos = p + 1 /\ Alike(cur, cur')
      BY <1>0, <1>2, Moved DEF States
    <2>2. \A b \in Nat : InClause(text, cur, b) => InClause(text, cur', b)
      BY <1>0, <1>2, CommaAdded
    <2>3. p + 1 <= Len(text) + 1
      BY <1>0, <1>2, Marks, Ends
    <2>4. cur'.st \in ByStates
      BY <2>1 DEF ByStates
    <2> QED BY <1>0, <2>1, <2>2, <2>3, <2>4, ClauseGoesOn DEF Alike
  <1>3. CASE Refuse
    BY <1>3, RefusalKeeps
  <1> QED BY <1>1, <1>2, <1>3 DEF LabelEnd, Here, Tok

LEMMA FinishReads ==
  ASSUME ParserInv(text, cur), Finish
  PROVE  ParserInv(text, cur')
  <1> DEFINE p == cur.pos
  <1>0. /\ cur.st = "finish" /\ p \in Nat \ {0} /\ text \in Seq(Tokens)
        /\ Len(text) \in Nat /\ cur \in Cursor /\ p <= Len(text) + 1 /\ Shape(text, cur)
    BY Basics DEF Finish, In
  <1>1. PICK e \in Nat : HasClose(text, cur, e) /\ Finished(text, cur, e)
    BY <1>0 DEF Shape
  <1>2. CASE At(text, p) = "end" /\ Supported(Selected) /\ Move("ok", p)
    <2>1. cur' \in Cursor /\ cur'.st = "ok" /\ cur'.pos = p /\ Alike(cur, cur')
      BY <1>0, <1>2, Moved DEF States
    <2>2. SameHead(cur, cur') /\ (NoLabels(cur) => NoLabels(cur')) /\ LabelSet(cur') = LabelSet(cur)
      BY <2>1, AlikeKeeps
    <2>3. HasClose(text, cur', e)
      BY <1>1, <2>1, <2>2, CloseStays DEF Alike
    <2>4. Clause(text, cur, e, p) => Clause(text, cur', e, p)
      BY <2>2, AlikeClause
    <2>5. Finished(text, cur', e)
      BY <1>1, <2>1, <2>2, <2>4 DEF Alike, Finished
    <2>6. p = Len(text) + 1
      BY <1>0, <1>2, Ends
    <2>7. Supported(LabelSet(cur') \ {"type"})
      BY <1>2, <2>2 DEF Selected, LabelSet
    <2>8. Shape(text, cur')
      BY <2>1, <2>3, <2>5, <2>6, <2>7 DEF Shape, ByStates
    <2> QED BY <1>0, <2>1, <2>8 DEF ParserInv
  <1>3. CASE Refuse
    BY <1>3, RefusalKeeps
  <1> QED BY <1>2, <1>3 DEF Finish, Here, Tok

LEMMA ParseReads ==
  ASSUME ParserInv(text, cur), Parse
  PROVE  ParserInv(text, cur')
  BY WrapperReads, WrapperByReads, RangeFunctionReads, MetricReads, FilterOpensReads,
     FilterReads, FilterEndReads, RangeSelectorReads, OffsetReads, CloseReads,
     TrailingByReads, ByOpensReads, LabelReads, LabelEndReads, FinishReads DEF Parse

-----------------------------------------------------------------------------
(* A text that is read to its end is in the language.                         *)

FilterPart(s, c, m, f) ==
  \/ f = m + 1 /\ c.provider = "none"
  \/ /\ m + 2 < f /\ At(s, f - 1) = RBrace /\ (f - m) % 4 \in {2, 3}
     /\ Matchers(s, c, m + 1, f - 1)

RangePart(s, c, f, r) ==
  \/ r = f /\ ~c.bucket
  \/ r = f + 1 /\ At(s, f) = "[1d]" /\ c.bucket

LastPart(s, c, e) ==
  \/ e = Len(s) + 1 /\ NoLabels(c)
  \/ ~c.haveBy /\ Clause(s, c, e, Len(s) + 1)

(* The parts of a text that was read to its end. *)
Parts(s, c, h, i, m, f, r, e) ==
  /\ Opened(s, c, h, i) /\ Call(s, i, m)
  /\ c.open = Parentheses(h, i, m) /\ (c.operator <=> h # "none" \/ m # i)
  /\ At(s, m) \in Metrics /\ c.metric = At(s, m)
  /\ FilterPart(s, c, m, f) /\ RangePart(s, c, f, r)
  /\ e = r + c.open /\ \A k \in r..e - 1 : At(s, k) = ")"
  /\ LastPart(s, c, e)
  /\ 1 <= i /\ i <= m /\ m + 1 <= f /\ f <= r /\ r <= e /\ e <= Len(s) + 1

LEMMA OkParts ==
  ASSUME ParserInv(text, cur), cur.st = "ok"
  PROVE  \E h \in {"none", "sum", "sum_by"}, i \in Nat, m \in Nat, f \in Nat, r \in Nat, e \in Nat :
           Parts(text, cur, h, i, m, f, r, e)
  <1>0. /\ Shape(text, cur) /\ Len(text) \in Nat /\ cur.open \in Nat
    BY Basics
  <1>1. PICK e \in Nat : HasClose(text, cur, e) /\ Finished(text, cur, e)
    BY <1>0 DEF Shape
  <1>2. cur.pos = Len(text) + 1
    BY <1>0 DEF Shape
  <1>3. PICK r \in Nat : /\ HasRange(text, cur, r) /\ e = r + cur.open
                         /\ \A k \in r..e - 1 : At(text, k) = ")"
    BY <1>1 DEF HasClose
  <1>4. PICK f \in Nat : HasFilters(text, cur, f) /\ RangePart(text, cur, f, r)
    <2>1. CASE HasFilters(text, cur, r) /\ ~cur.bucket
      BY <2>1 DEF RangePart
    <2>2. CASE r - 1 \in Nat /\ HasFilters(text, cur, r - 1) /\ At(text, r - 1) = "[1d]" /\ cur.bucket
      <3>1. r = (r - 1) + 1
        OBVIOUS
      <3> QED BY <2>2, <3>1 DEF RangePart
    <2> QED BY <1>3, <2>1, <2>2 DEF HasRange
  <1>5. PICK m \in Nat \ {0} : HasMetric(text, cur, m) /\ FilterPart(text, cur, m, f)
    BY <1>4 DEF HasFilters, FilterPart
  <1>6. PICK h \in {"none", "sum", "sum_by"}, i \in Nat :
          /\ Opened(text, cur, h, i) /\ Call(text, i, m)
          /\ cur.open = Parentheses(h, i, m) /\ (cur.operator <=> h # "none" \/ m # i)
    BY <1>5 DEF HasMetric, HasCall
  <1>7. At(text, m) \in Metrics /\ cur.metric = At(text, m)
    BY <1>5 DEF HasMetric
  <1>8. LastPart(text, cur, e) /\ e <= Len(text) + 1
    BY <1>0, <1>1, <1>2 DEF Finished, LastPart, Clause
  <1>9. 1 <= i
    <2>1. h = "sum_by" => 2 + 3 < i - 1
      BY <1>6 DEF Opened, Clause
    <2> QED BY <1>6, <2>1 DEF Opened
  <1>10. i <= m
    BY <1>6 DEF Call
  <1>11. m + 1 <= f
    BY <1>5 DEF FilterPart
  <1>12. f <= r
    BY <1>4 DEF RangePart
  <1>13. r <= e
    BY <1>0, <1>3
  <1>14. Parts(text, cur, h, i, m, f, r, e)
    BY <1>3, <1>4, <1>5, <1>6, <1>7, <1>8, <1>9, <1>10, <1>11, <1>12, <1>13 DEF Parts
  <1> QED BY <1>14

(* Two different things are two. *)
LEMMA Pair ==
  ASSUME NEW x, NEW y, x # y
  PROVE  Cardinality({x, y}) = 2
  <1> DEFINE S == {x}
  <1>1. {x, y} = S \cup {y} /\ y \notin S
    OBVIOUS
  <1>2. IsFiniteSet(S) /\ Cardinality(S) = 1
    BY FS_Singleton
  <1> HIDE DEF S
  <1>3. Cardinality(S \cup {y}) = Cardinality(S) + 1
    BY <1>1, <1>2, FS_AddElement
  <1>4. Cardinality(S \cup {y}) = 2
    BY <1>2, <1>3
  <1> QED BY <1>1, <1>4, Zenon

(* A clause whose labels are supported names at most one dimension. *)
LEMMA ClauseSupported ==
  ASSUME NEW s, NEW c, NEW i \in Nat, NEW j \in Nat, Clause(s, c, i, j),
         c.labels \in Seq(Idents), Supported(LabelSet(c) \ {"type"})
  PROVE  ByClause(s, i, j)
  <1>1. LabelSet(c) = {At(s, k) : k \in i + 2..j - 1 - 1} \ {Comma}
    BY DEF Clause, LabelList
  <1>2. /\ LabelSet(c) \ {"type"} \subseteq Dimensions
        /\ Cardinality(LabelSet(c) \ {"type"}) <= 1 /\ IsFiniteSet(LabelSet(c))
    <2>1. IsFiniteSet(LabelSet(c))
      <3> DEFINE n == Len(c.labels)
      <3>1. n \in Nat /\ c.labels \in [1..n -> Idents] /\ DOMAIN c.labels = 1..n
        OBVIOUS
      <3>2. IsFiniteSet(1..n)
        BY <3>1, FS_Interval
      <3> HIDE DEF n
      <3>3. c.labels \in Surjection(1..n, LabelSet(c))
        BY <3>1 DEF Surjection, LabelSet
      <3> QED BY <3>2, <3>3, FS_Surjection
    <2> QED BY <2>1 DEF Supported
  <1>3. ASSUME NEW x \in LabelSet(c) \ {"type"}, NEW y \in LabelSet(c) \ {"type"} PROVE x = y
    <2>1. IsFiniteSet(LabelSet(c) \ {"type"})
      BY <1>2, FS_Subset
    <2>2. SUFFICES ASSUME x # y PROVE FALSE
      OBVIOUS
    <2>3. Cardinality({x, y}) = 2 /\ {x, y} \subseteq LabelSet(c) \ {"type"}
      <3>1. Cardinality({x, y}) = 2
        BY <2>2, Pair
      <3>2. {x, y} \subseteq LabelSet(c) \ {"type"}
        BY Zenon
      <3> QED BY <3>1, <3>2
    <2>4. Cardinality({x, y}) <= Cardinality(LabelSet(c) \ {"type"})
      BY <2>1, <2>3, FS_Subset
    <2>5. Cardinality(LabelSet(c) \ {"type"}) \in Nat
      BY <2>1, FS_CardinalityType
    <2> QED BY <1>2, <2>3, <2>4, <2>5
  <1>4. /\ At(s, i) = "by" /\ At(s, i + 1) = "(" /\ i + 3 < j /\ At(s, j - 1) = ")"
        /\ \A k \in i + 2..j - 1 - 1 :
             IF (k - (i + 2)) % 2 = 0 THEN At(s, k) \in Idents ELSE At(s, k) = Comma
    BY DEF Clause, LabelList
  <1>5. j - 1 - 1 = j - 2
    OBVIOUS
  <1>6. \A k \in i + 2..j - 2 :
          IF (k - i) % 2 = 0 THEN At(s, k) \in Dimensions \cup {"type"} ELSE At(s, k) = Comma
    <2>1. SUFFICES ASSUME NEW k \in i + 2..j - 2
                   PROVE  IF (k - i) % 2 = 0 THEN At(s, k) \in Dimensions \cup {"type"}
                                             ELSE At(s, k) = Comma
      OBVIOUS
    <2>2. k \in Nat /\ i + 2 <= k
      OBVIOUS
    <2>3. CASE (k - i) % 2 = 0
      <3>1. (k - (i + 2)) % 2 = 0
        BY <2>2, <2>3, Halves
      <3>2. At(s, k) \in Idents
        BY <1>4, <1>5, <3>1
      <3>3. At(s, k) \in LabelSet(c)
        BY <1>1, <1>5, <3>2, Marks
      <3> QED BY <1>2, <2>3, <3>3
    <2>4. CASE (k - i) % 2 # 0
      <3>1. (k - i) % 2 = 1
        BY <2>2, <2>4
      <3>2. (k - (i + 2)) % 2 = 1
        BY <2>2, <3>1, Halves
      <3> QED BY <1>4, <1>5, <2>4, <3>2
    <2> QED BY <2>3, <2>4
  <1>7. \A k, l \in i + 2..j - 2 :
          {At(s, k), At(s, l)} \subseteq Dimensions => At(s, k) = At(s, l)
    <2>1. SUFFICES ASSUME NEW k \in i + 2..j - 2, NEW l \in i + 2..j - 2,
                          At(s, k) \in Dimensions, At(s, l) \in Dimensions
                   PROVE  At(s, k) = At(s, l)
      OBVIOUS
    <2>2. "type" \notin Dimensions /\ Dimensions \subseteq Idents
      BY DEF Dimensions, Idents
    <2>3. At(s, k) \in LabelSet(c) \ {"type"} /\ At(s, l) \in LabelSet(c) \ {"type"}
      BY <1>1, <1>5, <2>1, <2>2, Marks
    <2> QED BY <1>3, <2>3
  <1> QED BY <1>4, <1>6, <1>7 DEF ByClause

LEMMA FiltersRead ==
  ASSUME NEW s, NEW c, NEW m \in Nat, NEW f \in Nat, FilterPart(s, c, m, f)
  PROVE  f = m + 1 \/ Filters(s, m + 1, f)
  <1>1. SUFFICES ASSUME m + 2 < f, At(s, f - 1) = RBrace, (f - m) % 4 \in {2, 3},
                        Matchers(s, c, m + 1, f - 1)
                 PROVE  Filters(s, m + 1, f)
    BY DEF FilterPart
  <1> DEFINE i == m + 1
  <1>2. i + 1 < f /\ (f - i) % 4 \in {1, 2} /\ f - 1 - 1 = f - 2
    <2> DEFINE d == f - m
    <2>1. d \in Nat /\ 2 < d /\ f - i = d - 1 /\ i + 1 < f /\ f - 1 - 1 = f - 2
      BY <1>1
    <2>2. d % 4 \in {2, 3}
      BY <1>1
    <2>3. (d - 1) % 4 \in {1, 2}
      <3> HIDE DEF d, i
      <3> QED BY <2>1, <2>2
    <2> QED BY <2>1, <2>3
  <1>3. At(s, i) = LBrace /\ \A k \in i + 1..f - 2 : Matcher(s, i, k)
    BY <1>1, <1>2 DEF Matchers
  <1>4. \A k, l \in i + 1..f - 2 : {At(s, k), At(s, l)} \subseteq Quoted => At(s, k) = At(s, l)
    <2>1. {At(s, k) : k \in i + 1..f - 2} \cap Quoted = {c.provider} \ {"none"}
      BY <1>1, <1>2 DEF Matchers
    <2>2. \A k \in i + 1..f - 2 : At(s, k) \in Quoted => At(s, k) = c.provider
      <3> HIDE DEF i
      <3> QED BY <2>1
    <2> QED BY <2>2
  <1> HIDE DEF i
  <1>5. Filters(s, i, f)
    BY <1>1, <1>2, <1>3, <1>4 DEF Filters, Matcher
  <1> QED BY <1>5 DEF i

LEMMA OkInLanguage ==
  ASSUME ParserInv(text, cur), cur.st = "ok"
  PROVE  InLanguage(text)
  <1>0. /\ Shape(text, cur) /\ Len(text) \in Nat /\ cur.open \in Nat /\ cur.labels \in Seq(Idents)
    BY Basics
  <1>1. Supported(LabelSet(cur) \ {"type"})
    BY <1>0 DEF Shape
  <1>2. PICK h \in {"none", "sum", "sum_by"}, i \in Nat, m \in Nat, f \in Nat, r \in Nat, e \in Nat :
           Parts(text, cur, h, i, m, f, r, e)
    BY OkParts
  <1>3. Opening(text, h, i)
    <2>1. h = "sum_by" => i - 1 \in Nat /\ Clause(text, cur, 2, i - 1)
      BY <1>2 DEF Parts, Opened, Clause
    <2>2. h = "sum_by" => ByClause(text, 2, i - 1)
      BY <1>0, <1>1, <2>1, ClauseSupported
    <2> QED BY <1>2, <2>2 DEF Parts, Opened, Opening
  <1>4. f = m + 1 \/ Filters(text, m + 1, f)
    BY <1>2, FiltersRead DEF Parts
  <1>5. r = f \/ (At(text, f) = "[1d]" /\ r = f + 1)
    BY <1>2 DEF Parts, RangePart
  <1>6. /\ e = r + Parentheses(h, i, m) /\ \A k \in r..e - 1 : At(text, k) = ")"
        /\ Call(text, i, m) /\ At(text, m) \in Metrics
    BY <1>2 DEF Parts
  <1>7. e = Len(text) + 1 \/ (h # "sum_by" /\ ByClause(text, e, Len(text) + 1))
    <2>1. h = "sum_by" => cur.haveBy
      BY <1>2 DEF Parts, Opened
    <2>2. Len(text) + 1 \in Nat
      BY <1>0
    <2>3. Clause(text, cur, e, Len(text) + 1) => ByClause(text, e, Len(text) + 1)
      BY <1>0, <1>1, <2>2, ClauseSupported
    <2> QED BY <1>2, <2>1, <2>3 DEF Parts, LastPart
  <1>8. Reading(text, h, i, m, f, r)
    BY <1>3, <1>4, <1>5, <1>6, <1>7 DEF Reading
  <1>9. i \in 1..Len(text) /\ m \in {i, i + 2} /\ f \in m + 1..Len(text) + 1 /\ r \in {f, f + 1}
    <2>1. m \in {i, i + 2}
      BY <1>6 DEF Call
    <2>2. 1 <= i /\ i <= m /\ m + 1 <= f /\ f <= r /\ r <= e /\ e <= Len(text) + 1
      BY <1>2 DEF Parts
    <2> QED BY <1>0, <1>5, <2>1, <2>2
  <1> QED BY <1>3, <1>8, <1>9 DEF InLanguage

-----------------------------------------------------------------------------
(* The tokens of a text that is read to its end, by the parts they stand in.  *)

Inside(s, i, j) == {At(s, k) : k \in i..j - 1}

LEMMA InsideSplits ==
  ASSUME NEW s, NEW i \in Nat, NEW j \in Nat, NEW l \in Nat, i <= j, j <= l
  PROVE  Inside(s, i, l) = Inside(s, i, j) \cup Inside(s, j, l)
  <1>1. i..l - 1 = (i..j - 1) \cup (j..l - 1)
    OBVIOUS
  <1> QED BY <1>1 DEF Inside

LEMMA InsideOne ==
  ASSUME NEW s, NEW i \in Nat
  PROVE  Inside(s, i, i) = {} /\ Inside(s, i, i + 1) = {At(s, i)}
  <1>1. i..i - 1 = {} /\ i..i + 1 - 1 = {i}
    OBVIOUS
  <1> QED BY <1>1 DEF Inside

LEMMA InsideTwo ==
  ASSUME NEW s, NEW i \in Nat
  PROVE  Inside(s, i, i + 2) = {At(s, i), At(s, i + 1)}
  <1>1. i..i + 2 - 1 = {i, i + 1}
    OBVIOUS
  <1> QED BY <1>1 DEF Inside

LEMMA ClauseWords ==
  ASSUME NEW s, NEW c, NEW i \in Nat, NEW j \in Nat, Clause(s, c, i, j)
  PROVE  /\ "by" \in Inside(s, i, j) /\ LabelSet(c) \subseteq Inside(s, i, j)
         /\ Inside(s, i, j) \subseteq {"by", "(", ")", Comma} \cup LabelSet(c)
  <1>1. /\ At(s, i) = "by" /\ At(s, i + 1) = "(" /\ i + 3 < j /\ At(s, j - 1) = ")"
        /\ LabelSet(c) = {At(s, k) : k \in i + 2..j - 1 - 1} \ {Comma}
    BY DEF Clause, LabelList
  <1>2. i..j - 1 = {i, i + 1, j - 1} \cup (i + 2..j - 1 - 1)
    BY <1>1
  <1>3. Inside(s, i, j) = {"by", "(", ")"} \cup {At(s, k) : k \in i + 2..j - 1 - 1}
    BY <1>1, <1>2 DEF Inside
  <1> QED BY <1>1, <1>3

(* The words in front of an expression. *)
LEMMA OpenedWords ==
  ASSUME NEW s, NEW c, NEW h \in {"none", "sum", "sum_by"}, NEW i \in Nat, Opened(s, c, h, i)
  PROVE  /\ Inside(s, 1, i) \subseteq {"sum", "by", "(", ")", Comma} \cup LabelSet(c)
         /\ h # "none" => "sum" \in Inside(s, 1, i)
         /\ c.haveBy => "by" \in Inside(s, 1, i) /\ LabelSet(c) \subseteq Inside(s, 1, i)
         /\ h = "none" => Inside(s, 1, i) = {}
         /\ ~c.haveBy => Inside(s, 1, i) \subseteq {"sum", "("}
  <1>1. CASE h = "none"
    <2>1. i = 1 /\ ~c.haveBy
      BY <1>1 DEF Opened
    <2>2. Inside(s, 1, i) = {}
      BY <2>1, InsideOne
    <2> QED BY <1>1, <2>1, <2>2
  <1>2. CASE h = "sum"
    <2>1. i = 1 + 2 /\ ~c.haveBy /\ At(s, 1) = "sum" /\ At(s, 1 + 1) = "("
      BY <1>2 DEF Opened
    <2>2. Inside(s, 1, i) = {"sum", "("}
      BY <2>1, InsideTwo
    <2> QED BY <1>2, <2>1, <2>2
  <1>3. CASE h = "sum_by"
    <2>1. /\ At(s, 1) = "sum" /\ c.haveBy /\ Clause(s, c, 2, i - 1) /\ At(s, i - 1) = "("
      BY <1>3 DEF Opened
    <2>2. 5 < i - 1 /\ i - 1 \in Nat
      BY <2>1 DEF Clause
    <2>3. /\ "by" \in Inside(s, 2, i - 1) /\ LabelSet(c) \subseteq Inside(s, 2, i - 1)
          /\ Inside(s, 2, i - 1) \subseteq {"by", "(", ")", Comma} \cup LabelSet(c)
      BY <2>1, <2>2, ClauseWords
    <2>4. Inside(s, 1, i) = {"sum", "("} \cup Inside(s, 2, i - 1)
      <3>1. 1..i - 1 = {1, i - 1} \cup (2..i - 1 - 1)
        BY <2>2
      <3> QED BY <2>1, <3>1 DEF Inside
    <2> QED BY <1>3, <2>1, <2>3, <2>4
  <1> QED BY <1>1, <1>2, <1>3

LEMMA CallWords ==
  ASSUME NEW s, NEW i \in Nat, NEW m \in Nat, Call(s, i, m)
  PROVE  IF m = i THEN Inside(s, i, m) = {} ELSE Inside(s, i, m) = {"increase", "("}
  BY InsideOne, InsideTwo DEF Call

LEMMA FilterWords ==
  ASSUME NEW s, NEW c, NEW m \in Nat, NEW f \in Nat, FilterPart(s, c, m, f)
  PROVE  /\ Inside(s, m + 1, f) \subseteq {"provider", "=", Comma, LBrace, RBrace} \cup Quoted
         /\ Inside(s, m + 1, f) \cap Quoted = {c.provider} \ {"none"}
  <1>1. CASE f = m + 1 /\ c.provider = "none"
    <2>1. Inside(s, m + 1, f) = {}
      BY <1>1, InsideOne
    <2> QED BY <1>1, <2>1
  <1>2. CASE /\ m + 2 < f /\ At(s, f - 1) = RBrace /\ (f - m) % 4 \in {2, 3}
             /\ Matchers(s, c, m + 1, f - 1)
    <2>1. /\ At(s, m + 1) = LBrace /\ \A k \in m + 1 + 1..f - 1 - 1 : Matcher(s, m + 1, k)
          /\ {At(s, k) : k \in m + 1 + 1..f - 1 - 1} \cap Quoted = {c.provider} \ {"none"}
      BY <1>2 DEF Matchers
    <2>2. m + 1..f - 1 = {m + 1, f - 1} \cup (m + 1 + 1..f - 1 - 1)
      BY <1>2
    <2> DEFINE M == {At(s, k) : k \in m + 1 + 1..f - 1 - 1}
    <2>3. Inside(s, m + 1, f) = {LBrace, RBrace} \cup M
      BY <1>2, <2>1, <2>2 DEF Inside
    <2>4. M \subseteq {"provider", "=", Comma} \cup Quoted
      <3>1. SUFFICES ASSUME NEW k \in m + 1 + 1..f - 1 - 1
                     PROVE  At(s, k) \in {"provider", "=", Comma} \cup Quoted
        OBVIOUS
      <3>2. (k - (m + 1)) % 4 \in {0, 1, 2, 3}
        <4> DEFINE d == k - (m + 1)
        <4>1. d \in Nat
          OBVIOUS
        <4>2. d % 4 \in {0, 1, 2, 3}
          <5> HIDE DEF d
          <5> QED BY <4>1
        <4> QED BY <4>2
      <3>3. Matcher(s, m + 1, k)
        BY <2>1
      <3> QED BY <3>2, <3>3 DEF Matcher
    <2>5. M \cap Quoted = {c.provider} \ {"none"}
      BY <2>1
    <2> HIDE DEF M
    <2> QED BY <2>3, <2>4, <2>5, Marks
  <1> QED BY <1>1, <1>2 DEF FilterPart

LEMMA RangeWords ==
  ASSUME NEW s, NEW c, NEW f \in Nat, NEW r \in Nat, RangePart(s, c, f, r)
  PROVE  IF c.bucket THEN Inside(s, f, r) = {"[1d]"} ELSE Inside(s, f, r) = {}
  BY InsideOne DEF RangePart

LEMMA LastWords ==
  ASSUME NEW s, NEW c, NEW e \in Nat, Len(s) \in Nat, LastPart(s, c, e)
  PROVE  /\ Inside(s, e, Len(s) + 1) \subseteq {"by", "(", ")", Comma} \cup LabelSet(c)
         /\ c.haveBy => Inside(s, e, Len(s) + 1) = {}
         /\ ~c.haveBy => \/ Inside(s, e, Len(s) + 1) = {} /\ c.labels = <<>>
                         \/ /\ "by" \in Inside(s, e, Len(s) + 1) /\ c.labels # <<>>
                            /\ LabelSet(c) \subseteq Inside(s, e, Len(s) + 1)
  <1>1. CASE e = Len(s) + 1 /\ NoLabels(c)
    <2>1. Inside(s, e, Len(s) + 1) = {}
      BY <1>1, InsideOne
    <2> QED BY <1>1, <2>1 DEF NoLabels
  <1>2. CASE ~c.haveBy /\ Clause(s, c, e, Len(s) + 1)
    <2>1. Len(s) + 1 \in Nat
      OBVIOUS
    <2>2. c.labels # <<>>
      BY <1>2, <2>1, ClauseNames
    <2>3. /\ "by" \in Inside(s, e, Len(s) + 1) /\ LabelSet(c) \subseteq Inside(s, e, Len(s) + 1)
          /\ Inside(s, e, Len(s) + 1) \subseteq {"by", "(", ")", Comma} \cup LabelSet(c)
      BY <1>2, <2>1, ClauseWords
    <2> QED BY <1>2, <2>2, <2>3
  <1> QED BY <1>1, <1>2 DEF LastPart

(* The tokens of the whole text, by its parts. *)
LEMMA OkWords ==
  ASSUME ParserInv(text, cur), cur.st = "ok"
  PROVE  LET W == Inside(text, 1, Len(text) + 1) L == LabelSet(cur) IN
         /\ cur.metric \in Metrics /\ cur.metric \in W
         /\ L \subseteq W /\ L \subseteq Dimensions \cup {"type"}
         /\ W \subseteq {"sum", "increase", "by", "(", ")", "[1d]", "provider", "=",
                         Comma, LBrace, RBrace, cur.metric} \cup Quoted \cup L
         /\ W \cap Quoted = {cur.provider} \ {"none"}
         /\ cur.operator <=> "sum" \in W \/ "increase" \in W
         /\ cur.bucket <=> "[1d]" \in W
         /\ cur.labels = <<>> <=> "by" \notin W
  <1> DEFINE W == Inside(text, 1, Len(text) + 1)
             L == LabelSet(cur)
  <1>0. /\ Shape(text, cur) /\ Len(text) \in Nat /\ cur.open \in Nat /\ cur.labels \in Seq(Idents)
    BY Basics
  <1>1. L \subseteq Dimensions \cup {"type"}
    <2>1. Supported(LabelSet(cur) \ {"type"})
      BY <1>0 DEF Shape
    <2> QED BY <2>1 DEF Supported
  <1>2. PICK h \in {"none", "sum", "sum_by"}, i \in Nat, m \in Nat, f \in Nat, r \in Nat, e \in Nat :
           Parts(text, cur, h, i, m, f, r, e)
    BY OkParts
  <1> DEFINE O == Inside(text, 1, i)
             K == Inside(text, i, m)
             F == Inside(text, m + 1, f)
             R == Inside(text, f, r)
             P == Inside(text, r, e)
             T == Inside(text, e, Len(text) + 1)
  <1>3. W = O \cup K \cup {cur.metric} \cup F \cup R \cup P \cup T
    <2>1. 1 <= i /\ i <= m /\ m + 1 <= f /\ f <= r /\ r <= e /\ e <= Len(text) + 1
      BY <1>2 DEF Parts
    <2>2. Len(text) + 1 \in Nat /\ i <= Len(text) + 1 /\ m <= Len(text) + 1 /\ m <= m + 1
          /\ m + 1 <= Len(text) + 1 /\ f <= Len(text) + 1 /\ r <= Len(text) + 1 /\ m + 1 \in Nat
      BY <1>0, <2>1
    <2>3. W = O \cup Inside(text, i, Len(text) + 1)
      BY <2>1, <2>2, InsideSplits
    <2>4. Inside(text, i, Len(text) + 1) = K \cup Inside(text, m, Len(text) + 1)
      BY <2>1, <2>2, InsideSplits
    <2>5. Inside(text, m, Len(text) + 1) = {cur.metric} \cup Inside(text, m + 1, Len(text) + 1)
      <3>1. Inside(text, m, m + 1) = {cur.metric}
        BY <1>2, InsideOne DEF Parts
      <3> QED BY <2>2, <3>1, InsideSplits
    <2>6. Inside(text, m + 1, Len(text) + 1) = F \cup Inside(text, f, Len(text) + 1)
      BY <2>1, <2>2, InsideSplits
    <2>7. Inside(text, f, Len(text) + 1) = R \cup Inside(text, r, Len(text) + 1)
      BY <2>1, <2>2, InsideSplits
    <2>8. Inside(text, r, Len(text) + 1) = P \cup T
      BY <2>1, <2>2, InsideSplits
    <2> HIDE DEF W, O, K, F, R, P, T
    <2> QED BY <2>3, <2>4, <2>5, <2>6, <2>7, <2>8
  <1>4. /\ O \subseteq {"sum", "by", "(", ")", Comma} \cup L
        /\ h # "none" => "sum" \in O
        /\ cur.haveBy => "by" \in O /\ L \subseteq O
        /\ h = "none" => O = {}
        /\ ~cur.haveBy => O \subseteq {"sum", "("}
    <2>1. Opened(text, cur, h, i)
      BY <1>2 DEF Parts
    <2> HIDE DEF W, L
    <2>2. /\ Inside(text, 1, i) \subseteq {"sum", "by", "(", ")", Comma} \cup LabelSet(cur)
          /\ h # "none" => "sum" \in Inside(text, 1, i)
          /\ cur.haveBy => "by" \in Inside(text, 1, i) /\ LabelSet(cur) \subseteq Inside(text, 1, i)
          /\ h = "none" => Inside(text, 1, i) = {}
          /\ ~cur.haveBy => Inside(text, 1, i) \subseteq {"sum", "("}
      BY <2>1, OpenedWords, ZenonT(60)
    <2> QED BY <2>2 DEF L
  <1>5. IF m = i THEN K = {} ELSE K = {"increase", "("}
    BY <1>2, CallWords DEF Parts
  <1>6. /\ F \subseteq {"provider", "=", Comma, LBrace, RBrace} \cup Quoted
        /\ F \cap Quoted = {cur.provider} \ {"none"}
    <2>1. FilterPart(text, cur, m, f)
      BY <1>2 DEF Parts
    <2> QED BY <2>1, FilterWords
  <1>7. IF cur.bucket THEN R = {"[1d]"} ELSE R = {}
    BY <1>2, RangeWords DEF Parts
  <1>8. P \subseteq {")"}
    <2>1. \A k \in r..e - 1 : At(text, k) = ")"
      BY <1>2 DEF Parts
    <2> QED BY <2>1 DEF Inside
  <1>9. /\ T \subseteq {"by", "(", ")", Comma} \cup L
        /\ cur.haveBy => T = {}
        /\ ~cur.haveBy => \/ T = {} /\ cur.labels = <<>>
                          \/ "by" \in T /\ cur.labels # <<>> /\ L \subseteq T
    BY <1>0, <1>2, LastWords DEF Parts
  <1>10. cur.metric \in Metrics
    BY <1>2 DEF Parts
  <1>11. cur.operator <=> h # "none" \/ m # i
    BY <1>2 DEF Parts
  <1>12. cur.haveBy => cur.labels # <<>>
    <2>1. cur.haveBy => i - 1 \in Nat /\ Clause(text, cur, 2, i - 1)
      BY <1>2 DEF Parts, Opened, Clause
    <2> QED BY <2>1, ClauseNames
  <1>13. cur.labels = <<>> => L = {}
    BY DEF LabelSet
  <1> HIDE DEF W, O, K, F, R, P, T, L
  <1>14. L \subseteq W
    BY <1>3, <1>4, <1>9, <1>13
  <1>15. W \subseteq {"sum", "increase", "by", "(", ")", "[1d]", "provider", "=",
                      Comma, LBrace, RBrace, cur.metric} \cup Quoted \cup L
    <2> DEFINE B == {"sum", "increase", "by", "(", ")", "[1d]", "provider", "=",
                     Comma, LBrace, RBrace, cur.metric} \cup Quoted \cup L
    <2>1. O \subseteq B /\ T \subseteq B
      BY <1>4, <1>9
    <2>2. K \subseteq B /\ R \subseteq B /\ P \subseteq B
      BY <1>5, <1>7, <1>8
    <2>3. F \subseteq B /\ cur.metric \in B
      BY <1>6
    <2> HIDE DEF B
    <2>4. W \subseteq B
      BY <1>3, <2>1, <2>2, <2>3
    <2> QED BY <2>4 DEF B
  <1>16. W \cap Quoted = {cur.provider} \ {"none"}
    <2>1. {"sum", "by", "increase", "[1d]", "(", ")", "type"} \cap Quoted = {}
          /\ Metrics \cap Quoted = {} /\ Dimensions \cap Quoted = {} /\ Comma \notin Quoted
      BY Marks DEF Quoted, Metrics, Dimensions
    <2>2. (O \cup K \cup {cur.metric} \cup R \cup P \cup T) \cap Quoted = {}
      BY <1>1, <1>4, <1>5, <1>7, <1>8, <1>9, <1>10, <2>1
    <2> QED BY <1>3, <1>6, <2>2
  (* No label, value, mark or metric is one of the words that are asked for. *)
  <1>17. {"sum", "increase", "by", "[1d]"} \cap
           ({"(", ")", "provider", "=", Comma, LBrace, RBrace, cur.metric} \cup Quoted \cup L) = {}
    <2>1. {"sum", "increase", "by", "[1d]"} \cap (Metrics \cup Quoted \cup Dimensions \cup {"type"}) = {}
      BY DEF Metrics, Quoted, Dimensions
    <2>2. {"sum", "increase", "by"} \subseteq Idents
      BY DEF Idents
    <2> QED BY <1>1, <1>10, <2>1, <2>2, Marks
  <1>18. cur.operator <=> "sum" \in W \/ "increase" \in W
    <2>1. "sum" \in W <=> h # "none"
      BY <1>3, <1>4, <1>5, <1>6, <1>7, <1>8, <1>9, <1>17
    <2>2. "increase" \in W <=> m # i
      BY <1>3, <1>4, <1>5, <1>6, <1>7, <1>8, <1>9, <1>17
    <2> QED BY <1>11, <2>1, <2>2
  <1>19. cur.bucket <=> "[1d]" \in W
    BY <1>3, <1>4, <1>5, <1>6, <1>7, <1>8, <1>9, <1>17
  <1>20. cur.labels = <<>> <=> "by" \notin W
    BY <1>3, <1>4, <1>5, <1>6, <1>7, <1>8, <1>9, <1>12, <1>17
  <1>21. cur.metric \in W
    BY <1>3
  <1> QED BY <1>1, <1>10, <1>14, <1>15, <1>16, <1>18, <1>19, <1>20, <1>21 DEF W, L

LEMMA OkExact ==
  ASSUME ParserInv(text, cur), In("ok")
  PROVE  LET named == {text[k] : k \in DOMAIN text} IN
         /\ InLanguage(text)
         /\ named \cap Quoted = {cur.provider} \ {"none"}
         /\ IF named \cap Dimensions = {} THEN GroupBy = "model" ELSE GroupBy \in named
         /\ RawEvents <=> "events" \in named /\ named \cap {"sum", "increase", "by", "[1d]"} = {}
  <1> DEFINE W == Inside(text, 1, Len(text) + 1)
             L == LabelSet(cur)
             named == {text[k] : k \in DOMAIN text}
  <1>0. cur.st = "ok" /\ text \in Seq(Tokens) /\ Len(text) \in Nat
    BY Basics DEF In
  <1>1. InLanguage(text)
    BY <1>0, OkInLanguage
  <1>2. W = named
    <2>1. DOMAIN text = 1..Len(text) /\ Len(text) + 1 - 1 = Len(text)
      BY <1>0
    <2>2. \A k \in 1..Len(text) : At(text, k) = text[k]
      BY <1>0 DEF At
    <2> QED BY <2>1, <2>2 DEF Inside
  <1>3. /\ cur.metric \in Metrics /\ cur.metric \in W
        /\ L \subseteq W /\ L \subseteq Dimensions \cup {"type"}
        /\ W \subseteq {"sum", "increase", "by", "(", ")", "[1d]", "provider", "=",
                        Comma, LBrace, RBrace, cur.metric} \cup Quoted \cup L
        /\ W \cap Quoted = {cur.provider} \ {"none"}
        /\ cur.operator <=> "sum" \in W \/ "increase" \in W
        /\ cur.bucket <=> "[1d]" \in W
        /\ cur.labels = <<>> <=> "by" \notin W
    BY <1>0, OkWords
  <1>4. Selected = L \ {"type"}
    BY DEF Selected, LabelSet
  <1> HIDE DEF W, L, named
  <1>5. W \cap Dimensions = Selected
    <2>1. Dimensions \cap ({"sum", "increase", "by", "(", ")", "[1d]", "provider", "=",
                            Comma, LBrace, RBrace} \cup Metrics \cup Quoted) = {}
      <3>1. Dimensions \subseteq Idents
        BY DEF Idents
      <3>2. Dimensions \cap ({"sum", "increase", "by", "(", ")", "[1d]", "provider", "="}
                             \cup Metrics \cup Quoted) = {}
        BY DEF Dimensions, Metrics, Quoted
      <3> QED BY <3>1, <3>2, Marks
    <2>2. "type" \notin Dimensions
      BY DEF Dimensions
    <2>3. cur.metric \notin Dimensions
      BY <1>3, <2>1
    <2>4. W \cap Dimensions \subseteq L
      BY <1>3, <2>1, <2>3
    <2> QED BY <1>3, <1>4, <2>2, <2>4
  <1>6. IF W \cap Dimensions = {} THEN GroupBy = "model" ELSE GroupBy \in W
    BY <1>5 DEF GroupBy
  <1>7. "events" \in W <=> cur.metric = "events"
    <2>1. "events" \notin {"sum", "increase", "by", "(", ")", "[1d]", "provider", "="}
          /\ "events" \notin Quoted /\ "events" \notin Dimensions \cup {"type"} /\ "events" \in Idents
      BY DEF Quoted, Dimensions, Idents, Metrics
    <2>2. "events" \notin {Comma, LBrace, RBrace}
      BY <2>1, Marks
    <2> QED BY <1>3, <2>1, <2>2
  <1>8. RawEvents <=> "events" \in W /\ W \cap {"sum", "increase", "by", "[1d]"} = {}
    BY <1>3, <1>7 DEF RawEvents
  <1> QED BY <1>1, <1>2, <1>3, <1>6, <1>8 DEF named


-----------------------------------------------------------------------------
(* The parser: where the cursor is in a text that has a reading               *)

IsReading(s, h, i, m, f, r) ==
  /\ h \in {"none", "sum", "sum_by"} /\ i \in 1..Len(s) /\ m \in {i, i + 2}
  /\ f \in m + 1..Len(s) + 1 /\ r \in {f, f + 1}
  /\ Reading(s, h, i, m, f, r)

(* The clause after the first word is that of the call, or of a query that is *)
(* one word and a clause.                                                     *)
LeadEnd(s, h, i) == IF h = "none" THEN Len(s) + 1 ELSE i - 1
Leading(s, h, i) == h # "sum" /\ (h = "none" => i = 1) /\ ByClause(s, 2, LeadEnd(s, h, i))

Chosen(c) == LabelSet(c) \ {"type"}
Headed(c, h) == /\ c.haveBy <=> h = "sum_by"
                /\ c.haveBy => Supported(Chosen(c))

Offered(s, c, i, j) == c.provider = "none" \/ \E k \in i..j : At(s, k) = c.provider

Track(s, c, h, i, m, f, r) ==
  LET e == r + Parentheses(h, i, m) IN
  /\ c.st # "refused"
  /\ c.st = "wrapper" => c.pos = 1
  /\ c.st \in ByStates /\ c.ret # "trailing" => Leading(s, h, i) /\ c.pos < LeadEnd(s, h, i)
  /\ c.st = "wrapper_by" => Leading(s, h, i) /\ c.pos = LeadEnd(s, h, i)
  /\ c.st = "function" =>
       Headed(c, h) /\ c.pos = i /\ c.open = (IF h = "none" THEN 0 ELSE 1)
  /\ c.st \in {"metric", "open", "filter", "filter_end", "range", "offset", "close"} =>
       Headed(c, h) /\ c.open = Parentheses(h, i, m)
  /\ c.st = "metric" => c.pos = m
  /\ c.st = "open" => c.pos = m + 1 /\ Filters(s, m + 1, f)
  /\ c.st \in {"filter", "filter_end"} =>
       /\ Filters(s, m + 1, f) /\ m + 1 < c.pos /\ c.pos < f
       /\ (c.pos - (m + 1)) % 4 = (IF c.st = "filter" THEN 1 ELSE 0)
       /\ Offered(s, c, m + 2, c.pos - 1)
  /\ c.st = "range" => c.pos = f
  /\ c.st \in {"offset", "close"} => c.pos = r
  /\ c.st = "trailing" => Headed(c, h) /\ c.pos = e
  /\ c.st \in ByStates /\ c.ret = "trailing" =>
       /\ h # "sum_by" /\ ByClause(s, e, Len(s) + 1) /\ InClause(s, c, e)
       /\ c.pos < Len(s) + 1
  /\ c.st = "finish" => c.pos = Len(s) + 1 /\ Supported(Chosen(c))

-----------------------------------------------------------------------------
(* Which token stands where in a text that has a reading.                     *)

Ending == {")", "by", "end"}

LEMMA Places ==
  ASSUME NEW s \in Seq(Tokens), NEW h, NEW i, NEW m, NEW f, NEW r,
         IsReading(s, h, i, m, f, r)
  PROVE  LET e == r + Parentheses(h, i, m) IN
         /\ h \in {"none", "sum", "sum_by"} /\ Len(s) \in Nat
         /\ i \in Nat \ {0} /\ m \in Nat \ {0} /\ f \in Nat \ {0} /\ r \in Nat \ {0}
         /\ e \in Nat \ {0} /\ Parentheses(h, i, m) \in Nat
         /\ i <= Len(s) /\ m + 1 <= f /\ f <= r /\ r <= e /\ e <= Len(s) + 1
         /\ At(s, e) \in {"by", "end"} /\ (At(s, e) = "end" => e = Len(s) + 1)
         /\ At(s, e) = "by" => h # "sum_by" /\ ByClause(s, e, Len(s) + 1)
         /\ r = e \/ At(s, r) = ")"
         /\ At(s, r) \in Ending
         /\ r = f \/ (r = f + 1 /\ At(s, f) = "[1d]")
         /\ r = f => At(s, f) \in Ending
         /\ f = m + 1 \/ (At(s, m + 1) = LBrace /\ Filters(s, m + 1, f))
         /\ f = m + 1 => At(s, m + 1) \in Ending \cup {"[1d]"}
  <1> DEFINE e == r + Parentheses(h, i, m)
  <1>1. /\ h \in {"none", "sum", "sum_by"} /\ i \in 1..Len(s) /\ m \in {i, i + 2}
        /\ f \in m + 1..Len(s) + 1 /\ r \in {f, f + 1}
        /\ Reading(s, h, i, m, f, r) /\ Len(s) \in Nat
    BY DEF IsReading
  <1>2. Parentheses(h, i, m) \in Nat
    BY DEF Parentheses
  <1>3. /\ i \in Nat \ {0} /\ m \in Nat \ {0} /\ f \in Nat \ {0} /\ r \in Nat \ {0}
        /\ e \in Nat \ {0} /\ i <= Len(s) /\ m + 1 <= f /\ f <= r /\ r <= e
    BY <1>1, <1>2
  <1>4. /\ f = m + 1 \/ Filters(s, m + 1, f)
        /\ r = f \/ (At(s, f) = "[1d]" /\ r = f + 1)
        /\ \A k \in r..e - 1 : At(s, k) = ")"
        /\ e = Len(s) + 1 \/ (h # "sum_by" /\ ByClause(s, e, Len(s) + 1))
    BY <1>1 DEF Reading
  <1> HIDE DEF e
  <1>5. /\ e <= Len(s) + 1 /\ At(s, e) \in {"by", "end"} /\ (At(s, e) = "end" => e = Len(s) + 1)
        /\ At(s, e) = "by" => h # "sum_by" /\ ByClause(s, e, Len(s) + 1)
    <2>1. CASE e = Len(s) + 1
      <3>1. At(s, e) = "end"
        BY <1>1, <2>1 DEF At
      <3> QED BY <1>1, <2>1, <3>1
    <2>2. CASE h # "sum_by" /\ ByClause(s, e, Len(s) + 1)
      BY <1>1, <1>3, <2>2 DEF ByClause
    <2> QED BY <1>4, <2>1, <2>2
  <1>6. r = e \/ At(s, r) = ")"
    <2>1. r # e => r \in r..e - 1
      BY <1>3
    <2> QED BY <1>4, <2>1
  <1>7. At(s, r) \in Ending
    BY <1>5, <1>6 DEF Ending
  <1>8. f = m + 1 \/ (At(s, m + 1) = LBrace /\ Filters(s, m + 1, f))
    <2>1. Filters(s, m + 1, f) => At(s, m + 1) = LBrace
      BY Zenon DEF Filters
    <2> QED BY <1>4, <2>1
  <1>9. r = f \/ (r = f + 1 /\ At(s, f) = "[1d]")
    BY <1>4
  <1>10. /\ r = f => At(s, f) \in Ending
         /\ f = m + 1 => At(s, m + 1) \in Ending \cup {"[1d]"}
    BY <1>7, <1>9
  <1>11. h \in {"none", "sum", "sum_by"} /\ Len(s) \in Nat
    BY <1>1
  <1> QED BY <1>2, <1>3, <1>5, <1>6, <1>7, <1>8, <1>9, <1>10, <1>11 DEF e

(* No token of the ending is one that opens or follows something else. *)
LEMMA EndingTokens ==
  /\ LBrace \notin Ending \cup {"[1d]"} /\ "(" \notin Ending \cup {"[1d]"} /\ LBrace # "("
  /\ "[1d]" \notin Ending /\ "[?]" \notin Ending \cup {"[1d]"} /\ "offset" \notin Ending
  <1>1. LBrace \notin Ending \cup {"[1d]"} /\ LBrace # "("
    BY Marks DEF Ending, Idents
  <1>2. /\ "(" \notin Ending \cup {"[1d]"}
        /\ "[1d]" \notin Ending /\ "[?]" \notin Ending \cup {"[1d]"} /\ "offset" \notin Ending
    BY DEF Ending
  <1> QED BY <1>1, <1>2

LEMMA SupportedBy ==
  ASSUME NEW s, NEW c, NEW i \in Nat, NEW j \in Nat, ByClause(s, i, j), Clause(s, c, i, j)
  PROVE  Supported(Chosen(c))
  <1>1. LabelSet(c) = {At(s, k) : k \in i + 2..j - 2} \ {Comma}
    <2>1. j - 1 - 1 = j - 2
      OBVIOUS
    <2> QED BY <2>1 DEF Clause, LabelList
  <1>2. \A x \in Chosen(c) :
          x \in Dimensions /\ \E k \in i + 2..j - 2 : x = At(s, k)
    <2>1. TAKE x \in Chosen(c)
    <2>2. x # "type" /\ x # Comma
      BY <1>1 DEF Chosen
    <2>3. PICK k \in i + 2..j - 2 : x = At(s, k)
      BY <1>1 DEF Chosen
    <2>4. x \in Dimensions
      BY <2>2, <2>3 DEF ByClause
    <2> QED BY <2>3, <2>4
  <1>3. \A x, y \in Chosen(c) : x = y
    <2>1. TAKE x, y \in Chosen(c)
    <2>2. PICK k \in i + 2..j - 2 : x = At(s, k)
      BY <1>2
    <2>3. PICK l \in i + 2..j - 2 : y = At(s, l)
      BY <1>2
    <2>4. {At(s, k), At(s, l)} \subseteq Dimensions
      BY <1>2, <2>2, <2>3
    <2> QED BY <2>2, <2>3, <2>4 DEF ByClause
  <1>4. Cardinality(Chosen(c)) <= 1
    <2>1. CASE Chosen(c) = {}
      BY <2>1, FS_EmptySet
    <2>2. CASE Chosen(c) # {}
      <3>1. PICK x : Chosen(c) = {x}
        BY <1>3, <2>2
      <3> QED BY <3>1, FS_Singleton
    <2> QED BY <2>1, <2>2
  <1>5. Chosen(c) \subseteq Dimensions
    BY <1>2
  <1> QED BY <1>4, <1>5 DEF Supported

LEMMA SupportedNone ==
  ASSUME NEW c, c.labels = <<>>
  PROVE  Supported(Chosen(c))
  <1>1. Chosen(c) = {}
    BY DEF Chosen, LabelSet
  <1> QED BY <1>1, FS_EmptySet DEF Supported

(* A step inside a clause of the language stays in it or ends it. *)
Within(b, j) == /\ cur'.st \in ByStates /\ InClause(text, cur', b) /\ cur'.pos < j
                /\ cur'.ret = cur.ret
Past(b, j) == cur'.st = AfterBy /\ cur'.pos = j /\ Clause(text, cur', b, j) /\ Alike(cur, cur')

LEMMA ByOpensGoes ==
  ASSUME ParserInv(text, cur), ByOpens, NEW b \in Nat, NEW j \in Nat,
         ByClause(text, b, j), InClause(text, cur, b)
  PROVE  Within(b, j)
  <1>0. cur.st = "by" /\ cur.pos \in Nat \ {0}
    BY Basics DEF ByOpens, In
  <1>1. cur.pos = b + 1 /\ At(text, b + 1) = "(" /\ b + 3 < j
    BY <1>0 DEF InClause, ByClause
  <1>2. Move("label", cur.pos + 1)
    BY <1>1 DEF ByOpens, Here, Tok
  <1>3. cur'.st = "label" /\ cur'.pos = cur.pos + 1 /\ Alike(cur, cur')
    BY <1>0, <1>2, Moved DEF States
  <1>4. InClause(text, cur', b)
    BY <1>0, <1>1, <1>2, ClauseOpens
  <1>5. cur'.pos < j
    BY <1>1, <1>3
  <1> QED BY <1>3, <1>4, <1>5 DEF Within, ByStates, Alike

LEMMA LabelGoes ==
  ASSUME ParserInv(text, cur), Label, NEW b \in Nat, NEW j \in Nat,
         ByClause(text, b, j), InClause(text, cur, b), cur.pos < j
  PROVE  Within(b, j) \/ Past(b, j)
  <1> DEFINE p == cur.pos
  <1>0. /\ cur.st = "label" /\ p \in Nat \ {0} /\ cur \in Cursor /\ text \in Seq(Tokens)
        /\ cur.labels \in Seq(Idents)
    BY Basics DEF Label, In
  <1>1. /\ b + 2 <= p /\ LabelList(text, cur, b + 2, p) /\ (p - b) % 2 = 0
    BY <1>0 DEF InClause
  <1>2. /\ b + 3 < j /\ At(text, j - 1) = ")"
        /\ \A k \in b + 2..j - 2 :
             IF (k - b) % 2 = 0 THEN At(text, k) \in Dimensions \cup {"type"} ELSE At(text, k) = Comma
    BY DEF ByClause
  <1>3. Dimensions \cup {"type"} \subseteq Idents /\ ")" \notin Idents
    BY DEF Idents, Dimensions, Metrics
  <1>4. CASE p = j - 1
    <2>1. At(text, p) = ")"
      BY <1>2, <1>4
    <2>2. cur.labels # <<>>
      <3>1. b + 2 \in b + 2..p - 1 /\ b + 2 \in b + 2..j - 2 /\ (b + 2 - b) % 2 = 0
        BY <1>2, <1>4
      <3>2. At(text, b + 2) \in Idents
        BY <1>2, <1>3, <3>1
      <3>3. At(text, b + 2) \in LabelSet(cur)
        BY <1>1, <3>1, <3>2, Marks DEF LabelList
      <3> QED BY <3>3 DEF LabelSet
    <2>3. Move(AfterBy, p + 1)
      BY <1>3, <2>1, <2>2 DEF Label, Here, Tok
    <2>4. cur'.st = AfterBy /\ cur'.pos = p + 1 /\ Alike(cur, cur')
      <3>1. AfterBy \in States /\ p + 1 \in Nat \ {0}
        BY <1>0 DEF AfterBy, States
      <3> QED BY <2>3, <3>1, Moved
    <2>5. Clause(text, cur', b, p + 1)
      BY <1>0, <2>1, <2>2, <2>4, ClauseEnded, AlikeKeeps
    <2>6. p + 1 = j
      BY <1>0, <1>4
    <2> QED BY <2>4, <2>5, <2>6 DEF Past
  <1>5. CASE p # j - 1
    <2>1. p \in b + 2..j - 2
      BY <1>0, <1>1, <1>5
    <2>2. At(text, p) \in Idents
      BY <1>1, <1>2, <1>3, <2>1
    <2>3. cur' = Labelled(cur, At(text, p))
      BY <1>3, <2>2 DEF Label, Here, Tok, Labelled
    <2>4. cur'.st = "label_end" /\ cur'.pos = p + 1 /\ cur'.ret = cur.ret
      BY <1>0, <2>2, <2>3, LabelUpdate
    <2>5. InClause(text, cur', b)
      BY <1>0, <2>2, <2>3, LabelAdded
    <2>6. cur'.pos < j
      BY <1>0, <2>1, <2>4
    <2> QED BY <2>4, <2>5, <2>6 DEF Within, ByStates
  <1> QED BY <1>4, <1>5

LEMMA LabelEndGoes ==
  ASSUME ParserInv(text, cur), LabelEnd, NEW b \in Nat, NEW j \in Nat,
         ByClause(text, b, j), InClause(text, cur, b), cur.pos < j
  PROVE  Within(b, j) \/ Past(b, j)
  <1> DEFINE p == cur.pos
  <1>0. /\ cur.st = "label_end" /\ p \in Nat \ {0} /\ cur \in Cursor /\ text \in Seq(Tokens)
    BY Basics DEF LabelEnd, In
  <1>1. /\ b + 2 <= p /\ LabelList(text, cur, b + 2, p) /\ (p - b) % 2 = 1
    BY <1>0 DEF InClause
  <1>2. /\ b + 3 < j /\ At(text, j - 1) = ")"
        /\ \A k \in b + 2..j - 2 :
             IF (k - b) % 2 = 0 THEN At(text, k) \in Dimensions \cup {"type"} ELSE At(text, k) = Comma
    BY DEF ByClause
  <1>3. Comma # ")"
    BY Marks
  <1>4. CASE p = j - 1
    <2>1. At(text, p) = ")"
      BY <1>2, <1>4
    <2>3. Move(AfterBy, p + 1)
      BY <1>3, <2>1 DEF LabelEnd, Here, Tok
    <2>4. cur'.st = AfterBy /\ cur'.pos = p + 1 /\ Alike(cur, cur')
      <3>1. AfterBy \in States /\ p + 1 \in Nat \ {0}
        BY <1>0 DEF AfterBy, States
      <3> QED BY <2>3, <3>1, Moved
    <2>5. Clause(text, cur', b, p + 1)
      BY <1>0, <2>1, <2>4, ClauseEnded, AlikeKeeps
    <2>6. p + 1 = j
      BY <1>0, <1>4
    <2> QED BY <2>4, <2>5, <2>6 DEF Past
  <1>5. CASE p # j - 1
    <2>1. p \in b + 2..j - 2
      BY <1>0, <1>1, <1>5
    <2>2. At(text, p) = Comma
      BY <1>1, <1>2, <2>1
    <2>3. Move("label", p + 1)
      BY <1>3, <2>2 DEF LabelEnd, Here, Tok
    <2>4. cur'.st = "label" /\ cur'.pos = p + 1 /\ Alike(cur, cur')
      BY <1>0, <2>3, Moved DEF States
    <2>5. InClause(text, cur', b)
      BY <1>0, <2>2, <2>3, CommaAdded
    <2>6. cur'.pos < j
      BY <1>0, <2>1, <2>4
    <2> QED BY <2>4, <2>5, <2>6 DEF Within, ByStates, Alike
  <1> QED BY <1>4, <1>5

-----------------------------------------------------------------------------
(* The cursor follows every reading of the text.                              *)

LEMMA WrapperTracks ==
  ASSUME ParserInv(text, cur), Wrapper, NEW h, NEW i, NEW m, NEW f, NEW r,
         IsReading(text, h, i, m, f, r), Track(text, cur, h, i, m, f, r)
  PROVE  Track(text, cur', h, i, m, f, r)
  <1>0. /\ cur.st = "wrapper" /\ cur \in Cursor /\ text \in Seq(Tokens) /\ Shape(text, cur)
        /\ Len(text) \in Nat
    BY Basics DEF Wrapper, In
  <1>1. Blank(cur) /\ cur.pos = 1 /\ cur.labels = <<>>
    BY <1>0 DEF Shape
  <1>2. /\ h \in {"none", "sum", "sum_by"} /\ i \in Nat \ {0} /\ m \in Nat \ {0}
        /\ f \in Nat \ {0} /\ r \in Nat \ {0} /\ i <= Len(text)
        /\ f = m + 1 \/ At(text, m + 1) = LBrace
        /\ f = m + 1 => At(text, m + 1) \in Ending \cup {"[1d]"}
    BY <1>0, Places
  <1>3. Opening(text, h, i) /\ Call(text, i, m) /\ At(text, m) \in Metrics
    BY DEF IsReading, Reading
  <1>4. At(text, 1) # "end"
    BY <1>0, <1>2, Ends
  <1>5. At(text, m + 1) # "("
    BY <1>2, EndingTokens
  <1>6. /\ h = "sum" => At(text, 1) = "sum" /\ At(text, 2) = "(" /\ i = 3
        /\ h = "sum_by" => At(text, 2) = "by" /\ ByClause(text, 2, i - 1)
        /\ h = "none" => i = 1
    BY <1>3 DEF Opening, ByClause
  <1>7. h = "none" /\ At(text, 2) = "(" => At(text, 1) = "increase"
    BY <1>3, <1>5, <1>6 DEF Call
  <1>8. ASSUME At(text, 2) = "(", At(text, 1) # "increase", Wrap(2, <<>>)
        PROVE  Track(text, cur', h, i, m, f, r)
    <2>1. h = "sum"
      BY <1>2, <1>6, <1>7, <1>8
    <2>2. cur' = Wrapped(cur, 2, <<>>)
      BY <1>6, <1>8, <2>1 DEF Wrap, Tok, Wrapped
    <2>3. cur'.st = "function" /\ cur'.pos = 3 /\ cur'.open = 1 /\ cur'.haveBy = (<<>> # <<>>)
      BY <1>0, <2>2 DEF Wrapped, Cursor
    <2>4. Headed(cur', h)
      BY <2>1, <2>3 DEF Headed
    <2> QED BY <1>6, <2>1, <2>3, <2>4 DEF Track, ByStates
  <1>9. ASSUME At(text, 2) = "by", cur' = ToBy(cur, 3, "wrapper")
        PROVE  Track(text, cur', h, i, m, f, r)
    <2>1. cur'.st = "by" /\ cur'.pos = 3 /\ cur'.ret = "wrapper"
      <3>1. cur \in Cursor /\ cur' = ToBy(cur, 3, "wrapper")
        BY <1>0, <1>9
      <3> QED BY <3>1, ByUpdate
    <2>2. h # "sum"
      BY <1>6, <1>9
    <2>3. CASE h = "none"
      <3>1. m = 1
        BY <1>3, <1>6, <1>9, <2>3 DEF Call
      <3>2. f = 2
        <4>1. LBrace # "by"
          BY Marks DEF Idents
        <4> QED BY <1>2, <1>9, <3>1, <4>1
      <3>3. r = 2
        <4>1. r = f \/ (r = f + 1 /\ At(text, f) = "[1d]")
          BY <1>0, Places
        <4> QED BY <1>9, <3>2, <4>1
      <3>4. Parentheses(h, i, m) = 0
        BY <1>6, <2>3, <3>1 DEF Parentheses
      <3>5. r + Parentheses(h, i, m) = 2
        BY <3>3, <3>4
      <3>6. ByClause(text, 2, Len(text) + 1)
        <4>1. LET e == r + Parentheses(h, i, m) IN
                At(text, e) = "by" => ByClause(text, e, Len(text) + 1)
          BY <1>0, Places
        <4> QED BY <1>9, <3>5, <4>1
      <3>7. 3 < Len(text) + 1
        BY <1>0, <3>6 DEF ByClause
      <3>8. LeadEnd(text, h, i) = Len(text) + 1 /\ Leading(text, h, i)
        BY <1>6, <2>3, <3>6 DEF LeadEnd, Leading
      <3> QED BY <2>1, <3>7, <3>8 DEF Track, ByStates
    <2>4. CASE h = "sum_by"
      <3>1. LeadEnd(text, h, i) = i - 1 /\ Leading(text, h, i)
        BY <1>6, <2>4 DEF LeadEnd, Leading
      <3>2. 3 < i - 1
        BY <1>2, <1>6, <2>4 DEF ByClause
      <3> QED BY <2>1, <3>1, <3>2 DEF Track, ByStates
    <2> QED BY <1>2, <2>2, <2>3, <2>4
  <1>10. ASSUME At(text, 1) \in Idents => At(text, 2) # "by" /\ (At(text, 2) = "(" => At(text, 1) = "increase"),
                Move("function", 1)
         PROVE  Track(text, cur', h, i, m, f, r)
    <2>1. cur'.st = "function" /\ cur'.pos = 1 /\ Alike(cur, cur')
      BY <1>10, Moved DEF States
    <2>2. "sum" \in Idents /\ "sum" # "increase"
      BY DEF Idents
    <2>3. h = "sum_by" => At(text, 1) = "sum"
      BY <1>3 DEF Opening
    <2>4. h = "none"
      BY <1>2, <1>6, <1>10, <2>2, <2>3
    <2>5. Headed(cur', h) /\ cur'.open = 0
      BY <1>1, <2>1, <2>4 DEF Headed, Alike, Blank
    <2> QED BY <1>6, <2>1, <2>4, <2>5 DEF Track, ByStates
  <1> QED BY <1>1, <1>4, <1>8, <1>9, <1>10 DEF Wrapper, Here, Tok, ToBy

LEMMA WrapperByTracks ==
  ASSUME ParserInv(text, cur), WrapperBy, NEW h, NEW i, NEW m, NEW f, NEW r,
         IsReading(text, h, i, m, f, r), Track(text, cur, h, i, m, f, r)
  PROVE  Track(text, cur', h, i, m, f, r)
  <1> DEFINE p == cur.pos
  <1>0. /\ cur.st = "wrapper_by" /\ cur \in Cursor /\ text \in Seq(Tokens) /\ Shape(text, cur)
        /\ Len(text) \in Nat /\ p \in Nat \ {0}
    BY Basics DEF WrapperBy, In
  <1>1. Blank(cur) /\ Clause(text, cur, 2, p)
    BY <1>0 DEF Shape
  <1>2. Leading(text, h, i) /\ p = LeadEnd(text, h, i)
    BY <1>0 DEF Track
  <1>3. h \in {"none", "sum_by"} /\ i \in Nat \ {0}
    BY <1>0, <1>2, Places DEF Leading
  <1>4. Opening(text, h, i)
    BY DEF IsReading, Reading
  <1>5. h = "none" => i = 1 /\ At(text, p) = "end"
    <2>1. h = "none" => i = 1 /\ p = Len(text) + 1
      BY <1>2 DEF Leading, LeadEnd
    <2> QED BY <1>0, <2>1 DEF At
  <1>6. h = "sum_by" => At(text, 1) = "sum" /\ At(text, p) = "(" /\ p + 1 = i
    <2>1. h = "sum_by" => p = i - 1
      BY <1>2 DEF LeadEnd
    <2> QED BY <1>3, <1>4, <2>1 DEF Opening
  <1>7. CASE h = "none"
    <2>1. cur' = Rewound(cur)
      BY <1>5, <1>7 DEF WrapperBy, Here, Tok, Rewound
    <2>2. cur'.st = "function" /\ cur'.pos = 1 /\ cur'.haveBy = cur.haveBy /\ cur'.open = cur.open
      BY <1>0, <2>1, RewindUpdate
    <2>3. Headed(cur', h) /\ cur'.open = 0
      BY <1>1, <1>7, <2>2 DEF Headed, Blank
    <2> QED BY <1>5, <1>7, <2>2, <2>3 DEF Track, ByStates
  <1>8. CASE h = "sum_by"
    <2>1. cur' = Wrapped(cur, p, cur.labels)
      BY <1>6, <1>8 DEF WrapperBy, Wrap, Here, Tok, Wrapped
    <2>2. /\ cur'.st = "function" /\ cur'.pos = p + 1 /\ cur'.open = 1
          /\ cur'.labels = cur.labels /\ cur'.haveBy = (cur.labels # <<>>)
      BY <1>0, <2>1 DEF Wrapped, Cursor
    <2>3. cur.labels # <<>>
      BY <1>0, <1>1, ClauseNames
    <2>4. cur'.haveBy
      BY <2>2, <2>3
    <2>5. Supported(Chosen(cur'))
      <3>1. ByClause(text, 2, p)
        BY <1>2 DEF Leading
      <3>2. Supported(Chosen(cur))
        BY <1>0, <1>1, <3>1, SupportedBy
      <3> QED BY <2>2, <3>2, LabelSetStays DEF Chosen
    <2>6. Headed(cur', h)
      BY <1>8, <2>4, <2>5 DEF Headed
    <2> QED BY <1>6, <1>8, <2>2, <2>6 DEF Track, ByStates
  <1> QED BY <1>3, <1>7, <1>8

LEMMA RangeFunctionTracks ==
  ASSUME ParserInv(text, cur), RangeFunction, NEW h, NEW i, NEW m, NEW f, NEW r,
         IsReading(text, h, i, m, f, r), Track(text, cur, h, i, m, f, r)
  PROVE  Track(text, cur', h, i, m, f, r)
  <1>0. cur.st = "function" /\ cur \in Cursor /\ text \in Seq(Tokens) /\ cur.open \in Nat
    BY Basics DEF RangeFunction, In
  <1>1. Headed(cur, h) /\ cur.pos = i /\ cur.open = (IF h = "none" THEN 0 ELSE 1)
    BY <1>0 DEF Track
  <1>2. /\ i \in Nat \ {0} /\ m \in Nat \ {0}
        /\ f = m + 1 \/ At(text, m + 1) = LBrace
        /\ f = m + 1 => At(text, m + 1) \in Ending \cup {"[1d]"}
    BY <1>0, Places
  <1>3. Call(text, i, m) /\ At(text, m) \in Metrics
    BY DEF IsReading, Reading
  <1>4. At(text, m + 1) # "(" /\ "increase" \in Idents
    BY <1>2, EndingTokens DEF Idents
  <1>5. CASE m = i
    <2>1. Move("metric", cur.pos)
      BY <1>1, <1>4, <1>5 DEF RangeFunction, Here, Tok
    <2>2. cur'.st = "metric" /\ cur'.pos = i /\ Alike(cur, cur')
      BY <1>1, <1>2, <2>1, Moved DEF States
    <2>3. Headed(cur', h)
      BY <1>1, <2>2, AlikeKeeps DEF Headed, Alike, Chosen
    <2>4. cur'.open = Parentheses(h, i, m)
      BY <1>1, <1>5, <2>2 DEF Alike, Parentheses
    <2> QED BY <1>5, <2>2, <2>3, <2>4 DEF Track, ByStates
  <1>6. CASE m # i
    <2>1. At(text, i) = "increase" /\ At(text, i + 1) = "(" /\ m = i + 2
      BY <1>3, <1>6 DEF Call
    <2>2. cur' = Called(cur)
      BY <1>1, <1>4, <2>1 DEF RangeFunction, Here, Tok, Called
    <2>3. /\ cur'.st = "metric" /\ cur'.pos = cur.pos + 2 /\ cur'.open = cur.open + 1
          /\ cur'.haveBy = cur.haveBy /\ cur'.labels = cur.labels
      BY <1>0, <2>2, CallUpdate
    <2>4. Headed(cur', h)
      BY <1>1, <2>3, LabelSetStays DEF Headed, Chosen
    <2>5. cur'.open = Parentheses(h, i, m)
      BY <1>1, <1>6, <2>3 DEF Parentheses
    <2> QED BY <1>1, <2>1, <2>3, <2>4, <2>5 DEF Track, ByStates
  <1> QED BY <1>5, <1>6

LEMMA MetricTracks ==
  ASSUME ParserInv(text, cur), Metric, NEW h, NEW i, NEW m, NEW f, NEW r,
         IsReading(text, h, i, m, f, r), Track(text, cur, h, i, m, f, r)
  PROVE  Track(text, cur', h, i, m, f, r)
  <1> DEFINE x == IF At(text, m + 1) = LBrace THEN "open" ELSE "range"
  <1>0. cur.st = "metric" /\ cur \in Cursor /\ text \in Seq(Tokens)
    BY Basics DEF Metric, In
  <1>1. Headed(cur, h) /\ cur.open = Parentheses(h, i, m) /\ cur.pos = m
    BY <1>0 DEF Track
  <1>2. /\ f = m + 1 \/ (At(text, m + 1) = LBrace /\ Filters(text, m + 1, f))
        /\ f = m + 1 => At(text, m + 1) \in Ending \cup {"[1d]"}
    BY <1>0, Places
  <1>3. At(text, m) \in Metrics
    BY DEF IsReading, Reading
  <1>4. cur' = Measured(cur, x, At(text, m))
    BY <1>1, <1>3 DEF Metric, Here, Tok, Measured
  <1>5. x \in {"open", "range"}
    OBVIOUS
  <1>6. /\ cur'.st = x /\ cur'.pos = m + 1 /\ cur'.open = cur.open
        /\ cur'.haveBy = cur.haveBy /\ cur'.labels = cur.labels
    <2> HIDE DEF x
    <2> QED BY <1>0, <1>1, <1>3, <1>4, <1>5, MetricUpdate
  <1>7. Headed(cur', h)
    BY <1>1, <1>6, LabelSetStays DEF Headed, Chosen
  <1>8. CASE At(text, m + 1) = LBrace
    <2>1. cur'.st = "open" /\ Filters(text, m + 1, f)
      BY <1>2, <1>6, <1>8, EndingTokens
    <2> QED BY <1>1, <1>6, <1>7, <2>1 DEF Track, ByStates
  <1>9. CASE At(text, m + 1) # LBrace
    <2>1. cur'.st = "range" /\ f = m + 1
      BY <1>2, <1>6, <1>9
    <2> QED BY <1>1, <1>6, <1>7, <2>1 DEF Track, ByStates
  <1> QED BY <1>8, <1>9

LEMMA FilterOpensTracks ==
  ASSUME ParserInv(text, cur), FilterOpens, NEW h, NEW i, NEW m, NEW f, NEW r,
         IsReading(text, h, i, m, f, r), Track(text, cur, h, i, m, f, r)
  PROVE  Track(text, cur', h, i, m, f, r)
  <1>0. /\ cur.st = "open" /\ cur \in Cursor /\ text \in Seq(Tokens) /\ Shape(text, cur)
        /\ cur.pos \in Nat \ {0}
    BY Basics DEF FilterOpens, In
  <1>1. /\ Headed(cur, h) /\ cur.open = Parentheses(h, i, m) /\ cur.pos = m + 1
        /\ Filters(text, m + 1, f)
    BY <1>0 DEF Track
  <1>2. m \in Nat \ {0} /\ f \in Nat \ {0}
    BY <1>0, Places
  <1>3. cur'.st = "filter" /\ cur'.pos = m + 1 + 1 /\ Alike(cur, cur')
    BY <1>0, <1>1, Moved DEF FilterOpens, States
  <1>4. cur.provider = "none"
    BY <1>0 DEF Shape, Early
  <1>5. Offered(text, cur', m + 2, cur'.pos - 1)
    BY <1>3, <1>4 DEF Offered, Alike
  <1>6. m + 1 < cur'.pos /\ cur'.pos < f /\ (cur'.pos - (m + 1)) % 4 = 1
    <2>1. m + 1 + 1 < f
      BY <1>1 DEF Filters
    <2> QED BY <1>2, <1>3, <2>1
  <1>7. Headed(cur', h) /\ cur'.open = Parentheses(h, i, m)
    BY <1>1, <1>3, AlikeKeeps DEF Headed, Alike, Chosen
  <1> QED BY <1>1, <1>3, <1>5, <1>6, <1>7 DEF Track, ByStates

(* Among the matchers of a filter list from i up to j: where a key is, its    *)
(* matcher and its value follow, and every value is the one that was kept.    *)
LEMMA Quarters ==
  ASSUME NEW i \in Nat, NEW j \in Nat, NEW p \in Nat, i < p, p < j, (j - i) % 4 \in {1, 2}
  PROVE  /\ (p - i) % 4 = 1 /\ p # j - 1 =>
              p + 2 <= j - 2 /\ (p + 1 - i) % 4 = 2 /\ (p + 2 - i) % 4 = 3 /\ (p + 3 - i) % 4 = 0
         /\ (p - i) % 4 = 0 => (p + 1 - i) % 4 = 1
  <1> DEFINE d == p - i
             n == j - i
  <1>1. /\ d \in Nat /\ n \in Nat /\ d < n /\ n % 4 \in {1, 2}
        /\ p + 1 - i = d + 1 /\ p + 2 - i = d + 2 /\ p + 3 - i = d + 3
        /\ (p # j - 1 <=> d # n - 1) /\ (p + 2 <= j - 2 <=> d + 2 <= n - 2)
    OBVIOUS
  <1>2. /\ d % 4 = 1 /\ d # n - 1 =>
             d + 2 <= n - 2 /\ (d + 1) % 4 = 2 /\ (d + 2) % 4 = 3 /\ (d + 3) % 4 = 0
        /\ d % 4 = 0 => (d + 1) % 4 = 1
    <2> HIDE DEF d, n
    <2> QED BY <1>1
  <1> HIDE DEF n
  <1> QED BY <1>1, <1>2

LEMMA FilterTokens ==
  ASSUME NEW s, NEW i \in Nat, NEW j \in Nat, NEW p \in Nat, Filters(s, i, j), i < p, p < j
  PROVE  /\ p = j - 1 => At(s, p) = RBrace
         /\ p # j - 1 /\ (p - i) % 4 = 1 => At(s, p) = "provider"
         /\ p # j - 1 /\ (p - i) % 4 = 2 => At(s, p) = "="
         /\ p # j - 1 /\ (p - i) % 4 = 3 => At(s, p) \in Quoted \ {"''"}
         /\ p # j - 1 /\ (p - i) % 4 = 0 => At(s, p) = Comma
  <1>1. /\ At(s, j - 1) = RBrace
        /\ \A k \in i + 1..j - 2 : Matcher(s, i, k)
    BY DEF Filters, Matcher
  <1>2. p # j - 1 => p \in i + 1..j - 2
    OBVIOUS
  <1>3. p # j - 1 => Matcher(s, i, p)
    BY <1>1, <1>2
  <1> DEFINE d == (p - i) % 4
  <1>4. Matcher(s, i, p) => /\ d = 1 => At(s, p) = "provider"
                            /\ d = 2 => At(s, p) = "="
                            /\ d = 3 => At(s, p) \in Quoted \ {"''"}
                            /\ d = 0 => At(s, p) = Comma
    <2>1. Matcher(s, i, p) =>
            At(s, p) \in CASE d = 1 -> {"provider"} [] d = 2 -> {"="}
                           [] d = 3 -> Quoted \ {"''"} [] d = 0 -> {Comma}
      BY DEF Matcher
    <2> HIDE DEF d
    <2> QED BY <2>1
  <1> QED BY <1>1, <1>3, <1>4

LEMMA FilterTracks ==
  ASSUME ParserInv(text, cur), Filter, NEW h, NEW i, NEW m, NEW f, NEW r,
         IsReading(text, h, i, m, f, r), Track(text, cur, h, i, m, f, r)
  PROVE  Track(text, cur', h, i, m, f, r)
  <1> DEFINE p == cur.pos
             b == m + 1
  <1>0. /\ cur.st = "filter" /\ cur \in Cursor /\ text \in Seq(Tokens)
        /\ p \in Nat \ {0} /\ cur.provider \in Quoted \cup {"none"}
    BY Basics DEF Filter, In
  <1>1. /\ Headed(cur, h) /\ cur.open = Parentheses(h, i, m)
        /\ Filters(text, b, f) /\ b < p /\ p < f /\ (p - b) % 4 = 1
        /\ Offered(text, cur, m + 2, p - 1)
    BY <1>0 DEF Track
  <1>2. m \in Nat \ {0} /\ f \in Nat \ {0} /\ b \in Nat
    BY <1>0, Places
  <1>3. (f - b) % 4 \in {1, 2}
    BY <1>1 DEF Filters
  <1>4. "provider" # RBrace
    BY Marks DEF Idents
  <1>7. /\ m \in Nat /\ f \in Nat /\ p \in Nat /\ b \in Nat /\ b = m + 1
        /\ b < p /\ p < f
    BY <1>0, <1>1, <1>2
  <1>5. CASE p = f - 1
    <2>1. At(text, p) = RBrace
      BY <1>0, <1>1, <1>2, <1>5, FilterTokens
    <2>2. Move("range", p + 1)
      BY <1>4, <2>1 DEF Filter, Here, Tok
    <2>3. cur'.st = "range" /\ cur'.pos = p + 1 /\ Alike(cur, cur')
      BY <1>0, <2>2, Moved DEF States
    <2>4. Headed(cur', h) /\ cur'.open = Parentheses(h, i, m)
      BY <1>1, <2>3, AlikeKeeps DEF Headed, Alike, Chosen
    <2>5. cur'.pos = f
      BY <1>2, <1>5, <2>3
    <2> QED BY <2>3, <2>4, <2>5 DEF Track, ByStates
  <1>6. CASE p # f - 1
    <2>1. p + 2 <= f - 2 /\ (p + 1 - b) % 4 = 2 /\ (p + 2 - b) % 4 = 3 /\ (p + 3 - b) % 4 = 0
      <3> HIDE DEF b
      <3> QED BY <1>0, <1>1, <1>2, <1>3, <1>6, Quarters
    <2>11. p + 2 <= f - 2
      BY <2>1
    <2>2. At(text, p) = "provider"
      <3> HIDE DEF b
      <3> QED BY <1>0, <1>1, <1>2, <1>6, FilterTokens
    <2>3. At(text, p + 1) = "="
      <3> DEFINE q == p + 1
      <3>1. q \in Nat /\ b < q /\ q < f /\ q # f - 1
        BY <1>7, <2>11
      <3>3. (q - b) % 4 = 2
        <4> HIDE DEF b
        <4> QED BY <1>7, <2>1
      <3> HIDE DEF q, b
      <3>2. At(text, q) = "="
        BY <1>1, <1>2, <3>1, <3>3, FilterTokens
      <3> QED BY <3>2 DEF q
    <2>4. At(text, p + 2) \in Quoted \ {"''"}
      <3> DEFINE q == p + 2
      <3>1. q \in Nat /\ b < q /\ q < f /\ q # f - 1
        BY <1>7, <2>11
      <3>3. (q - b) % 4 = 3
        <4> HIDE DEF b
        <4> QED BY <1>7, <2>1
      <3> HIDE DEF q, b
      <3>2. At(text, q) \in Quoted \ {"''"}
        BY <1>1, <1>2, <3>1, <3>3, FilterTokens
      <3> QED BY <3>2 DEF q
    <2>5. ~Conflicting(At(text, p + 2))
      <3>1. SUFFICES ASSUME cur.provider # "none" PROVE cur.provider = At(text, p + 2)
        BY DEF Conflicting
      <3>2. PICK k \in m + 2..p - 1 : At(text, k) = cur.provider
        BY <1>1, <3>1 DEF Offered
      <3>3. k \in b + 1..f - 2 /\ p + 2 \in b + 1..f - 2
        BY <1>7, <2>11
      <3>4. cur.provider \in Quoted
        BY <1>0, <3>1
      <3>5. {At(text, k), At(text, p + 2)} \subseteq Quoted
        BY <2>4, <3>2, <3>4
      <3>6. \A v, w \in b + 1..f - 2 :
              {At(text, v), At(text, w)} \subseteq Quoted => At(text, v) = At(text, w)
        BY <1>1 DEF Filters
      <3>7. At(text, k) = At(text, p + 2)
        BY <3>3, <3>5, <3>6
      <3> QED BY <3>2, <3>7
    <2>6. cur' = Provided(cur, At(text, p + 2))
      BY <1>4, <2>2, <2>3, <2>4, <2>5 DEF Filter, Here, Tok, Provided
    <2>7. /\ cur'.st = "filter_end" /\ cur'.pos = p + 3 /\ cur'.open = cur.open
          /\ cur'.haveBy = cur.haveBy /\ cur'.labels = cur.labels
          /\ cur'.provider = At(text, p + 2)
      <3>1. At(text, p + 2) \in Quoted
        BY <2>4
      <3> QED BY <1>0, <2>6, <3>1, ProviderUpdate
    <2>8. Headed(cur', h) /\ cur'.open = Parentheses(h, i, m)
      BY <1>1, <2>7, LabelSetStays DEF Headed, Chosen
    <2>9. Offered(text, cur', m + 2, cur'.pos - 1)
      <3>1. p + 2 \in m + 2..p + 3 - 1
        BY <1>7
      <3>2. cur'.pos - 1 = p + 3 - 1
        BY <1>7, <2>7
      <3> QED BY <2>7, <3>1, <3>2 DEF Offered
    <2>10. m + 1 < cur'.pos /\ cur'.pos < f /\ (cur'.pos - (m + 1)) % 4 = 0
      <3>1. m + 1 < p + 3 /\ p + 3 < f
        BY <1>7, <2>11
      <3>2. (p + 3 - (m + 1)) % 4 = 0
        BY <2>1
      <3>3. cur'.pos = p + 3 /\ cur'.pos \in Nat
        BY <1>7, <2>7
      <3> HIDE DEF p, b
      <3> QED BY <1>7, <3>1, <3>2, <3>3
    <2> QED BY <1>1, <2>7, <2>8, <2>9, <2>10 DEF Track, ByStates
  <1> QED BY <1>5, <1>6

LEMMA FilterEndTracks ==
  ASSUME ParserInv(text, cur), FilterEnd, NEW h, NEW i, NEW m, NEW f, NEW r,
         IsReading(text, h, i, m, f, r), Track(text, cur, h, i, m, f, r)
  PROVE  Track(text, cur', h, i, m, f, r)
  <1> DEFINE p == cur.pos
             b == m + 1
  <1>0. /\ cur.st = "filter_end" /\ cur \in Cursor /\ text \in Seq(Tokens) /\ p \in Nat \ {0}
    BY Basics DEF FilterEnd, In
  <1>1. /\ Headed(cur, h) /\ cur.open = Parentheses(h, i, m)
        /\ Filters(text, b, f) /\ b < p /\ p < f /\ (p - b) % 4 = 0
        /\ Offered(text, cur, m + 2, p - 1)
    BY <1>0 DEF Track
  <1>2. m \in Nat \ {0} /\ f \in Nat \ {0} /\ b \in Nat
    BY <1>0, Places
  <1>3. (f - b) % 4 \in {1, 2}
    BY <1>1 DEF Filters
  <1>4. Comma # RBrace
    BY Marks
  <1>7. /\ m \in Nat /\ f \in Nat /\ p \in Nat /\ b \in Nat /\ b = m + 1
        /\ b < p /\ p < f
    BY <1>0, <1>1, <1>2
  <1>5. CASE p = f - 1
    <2>1. At(text, p) = RBrace
      BY <1>0, <1>1, <1>2, <1>5, FilterTokens
    <2>2. Move("range", p + 1)
      BY <1>4, <2>1 DEF FilterEnd, Here, Tok
    <2>3. cur'.st = "range" /\ cur'.pos = p + 1 /\ Alike(cur, cur')
      BY <1>0, <2>2, Moved DEF States
    <2>4. Headed(cur', h) /\ cur'.open = Parentheses(h, i, m)
      BY <1>1, <2>3, AlikeKeeps DEF Headed, Alike, Chosen
    <2>5. cur'.pos = f
      BY <1>2, <1>5, <2>3
    <2> QED BY <2>3, <2>4, <2>5 DEF Track, ByStates
  <1>6. CASE p # f - 1
    <2>1. (p + 1 - b) % 4 = 1
      <3> HIDE DEF b
      <3> QED BY <1>0, <1>1, <1>2, <1>3, Quarters
    <2>2. At(text, p) = Comma
      <3> HIDE DEF b
      <3> QED BY <1>0, <1>1, <1>2, <1>6, FilterTokens
    <2>3. Move("filter", p + 1)
      BY <1>4, <2>2 DEF FilterEnd, Here, Tok
    <2>4. cur'.st = "filter" /\ cur'.pos = p + 1 /\ Alike(cur, cur')
      BY <1>0, <2>3, Moved DEF States
    <2>5. Headed(cur', h) /\ cur'.open = Parentheses(h, i, m)
      BY <1>1, <2>4, AlikeKeeps DEF Headed, Alike, Chosen
    <2>6. Offered(text, cur', m + 2, cur'.pos - 1)
      <3>1. m + 2..p - 1 \subseteq m + 2..p + 1 - 1
        BY <1>7
      <3>2. cur'.provider = cur.provider /\ cur'.pos - 1 = p + 1 - 1
        BY <1>7, <2>4 DEF Alike
      <3>3. Offered(text, cur, m + 2, p - 1)
        BY <1>1
      <3> QED BY <3>1, <3>2, <3>3 DEF Offered
    <2>7. m + 1 < cur'.pos /\ cur'.pos < f /\ (cur'.pos - (m + 1)) % 4 = 1
      <3>1. m + 1 < p + 1 /\ p + 1 < f
        BY <1>6, <1>7
      <3>2. (p + 1 - (m + 1)) % 4 = 1
        BY <2>1
      <3>3. cur'.pos = p + 1 /\ cur'.pos \in Nat
        BY <1>7, <2>4
      <3> HIDE DEF p, b
      <3> QED BY <1>7, <3>1, <3>2, <3>3
    <2> QED BY <1>1, <2>4, <2>5, <2>6, <2>7 DEF Track, ByStates
  <1> QED BY <1>5, <1>6

LEMMA RangeSelectorTracks ==
  ASSUME ParserInv(text, cur), RangeSelector, NEW h, NEW i, NEW m, NEW f, NEW r,
         IsReading(text, h, i, m, f, r), Track(text, cur, h, i, m, f, r)
  PROVE  Track(text, cur', h, i, m, f, r)
  <1>0. cur.st = "range" /\ cur \in Cursor /\ text \in Seq(Tokens)
    BY Basics DEF RangeSelector, In
  <1>1. Headed(cur, h) /\ cur.open = Parentheses(h, i, m) /\ cur.pos = f
    BY <1>0 DEF Track
  <1>2. /\ f \in Nat \ {0}
        /\ r = f \/ (r = f + 1 /\ At(text, f) = "[1d]")
        /\ r = f => At(text, f) \in Ending
    BY <1>0, Places
  <1>3. CASE At(text, f) = "[1d]"
    <2>1. cur' = Ranged(cur)
      <3>1. "[1d]" # "[?]"
        OBVIOUS
      <3> QED BY <1>1, <1>3, <3>1 DEF RangeSelector, Here, Tok, Ranged
    <2>2. /\ cur'.st = "offset" /\ cur'.pos = f + 1 /\ cur'.open = cur.open
          /\ cur'.haveBy = cur.haveBy /\ cur'.labels = cur.labels
      BY <1>0, <1>1, <2>1, RangeUpdate
    <2>3. Headed(cur', h) /\ r = f + 1
      BY <1>1, <1>2, <1>3, <2>2, EndingTokens, LabelSetStays DEF Headed, Chosen
    <2> QED BY <1>1, <2>2, <2>3 DEF Track, ByStates
  <1>4. CASE At(text, f) # "[1d]"
    <2>1. r = f /\ At(text, f) # "[?]"
      BY <1>2, <1>4, EndingTokens
    <2>2. Move("offset", f)
      BY <1>1, <1>4, <2>1 DEF RangeSelector, Here, Tok
    <2>3. cur'.st = "offset" /\ cur'.pos = f /\ Alike(cur, cur')
      BY <1>2, <2>2, Moved DEF States
    <2>4. Headed(cur', h) /\ cur'.open = Parentheses(h, i, m)
      BY <1>1, <2>3, AlikeKeeps DEF Headed, Alike, Chosen
    <2> QED BY <2>1, <2>3, <2>4 DEF Track, ByStates
  <1> QED BY <1>3, <1>4

LEMMA OffsetTracks ==
  ASSUME ParserInv(text, cur), Offset, NEW h, NEW i, NEW m, NEW f, NEW r,
         IsReading(text, h, i, m, f, r), Track(text, cur, h, i, m, f, r)
  PROVE  Track(text, cur', h, i, m, f, r)
  <1>0. cur.st = "offset" /\ cur \in Cursor /\ text \in Seq(Tokens)
    BY Basics DEF Offset, In
  <1>1. Headed(cur, h) /\ cur.open = Parentheses(h, i, m) /\ cur.pos = r
    BY <1>0 DEF Track
  <1>2. r \in Nat \ {0} /\ At(text, r) \in Ending
    BY <1>0, Places
  <1>3. Move("close", r)
    BY <1>1, <1>2, EndingTokens DEF Offset, Here, Tok
  <1>4. cur'.st = "close" /\ cur'.pos = r /\ Alike(cur, cur')
    BY <1>2, <1>3, Moved DEF States
  <1>5. Headed(cur', h) /\ cur'.open = Parentheses(h, i, m)
    BY <1>1, <1>4, AlikeKeeps DEF Headed, Alike, Chosen
  <1> QED BY <1>4, <1>5 DEF Track, ByStates

LEMMA CloseTracks ==
  ASSUME ParserInv(text, cur), Close, NEW h, NEW i, NEW m, NEW f, NEW r,
         IsReading(text, h, i, m, f, r), Track(text, cur, h, i, m, f, r)
  PROVE  Track(text, cur', h, i, m, f, r)
  <1> DEFINE e == r + Parentheses(h, i, m)
  <1>0. cur.st = "close" /\ cur \in Cursor /\ text \in Seq(Tokens)
    BY Basics DEF Close, In
  <1>1. Headed(cur, h) /\ cur.open = Parentheses(h, i, m) /\ cur.pos = r
    BY <1>0 DEF Track
  <1>2. r \in Nat \ {0} /\ e \in Nat \ {0} /\ Parentheses(h, i, m) \in Nat
    BY <1>0, Places
  <1>3. \A k \in r..e - 1 : At(text, k) = ")"
    BY DEF IsReading, Reading
  <1>4. \A k \in 0..cur.open - 1 : At(text, cur.pos + k) = ")"
    <2>1. TAKE k \in 0..cur.open - 1
    <2>2. r + k \in r..e - 1
      BY <1>1, <1>2
    <2> QED BY <1>1, <1>3, <2>2
  <1>5. Move("trailing", e)
    BY <1>1, <1>4 DEF Close, Tok
  <1>6. cur'.st = "trailing" /\ cur'.pos = e /\ Alike(cur, cur')
    <2> HIDE DEF e
    <2> QED BY <1>2, <1>5, Moved DEF States
  <1>7. Headed(cur', h)
    BY <1>1, <1>6, AlikeKeeps DEF Headed, Alike, Chosen
  <1> QED BY <1>6, <1>7 DEF Track, ByStates

LEMMA TrailingByTracks ==
  ASSUME ParserInv(text, cur), TrailingBy, NEW h, NEW i, NEW m, NEW f, NEW r,
         IsReading(text, h, i, m, f, r), Track(text, cur, h, i, m, f, r)
  PROVE  Track(text, cur', h, i, m, f, r)
  <1> DEFINE e == r + Parentheses(h, i, m)
  <1>0. /\ cur.st = "trailing" /\ cur \in Cursor /\ text \in Seq(Tokens) /\ Len(text) \in Nat
        /\ Shape(text, cur)
    BY Basics DEF TrailingBy, In
  <1>1. Headed(cur, h) /\ cur.pos = e
    BY <1>0 DEF Track
  <1>2. /\ e \in Nat \ {0} /\ At(text, e) \in {"by", "end"}
        /\ At(text, e) = "end" => e = Len(text) + 1
        /\ At(text, e) = "by" => h # "sum_by" /\ ByClause(text, e, Len(text) + 1)
    BY <1>0, Places
  <1>3. NoLabels(cur)
    BY <1>0 DEF Shape
  <1>4. CASE At(text, e) = "by"
    <2>1. h # "sum_by" /\ ByClause(text, e, Len(text) + 1) /\ ~cur.haveBy /\ cur.labels = <<>>
      BY <1>1, <1>2, <1>3, <1>4 DEF Headed, NoLabels
    <2>2. cur' = ToBy(cur, e + 1, "trailing")
      BY <1>1, <1>4, <2>1 DEF TrailingBy, Here, Tok, ToBy
    <2>3. cur'.st = "by" /\ cur'.pos = e + 1 /\ cur'.ret = "trailing" /\ cur'.labels = cur.labels
      <3> DEFINE q == e + 1
      <3>1. cur \in Cursor /\ q \in Nat \ {0} /\ cur' = ToBy(cur, q, "trailing")
        BY <1>0, <1>2, <2>2
      <3> HIDE DEF q
      <3>2. cur'.st = "by" /\ cur'.pos = q /\ cur'.ret = "trailing" /\ cur'.labels = cur.labels
        BY <3>1, ByUpdate
      <3> QED BY <3>2 DEF q
    <2>4. InClause(text, cur', e)
      BY <1>4, <2>1, <2>3 DEF InClause
    <2>5. e + 1 < Len(text) + 1
      BY <1>0, <1>2, <2>1 DEF ByClause
    <2> QED BY <2>1, <2>3, <2>4, <2>5 DEF Track, ByStates
  <1>5. CASE At(text, e) # "by"
    <2>1. e = Len(text) + 1
      BY <1>2, <1>5
    <2>2. Move("finish", e)
      BY <1>1, <1>5 DEF TrailingBy, Here, Tok
    <2>3. cur'.st = "finish" /\ cur'.pos = e /\ Alike(cur, cur')
      <3> HIDE DEF e
      <3> QED BY <1>2, <2>2, Moved DEF States
    <2>4. Supported(Chosen(cur))
      BY <1>1, <1>3, SupportedNone DEF Headed, NoLabels
    <2>5. Supported(Chosen(cur'))
      BY <2>3, <2>4, AlikeKeeps DEF Chosen
    <2> QED BY <2>1, <2>3, <2>5 DEF Track, ByStates
  <1> QED BY <1>4, <1>5

(* The clause the cursor is in is one of the reading. *)
LEMMA ClauseTracks ==
  ASSUME ParserInv(text, cur), ByOpens \/ Label \/ LabelEnd, NEW h, NEW i, NEW m, NEW f, NEW r,
         IsReading(text, h, i, m, f, r), Track(text, cur, h, i, m, f, r)
  PROVE  Track(text, cur', h, i, m, f, r)
  <1> DEFINE e == r + Parentheses(h, i, m)
  <1>0. /\ cur.st \in ByStates /\ text \in Seq(Tokens) /\ Len(text) \in Nat
    BY Basics DEF ByOpens, Label, LabelEnd, In, ByStates
  <1>1. ASSUME NEW b \in Nat, NEW j \in Nat, ByClause(text, b, j), InClause(text, cur, b),
               cur.pos < j
        PROVE  Within(b, j) \/ Past(b, j)
    BY <1>1, ByOpensGoes, LabelGoes, LabelEndGoes
  <1>2. i \in Nat \ {0} /\ e \in Nat \ {0}
    BY <1>0, Places
  <1>3. CASE cur.ret = "wrapper"
    <2> DEFINE j == LeadEnd(text, h, i)
    <2>1. Leading(text, h, i) /\ cur.pos < j
      BY <1>0, <1>3 DEF Track
    <2>2. InClause(text, cur, 2)
      BY <1>0, <1>3, ClauseBegan
    <2>3. ByClause(text, 2, j) /\ j \in Nat
      <3>1. ByClause(text, 2, j)
        BY <2>1 DEF Leading
      <3> QED BY <1>0, <1>2, <3>1 DEF LeadEnd
    <2> HIDE DEF j
    <2>4. Within(2, j) \/ Past(2, j)
      BY <1>1, <2>1, <2>2, <2>3
    <2>5. CASE Within(2, j)
      <3>1. cur'.st \in ByStates /\ cur'.pos < j /\ cur'.ret = "wrapper"
        BY <1>3, <2>5 DEF Within
      <3> QED BY <2>1, <3>1 DEF Track, ByStates, j
    <2>6. CASE Past(2, j)
      <3>1. cur'.st = "wrapper_by" /\ cur'.pos = j
        BY <1>3, <2>6 DEF Past, AfterBy
      <3> QED BY <2>1, <3>1 DEF Track, ByStates, j
    <2> QED BY <2>4, <2>5, <2>6
  <1>4. CASE cur.ret = "trailing"
    <2> DEFINE j == Len(text) + 1
    <2>1. /\ h # "sum_by" /\ ByClause(text, e, j) /\ InClause(text, cur, e) /\ cur.pos < j
      BY <1>0, <1>4 DEF Track
    <2>2. j \in Nat /\ e \in Nat
      BY <1>0, <1>2
    <2> HIDE DEF j, e
    <2>3. Within(e, j) \/ Past(e, j)
      BY <1>1, <2>1, <2>2
    <2>4. CASE Within(e, j)
      <3>1. cur'.st \in ByStates /\ cur'.pos < j /\ cur'.ret = "trailing" /\ InClause(text, cur', e)
        BY <1>4, <2>4 DEF Within
      <3> QED BY <2>1, <3>1 DEF Track, ByStates, j, e
    <2>5. CASE Past(e, j)
      <3>1. cur'.st = "finish" /\ cur'.pos = j /\ Clause(text, cur', e, j)
        BY <1>4, <2>5 DEF Past, AfterBy
      <3>2. Supported(Chosen(cur'))
        BY <2>1, <2>2, <3>1, SupportedBy
      <3> QED BY <3>1, <3>2 DEF Track, ByStates, j
    <2> QED BY <2>3, <2>4, <2>5
  <1> QED BY <1>0, <1>3, <1>4, ClauseBegan

LEMMA FinishTracks ==
  ASSUME ParserInv(text, cur), Finish, NEW h, NEW i, NEW m, NEW f, NEW r,
         IsReading(text, h, i, m, f, r), Track(text, cur, h, i, m, f, r)
  PROVE  Track(text, cur', h, i, m, f, r)
  <1>0. cur.st = "finish" /\ cur \in Cursor /\ Len(text) \in Nat /\ cur.pos \in Nat \ {0}
    BY Basics DEF Finish, In
  <1>1. cur.pos = Len(text) + 1 /\ Supported(Chosen(cur))
    BY <1>0 DEF Track
  <1>2. At(text, cur.pos) = "end"
    BY <1>0, <1>1 DEF At
  <1>3. Move("ok", cur.pos)
    BY <1>1, <1>2 DEF Finish, Here, Tok, Selected, Chosen, LabelSet
  <1>4. cur'.st = "ok"
    BY <1>0, <1>3, Moved DEF States
  <1> QED BY <1>4 DEF Track, ByStates

LEMMA ParseTracks ==
  ASSUME ParserInv(text, cur), Parse, NEW h, NEW i, NEW m, NEW f, NEW r,
         IsReading(text, h, i, m, f, r), Track(text, cur, h, i, m, f, r)
  PROVE  Track(text, cur', h, i, m, f, r)
  BY WrapperTracks, WrapperByTracks, RangeFunctionTracks, MetricTracks, FilterOpensTracks,
     FilterTracks, FilterEndTracks, RangeSelectorTracks, OffsetTracks, CloseTracks,
     TrailingByTracks, ClauseTracks, FinishTracks DEF Parse

-----------------------------------------------------------------------------
(* The parser accepts exactly the language.                                   *)

Tracks(s, c) ==
  \A h, i, m, f, r : IsReading(s, h, i, m, f, r) => Track(s, c, h, i, m, f, r)

ReadingInv == ParserInv(text, cur) /\ Tracks(text, cur)

LEMMA StartReads ==
  ASSUME NEW s \in Seq(Tokens)
  PROVE  ParserInv(s, Start) /\ Tracks(s, Start)
  <1>1. /\ Start.st = "wrapper" /\ Start.pos = 1 /\ Start.labels = <<>> /\ ~Start.haveBy
        /\ Start.open = 0 /\ ~Start.operator /\ ~Start.bucket /\ Start.provider = "none"
    BY DEF Start
  <1>2. Start \in Cursor
    <2>1. "wrapper" \in States /\ <<>> \in Seq(Idents)
      BY DEF States
    <2> QED BY <2>1 DEF Start, Cursor
  <1>3. Shape(s, Start)
    BY <1>1 DEF Shape, Blank, ByStates
  <1>4. Start.pos <= Len(s) + 1
    BY <1>1
  <1>5. \A h, i, m, f, r : Track(s, Start, h, i, m, f, r)
    BY <1>1 DEF Track, ByStates
  <1> QED BY <1>2, <1>3, <1>4, <1>5 DEF ParserInv, Tracks

(* A text that has a reading is not refused. *)
LEMMA RefusedNotInLanguage ==
  ASSUME ReadingInv, In("refused")
  PROVE  ~InLanguage(text)
  <1>1. SUFFICES ASSUME InLanguage(text) PROVE FALSE
    OBVIOUS
  <1>2. PICK h \in {"none", "sum", "sum_by"}, i \in 1..Len(text) :
          \E m \in {i, i + 2} : \E f \in m + 1..Len(text) + 1 : \E r \in {f, f + 1} :
            Reading(text, h, i, m, f, r)
    BY <1>1 DEF InLanguage
  <1>3. PICK m \in {i, i + 2} : \E f \in m + 1..Len(text) + 1 : \E r \in {f, f + 1} :
          Reading(text, h, i, m, f, r)
    BY <1>2
  <1>4. PICK f \in m + 1..Len(text) + 1 : \E r \in {f, f + 1} : Reading(text, h, i, m, f, r)
    BY <1>3
  <1>5. PICK r \in {f, f + 1} : Reading(text, h, i, m, f, r)
    BY <1>4
  <1>6. IsReading(text, h, i, m, f, r)
    BY <1>5 DEF IsReading
  <1>7. Track(text, cur, h, i, m, f, r)
    BY <1>6 DEF ReadingInv, Tracks
  <1> QED BY <1>7 DEF Track, In

LEMMA ReadingInvariant == Spec => []ReadingInv
<1>1. Init => ReadingInv
  <2> SUFFICES ASSUME Init PROVE ReadingInv
    OBVIOUS
  <2>1. cur = Start /\ text \in Seq(Tokens)
    BY CasesAssumption DEF Init, Asks
  <2> QED BY <2>1, StartReads DEF ReadingInv
<1>2. ReadingInv /\ [Next]_vars => ReadingInv'
  <2> SUFFICES ASSUME ReadingInv, [Next]_vars PROVE ReadingInv'
    OBVIOUS
  <2>1. CASE ParseStep
    <3>1. Parse /\ ParserInv(text, cur)
      BY <2>1 DEF ParseStep, ReadingInv
    <3>2. text' = text
      BY <3>1 DEF Parse, Wrapper, WrapperBy, RangeFunction, Metric, FilterOpens, Filter,
                  FilterEnd, RangeSelector, Offset, Close, TrailingBy, ByOpens, Label,
                  LabelEnd, Finish
    <3>3. ParserInv(text, cur')
      BY <3>1, ParseReads
    <3>4. Tracks(text, cur')
      <4>1. SUFFICES ASSUME NEW h, NEW i, NEW m, NEW f, NEW r, IsReading(text, h, i, m, f, r)
                     PROVE  Track(text, cur', h, i, m, f, r)
        BY DEF Tracks
      <4>2. Track(text, cur, h, i, m, f, r)
        BY <4>1 DEF ReadingInv, Tracks
      <4> QED BY <3>1, <4>1, <4>2, ParseTracks
    <3> QED BY <3>2, <3>3, <3>4 DEF ReadingInv
  <2>2. CASE UNCHANGED parserVars
    BY <2>2 DEF parserVars, ReadingInv
  <2>3. ParseStep \/ UNCHANGED parserVars
    BY DEF Next, vars, Receive, QueryWindows, Parsed, ResolveScope, MemberRole, ListMembers,
           QueryEvents, Aggregate, ListEvents, Change
  <2> QED BY <2>1, <2>2, <2>3
<1> QED
  BY <1>1, <1>2, PTL DEF Spec

(* parse_toki_virtual_query accepts a text exactly when it is in the language *)
(* the grammar above it describes, whatever the text and its length; and what *)
(* it makes of it, the provider, the dimension and whether raw events were    *)
(* asked for, is what the text names.                                         *)
THEOREM ParserExact == Spec => []ParserMatchesGrammar
<1>1. ReadingInv => ParserMatchesGrammar
  <2> SUFFICES ASSUME ReadingInv PROVE ParserMatchesGrammar
    OBVIOUS
  <2>1. ParserInv(text, cur)
    BY DEF ReadingInv
  <2>2. In("refused") => ~InLanguage(text)
    BY RefusedNotInLanguage
  <2>3. In("ok") =>
          LET named == {text[k] : k \in DOMAIN text} IN
          /\ InLanguage(text)
          /\ named \cap Quoted = {cur.provider} \ {"none"}
          /\ IF named \cap Dimensions = {} THEN GroupBy = "model" ELSE GroupBy \in named
          /\ RawEvents <=> "events" \in named /\ named \cap {"sum", "increase", "by", "[1d]"} = {}
    BY <2>1, OkExact
  <2> QED BY <2>2, <2>3 DEF ParserMatchesGrammar
<1> QED
  BY <1>1, ReadingInvariant, PTL
=============================================================================
