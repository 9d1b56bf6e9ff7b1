------------------------------- MODULE Queries -------------------------------
(***************************************************************************)
(* toki_query of server/handlers/metrics.rs: the bounds of the query, its  *)
(* text (QueryParser), the step, whose usage may be read, the events read  *)
(* and their aggregation, while team memberships, roles and the setting    *)
(* max_query_scope change.                                                 *)
(*                                                                         *)
(* Time is in units of 1/Ms second.  A time zone gives each local day its  *)
(* first instant; a day is longer or shorter than DaySecs when the clocks  *)
(* change.  Tokens of an event are its input and the cached part of it.    *)
(***************************************************************************)
EXTENDS QueryParser, Functions

CONSTANTS Users, Teams,
          Cases,        \* what to check: [req, stored, member, admins, maxScope, changes]
          WindowRows,   \* stored rate-limit windows: [user, end]
          Prices,       \* [model -> [input, cached] or None]
          Ms, DaySecs, WeekDays, Now,
          MaxBuckets,   \* 2000 in the code
          MaxEvents,    \* MAX_QUERY_EVENTS
          MaxEntries,   \* MAX_BUCKET_ENTRIES
          MaxSum,       \* the largest u64
          None

ASSUME QueriesAssumption ==
  /\ {Ms, DaySecs, WeekDays, MaxBuckets, MaxEvents, MaxEntries} \subseteq Nat \ {0}
  /\ {Now, MaxSum} \subseteq Nat /\ None \notin Int
  /\ \A c \in Cases : c.maxScope \in {"self", "team", "all"}   \* admin_update_setting checks it

VARIABLES
  req, stored,  \* the request and what the store holds
  st,           \* how far the handler is
  member,       \* team_members: <<team, user>>
  admins,       \* users with the admin role
  maxScope,     \* the setting max_query_scope
  filter,       \* UserFilter: the users whose events are read
  read, cut,    \* the events read, and events_truncated
  answer,
  saw,          \* history: roles, settings and memberships since the request came
  changes       \* bound: administrative changes still to come

handlerVars == <<st, filter, read, cut, answer>>
adminVars == <<member, admins, maxScope, saw, changes>>
vars == <<parserVars, req, stored, handlerVars, adminVars>>

NoAnswer == [kind |-> "none", rows |-> <<>>, events |-> {}, windows |-> {},
             truncated |-> FALSE]

Seen(s, m, a, x) == [pairs |-> s.pairs \cup m, admins |-> s.admins \cup a,
                     scopes |-> s.scopes \cup {x}]

Init ==
  /\ \E c \in Cases :
       /\ req = c.req /\ stored = c.stored /\ text = c.req.text /\ member = c.member
       /\ admins = c.admins /\ maxScope = c.maxScope /\ changes = c.changes
  /\ cur = Start /\ st = "received"
  /\ filter = {} /\ read = {} /\ cut = FALSE /\ answer = NoAnswer
  /\ saw = Seen([pairs |-> {}, admins |-> {}, scopes |-> {}], member, admins, maxScope)

(* A limit of n leaves any n of them. *)
Limited(n, S) == {T \in SUBSET S : Cardinality(T) = n}

-----------------------------------------------------------------------------
(* Time                                                                      *)

(* The local day of an instant: days are numbered from the epoch's. *)
DayOf(z, t) == CHOOSE d \in DOMAIN z.start :
                 /\ z.start[d] * Ms <= t
                 /\ d + 1 \in DOMAIN z.start => t < z.start[d + 1] * Ms

(* parse_toki_bound_ms: milliseconds, seconds, or a date, whose end is the    *)
(* following midnight; a date is refused when its first second (or, for an    *)
(* end, its last) does not occur exactly once in the zone.                    *)
BoundMs(b, isEnd, z) ==
  CASE b.form = "ms" -> b.val
    [] b.form = "sec" -> b.val * Ms
    [] b.form = "date" /\ z = None -> (b.val + IF isEnd THEN 1 ELSE 0) * DaySecs * Ms
    [] b.form = "date" /\ z # None ->
         IF isEnd THEN IF b.val \in z.lastTwice THEN None ELSE z.start[b.val + 1] * Ms
                  ELSE IF b.val \in z.noMidnight THEN None ELSE z.start[b.val] * Ms
    [] b.form = "bad" -> None

Since(r) == IF r.start = None THEN 0 ELSE BoundMs(r.start, FALSE, r.zone)
Until(r) == IF r.end = None THEN Now * Ms ELSE BoundMs(r.end, TRUE, r.zone)

RangeSecs(r) ==
  LET secs == (Until(r) - Since(r)) \div Ms IN IF secs = 0 THEN 1 ELSE secs

IsRange == req.step # None
StepOf(r) == IF r.step # None THEN r.step ELSE RangeSecs(r)
EffectiveStep == StepOf(req)

(* bucket_start_sec: whole days, and weeks from start_of_week, begin at local *)
(* midnight; everything else, and every step without a zone, is aligned to    *)
(* the epoch.                                                                 *)
BucketStart(t) ==
  LET step == EffectiveStep  z == req.zone  days == step \div DaySecs IN
  IF z = None \/ step % DaySecs # 0 THEN (t \div (step * Ms)) * step
  ELSE LET d == DayOf(z, t) IN
       IF days = WeekDays THEN z.start[d - ((d - req.startOfWeek) % WeekDays)]
                          ELSE z.start[(d \div days) * days]

(* What a case is: a request and the events of the store.  A calendar is the  *)
(* part of the time zone's that the request needs: the days of its range, and *)
(* before them those a bucket of its step can begin with.                     *)
Bound == [form : {"ms", "sec", "date", "bad"}, val : Int]

Calendar(z) ==
  /\ DOMAIN z.start \subseteq Int
  /\ \A d, e \in DOMAIN z.start : d..e \subseteq DOMAIN z.start
  /\ \A d \in DOMAIN z.start : z.start[d] \in Int
  /\ \A d, e \in DOMAIN z.start : d <= e => z.start[d] <= z.start[e]

LongEnough(z, r) ==
  \E lo, hi \in DOMAIN z.start :
    /\ lo - (StepOf(r) \div DaySecs) \in DOMAIN z.start
    /\ z.start[lo] * Ms <= Since(r) /\ Until(r) <= z.start[hi] * Ms

Asks(r) ==
  /\ r.start \in Bound \cup {None} /\ r.end \in Bound \cup {None} /\ r.step \in Nat \cup {None}
  /\ r.startOfWeek \in Int /\ r.text \in Seq(Tokens)
  /\ r.zone # None =>
       /\ Calendar(r.zone)
       /\ \A b \in {r.start, r.end} \ {None} :
            b.form = "date" => {b.val, b.val + 1} \subseteq DOMAIN r.zone.start
       /\ None \notin {Since(r), Until(r)} /\ Since(r) <= Until(r) => LongEnough(r.zone, r)

Priceable(e) ==
  /\ {e.ts, e.input, e.cached} \subseteq Nat /\ e.model \in DOMAIN Prices
  /\ Prices[e.model] = None \/ {Prices[e.model].input, Prices[e.model].cached} \subseteq Nat

ASSUME CasesAssumption ==
  /\ None \notin Bound
  /\ \A c \in Cases : Asks(c.req) /\ IsFiniteSet(c.stored) /\ \A e \in c.stored : Priceable(e)

-----------------------------------------------------------------------------
(* The handler up to the query                                               *)

Reply(a) == st' = "answered" /\ answer' = a
Refused == Reply([NoAnswer EXCEPT !.kind = "refused"])

Receive ==
  /\ st = "received"
  /\ IF None \in {Since(req), Until(req)} THEN Refused
     ELSE IF Since(req) > Until(req) THEN Refused
     ELSE /\ st' = (IF text = <<"windows">> THEN "windows" ELSE "parse")
          /\ UNCHANGED answer
  /\ UNCHANGED <<parserVars, req, stored, filter, read, cut, adminVars>>

(* The bare query "windows" reads one's own only. *)
QueryWindows ==
  /\ st = "windows"
  /\ IF req.scope # "self" THEN Refused
     ELSE Reply([NoAnswer EXCEPT !.kind = "windows",
            !.windows = {w \in WindowRows : /\ w.user = req.asker
                                            /\ w.end >= Since(req) /\ w.end < Until(req)}])
  /\ UNCHANGED <<parserVars, req, stored, filter, read, cut, adminVars>>

ParseStep ==
  /\ st = "parse" /\ Parse
  /\ UNCHANGED <<req, stored, handlerVars, adminVars>>

MinStepFloor == RangeSecs(req) \div MaxBuckets   \* seeded fault: the division rounds down

(* Ceiling division *)
MinStep == (RangeSecs(req) + MaxBuckets - 1) \div MaxBuckets

Parsed ==
  /\ st = "parse" /\ cur.st \in {"ok", "refused"}
  /\ IF cur.st = "refused" \/ (IsRange /\ (req.step < MinStep \/ req.step > RangeSecs(req)))
     THEN Refused ELSE st' = "scope" /\ UNCHANGED answer
  /\ UNCHANGED <<parserVars, req, stored, filter, read, cut, adminVars>>

-----------------------------------------------------------------------------
(* resolve_user_filter: the setting and the role, the membership, the members *)

ResolveScope ==
  /\ st = "scope"
  /\ \/ req.scope = "self" /\ filter' = {req.asker} /\ st' = "read" /\ UNCHANGED answer
     \/ /\ req.scope = "all" /\ (req.asker \in admins \/ maxScope = "all")
        /\ filter' = Users /\ st' = "read" /\ UNCHANGED answer
     \/ /\ req.scope \in Teams /\ (req.asker \in admins \/ maxScope # "self")
        /\ st' = (IF req.asker \in admins THEN "members" ELSE "role")
        /\ UNCHANGED <<filter, answer>>
     \/ /\ \/ req.scope = "all" /\ req.asker \notin admins /\ maxScope # "all"
           \/ req.scope \in Teams /\ req.asker \notin admins /\ maxScope = "self"
           \/ req.scope = "invalid"
        /\ Refused /\ UNCHANGED filter
  /\ UNCHANGED <<parserVars, req, stored, read, cut, adminVars>>

AnyMember(t, u) == TRUE   \* seeded fault: any user of a team's scope

(* get_team_member_role *)
IsMember(t, u) == <<t, u>> \in member

MemberRole ==
  /\ st = "role"
  /\ IF IsMember(req.scope, req.asker) THEN st' = "members" /\ UNCHANGED answer ELSE Refused
  /\ UNCHANGED <<parserVars, req, stored, filter, read, cut, adminVars>>

(* list_team_members *)
ListMembers ==
  /\ st = "members" /\ st' = "read"
  /\ filter' = {u \in Users : <<req.scope, u>> \in member}
  /\ UNCHANGED <<parserVars, req, stored, read, cut, answer, adminVars>>

(* query_events with one event more than the ceiling.  The backends differ in *)
(* which events they leave out: any.                                          *)
Matching == {e \in stored : e.user \in filter /\ e.ts >= Since(req) /\ e.ts < Until(req)}

QueryEvents ==
  /\ st = "read" /\ st' = "aggregate"
  /\ cut' = (Cardinality(Matching) > MaxEvents)
  /\ IF cut' THEN read' \in Limited(MaxEvents, Matching) ELSE read' = Matching
  /\ UNCHANGED <<parserVars, req, stored, filter, answer, adminVars>>

-----------------------------------------------------------------------------
(* The response                                                              *)

Provider(e) == IF e.provider = "" THEN "claude_code" ELSE e.provider
Wanted(e) == CASE cur.provider = "none" -> TRUE
               [] cur.provider = "'codex'" -> Provider(e) = "codex"
               [] cur.provider = "'claude_code'" -> Provider(e) = "claude_code"

(* event_cost_for_provider: Codex counts cached input as input. *)
EventCost(e) ==
  LET p == Prices[e.model]
      fresh == IF Provider(e) = "codex"
               THEN (IF e.cached > e.input THEN 0 ELSE e.input - e.cached) ELSE e.input
  IN fresh * p.input + e.cached * p.cached

Priced(E) == {e \in E : Prices[e.model] # None}
Costs(E) == SumFunction([e \in Priced(E) |-> EventCost(e)])
CostOf(E) == IF req.noCost \/ Priced(E) = {} THEN None ELSE Costs(E)
InputOf(E) == SumFunction([e \in E |-> e.input])

WithinOnly(t) == BucketStart(t) * Ms >= Since(req)   \* seeded fault: partial buckets are dropped

Overlaps(t) ==
  LET b == BucketStart(t) * Ms IN
  b + EffectiveStep * Ms > Since(req) /\ b < Until(req)

EntryKey(e) == <<BucketStart(e.ts), Provider(e), e[GroupBy]>>

(* One entry of the response: saturating sums, no tokens for "events". *)
Entry(E) ==
  LET total == InputOf(E) IN
  IF cur.metric = "events" THEN [events |-> Cardinality(E), input |-> 0, cost |-> None]
  ELSE [events |-> Cardinality(E), input |-> IF total > MaxSum THEN MaxSum ELSE total,
        cost |-> CostOf(E)]

(* aggregate_events_to_toki_json: keys past the cap are dropped and flagged;  *)
(* which ones come first is up to the store.                                  *)
Aggregate ==
  LET kept == {e \in read : Wanted(e) /\ Overlaps(e.ts)}
      keys == {EntryKey(e) : e \in kept}
  IN
  /\ st = "aggregate" /\ ~(RawEvents /\ ~IsRange)
  /\ \E K \in IF Cardinality(keys) <= MaxEntries THEN {keys} ELSE Limited(MaxEntries, keys) :
       Reply([NoAnswer EXCEPT !.kind = "rows", !.truncated = (K # keys),
                !.rows = [k \in K |-> Entry({e \in kept : EntryKey(e) = k})],
                !.events = {e \in kept : EntryKey(e) \in K}])
  /\ UNCHANGED <<parserVars, req, stored, filter, read, cut, adminVars>>

(* raw_events_to_toki_json *)
ListEvents ==
  /\ st = "aggregate" /\ RawEvents /\ ~IsRange
  /\ Reply([NoAnswer EXCEPT !.kind = "raw", !.truncated = cut,
                            !.events = {e \in read : Wanted(e)}])
  /\ UNCHANGED <<parserVars, req, stored, filter, read, cut, adminVars>>

-----------------------------------------------------------------------------
(* Administration in between, from the first read of what it changes to the   *)
(* last; its handlers are in Accounts and OidcLogin.                          *)

Change ==
  /\ st \in {"scope", "role", "members"} /\ changes > 0 /\ changes' = changes - 1
  /\ \/ \E m \in Teams \X Users :
          /\ member' \in {member \cup {m}, member \ {m}} \ {member}
          /\ UNCHANGED <<admins, maxScope>>
     \/ \E u \in Users : /\ admins' \in {admins \cup {u}, admins \ {u}} \ {admins}
                         /\ UNCHANGED <<member, maxScope>>
     \/ /\ maxScope' \in {"self", "team", "all"} \ {maxScope}
        /\ UNCHANGED <<member, admins>>
  /\ saw' = Seen(saw, member', admins', maxScope')
  /\ UNCHANGED <<parserVars, req, stored, handlerVars>>

Next ==
  \/ Receive \/ QueryWindows \/ ParseStep \/ Parsed \/ ResolveScope \/ MemberRole
  \/ ListMembers \/ QueryEvents \/ Aggregate \/ ListEvents \/ Change

Spec == Init /\ [][Next]_vars

-----------------------------------------------------------------------------
(* Properties                                                                *)

(* An answer holds the usage of nobody the asker was never entitled to while  *)
(* the request ran: as an administrator, by a setting that opens everything,  *)
(* or as a member of a team the other one was in, with teams opened           *)
(* (resolve_user_filter reads these one after another).                       *)
ScopeHolds ==
  LET mine == {p[1] : p \in {q \in saw.pairs : q[2] = req.asker}} IN
  \A u \in {e.user : e \in answer.events} \cup {w.user : w \in answer.windows} :
    \/ u = req.asker \/ req.asker \in saw.admins \/ "all" \in saw.scopes
    \/ "team" \in saw.scopes /\ \E t \in mine : <<t, u>> \in saw.pairs

LongDays(z) == \E d \in DOMAIN z.start :
                 d + 1 \in DOMAIN z.start /\ z.start[d + 1] - z.start[d] > DaySecs

(* Any number of days fall short of their nominal time by less than a day     *)
(* together: the offset of the zone changes by less than that.                *)
NearlyNominal(z) ==
  \A i, j \in DOMAIN z.start :
    i <= j => (j - i) * DaySecs - (z.start[j] - z.start[i]) < DaySecs

(* However usage is bucketed, by whatever step, zone and dimension, an answer *)
(* not flagged truncated adds up to the events read: their number, their      *)
(* tokens and their cost (aggregate_events_to_toki_json).  A day of 25 hours  *)
(* is longer than its step; the overlap check can drop its last hour.         *)
Conserved ==
  LET R == answer.rows  E == {e \in read : Wanted(e)} IN
  answer.kind = "rows" /\ ~answer.truncated /\ ~(req.zone # None /\ LongDays(req.zone)) =>
    /\ SumFunction([k \in DOMAIN R |-> R[k].events]) = Cardinality(E)
    /\ cur.metric # "events" /\ InputOf(E) <= MaxSum =>
         /\ SumFunction([k \in DOMAIN R |-> R[k].input]) = InputOf(E)
         /\ ~req.noCost =>
              SumFunction([k \in DOMAIN R |-> IF R[k].cost = None THEN 0 ELSE R[k].cost])
                = Costs(E)

(* The step check bounds the buckets a range query can touch to the cap and   *)
(* two more, whatever its bounds are aligned to and however short a day is:   *)
(* the range is rounded down to seconds and both its ends cut a bucket.       *)
BucketsBounded ==
  answer.kind = "rows" /\ IsRange =>
    Cardinality({BucketStart(t) : t \in Since(req)..Until(req) - 1}) <= MaxBuckets + 2
=============================================================================
