------------------------------ MODULE MCQueries ------------------------------
(* Small instances of Queries: a second is three units of time, a day two        *)
(* seconds and a week two days.  Texts, times and scopes are varied apart.     *)
EXTENDS Queries, TLC

CONSTANTS u1, u2, t1

MCUsers == {u1, u2}
MCTeams == {t1}
MCWindowRows == [user : MCUsers, end : {2, 40}]
MCPrices == "m1" :> [input |-> 2, cached |-> 1] @@ "m2" :> None

Event(u, model, project, provider, ts) ==
  [user |-> u, model |-> model, project |-> project, device_id |-> u,
   provider |-> provider, ts |-> ts, input |-> 3, cached |-> 1]

Ask == [asker |-> u1, scope |-> "self", text |-> <<"usage">>, start |-> None, end |-> None,
        step |-> None, zone |-> None, startOfWeek |-> 0, noCost |-> FALSE]

Case == [req |-> Ask, stored |-> {Event(u1, "m1", "p", "codex", 1)}, member |-> {},
         admins |-> {}, maxScope |-> "self", changes |-> 0]

Point(form, v) == [form |-> form, val |-> v]

(* Days of two seconds: regular ones with an offset, and a calendar with one   *)
(* long and one short day.                                                     *)
Days == -3..8
Regular == [start |-> [d \in Days |-> 2 * d - 1], lastTwice |-> {}, noMidnight |-> {}]
LongDay == [start |-> [d \in Days |-> IF d <= 1 THEN 2 * d ELSE 2 * d + 1],
            lastTwice |-> {1}, noMidnight |-> {}]
ShortDay == [start |-> [d \in Days |-> IF d <= 1 THEN 2 * d ELSE 2 * d - 1],
             lastTwice |-> {}, noMidnight |-> {1}]

Bounds == {Point("ms", v) : v \in {0, 2, 4, 5, 7, 10, 12, 13}} \cup {Point("sec", 3), Point("date", 1), Point("bad", 0), None}

Timed ==
  {[Case EXCEPT !.req = [Ask EXCEPT !.start = s, !.end = e, !.step = k, !.zone = z,
                                    !.startOfWeek = 1],
                !.stored = {Event(u1, "m1", "p", "codex", ts), Event(u1, "m2", "p", "", ts)}] :
     s \in Bounds, e \in {Point("ms", 6), Point("ms", 13), Point("ms", 16), Point("date", 1), None},
     k \in {None, 1, 2, 4}, z \in {None, Regular, LongDay, ShortDay},
     ts \in {2, 5, 9, 11, 13}}

(* Texts of the language, and what one edit makes of some of them. *)
BaseTexts ==
  {<<"sum", "by", "(", "model", ")", "(", "increase", "(", "usage", "[1d]", ")", ")">>,
   <<"sum", "(", "usage", ")", "by", "(", "type", ",", "project", ")">>,
   <<"events", "{", "provider", "=", "'codex'", ",", "provider", "=", "'codex'", "}">>,
   <<"increase", "(", "cost", "{", "}", ")", "by", "(", "device_id", ",", ")">>,
   <<"usage", "by", "(", "type", ",", "model", ",", "type", ",", "model", ")">>}

Edits(s) ==
  {s, <<>>, <<"windows">>}
  \cup {SubSeq(s, 1, i - 1) \o SubSeq(s, i + 1, Len(s)) : i \in DOMAIN s}
  \cup {SubSeq(s, 1, i) \o <<x>> \o SubSeq(s, i + 1, Len(s)) : i \in 0..Len(s), x \in Tokens}
  \cup {[s EXCEPT ![i] = x] : i \in DOMAIN s, x \in Tokens}

MaybeComma == {<<>>, <<",">>}
ByTexts ==
  {<<"by", "(">> \o l \o c \o <<")">> : c \in MaybeComma,
     l \in {<<d>> : d \in Dimensions \cup {"type"}}
           \cup UNION {{<<d, ",", d>>, <<d, ",", "type">>, <<"type", ",", d>>} :
                         d \in Dimensions \cup {"type"}}}

FilterTexts ==
  {<<"{", "}">>} \cup
  UNION {{<<"{", "provider", "=", v>> \o c \o <<"}">>,
          <<"{", "provider", "=", v, ",", "provider", "=", v>> \o c \o <<"}">>} :
           v \in Quoted \ {"''"}, c \in MaybeComma}

Some == {<<m>> \o f : m \in {"events", "cost"}, f \in FilterTexts \cup {<<>>}}
Texts ==
  UNION {Edits(s) : s \in BaseTexts}
  \cup {i \o c : i \in Some, c \in ByTexts \cup {<<>>}}
  \cup {<<"sum">> \o c \o <<"(">> \o i \o <<")">> \o d :
          i \in {<<"events">>}, c \in ByTexts \cup {<<>>}, d \in ByTexts \cup {<<>>}}

Mixed == {Event(u1, "m1", "p", "codex", 1), Event(u1, "m1", "q", "", 2),
          Event(u1, "m2", "p", "claude_code", 5), Event(u1, "m1", "p", "codex", 6)}

Texted == {[Case EXCEPT !.req = [Ask EXCEPT !.text = x], !.stored = Mixed] : x \in Texts}
  \cup {[Case EXCEPT !.req = [Ask EXCEPT !.text = x, !.noCost = TRUE, !.step = 2],
                     !.stored = Mixed \cup {Event(u1, "m1", "r", "codex", 3)}] : x \in Some}

Scoped ==
  {[Case EXCEPT !.req = [Ask EXCEPT !.scope = s, !.text = x],
                !.stored = {Event(u1, "m1", "p", "codex", 1), Event(u2, "m1", "p", "codex", 1)},
                !.member = m, !.admins = d, !.maxScope = y, !.changes = 2] :
     s \in {"self", "all", "invalid", t1}, x \in {<<"events">>, <<"windows">>},
     m \in SUBSET (MCTeams \X MCUsers), d \in {{}, {u1}}, y \in {"self", "team", "all"}}

MCCases == Timed \cup Texted \cup Scoped

(* What the proof of the bound on buckets asks of the calendars. *)
ASSUME MCNearlyNominal == \A c \in MCCases : c.req.zone # None => NearlyNominal(c.req.zone)
=============================================================================
