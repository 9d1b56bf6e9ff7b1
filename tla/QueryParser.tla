----------------------------- MODULE QueryParser -----------------------------
(***************************************************************************)
(* parse_toki_virtual_query of server/handlers/metrics.rs: a cursor moves  *)
(* over the query text, with two points where it looks ahead and rewinds.  *)
(*                                                                         *)
(* The text is a sequence of tokens.  An identifier and a punctuation mark *)
(* stand for themselves; a quoted value, a label matcher and a bracketed   *)
(* range are one token each, with one malformed form of each.              *)
(***************************************************************************)
EXTENDS Integers, Sequences, FiniteSets

Metrics == {"usage", "toki_tokens_total", "cost", "events"}
Dimensions == {"model", "project", "device_id"}
Quoted == {"'claude_code'", "'codex'", "''"}
Idents == Metrics \cup Dimensions
          \cup {"sum", "increase", "by", "type", "provider", "offset", "avg", "windows"}

Comma == ","
LBrace == "{"
RBrace == "}"
Tokens == Idents \cup Quoted \cup {"(", ")", LBrace, RBrace, Comma, "=", "!=", "[1d]", "[?]"}

VARIABLES text,   \* the query
          cur     \* the cursor and what was parsed up to it

parserVars == <<text, cur>>

(* labels and provider: what the clauses name, each in the order of the text; *)
(* ret: where a by clause returns to.                                         *)
Start == [st |-> "wrapper", pos |-> 1, ret |-> "none", haveBy |-> FALSE,
          open |-> 0, operator |-> FALSE, bucket |-> FALSE, metric |-> "none",
          labels |-> <<>>, provider |-> "none"]

(* peek, after skip_ws *)
At(s, i) == IF i <= Len(s) THEN s[i] ELSE "end"
Tok(i) == At(text, i)
Here == Tok(cur.pos)

In(st) == cur.st = st
Move(st, i) == cur' = [cur EXCEPT !.st = st, !.pos = i]
Refuse == cur' = [cur EXCEPT !.st = "refused"]

-----------------------------------------------------------------------------
(* The aggregation wrapper and the range function                            *)

(* The body of "sum", whose by clause has been read into ls. *)
Wrap(i, ls) ==
  IF Tok(1) = "sum"
  THEN cur' = [cur EXCEPT !.st = "function", !.pos = i + 1, !.operator = TRUE,
                          !.open = 1, !.labels = ls, !.haveBy = ls # <<>>]
  ELSE Refuse

Wrapper ==
  /\ In("wrapper")
  /\ \/ Here = "end" /\ Refuse
     \/ Here \in Idents /\ Tok(2) = "(" /\ Here # "increase" /\ Wrap(2, <<>>)
     \/ /\ Here \in Idents /\ Tok(2) = "by"
        /\ cur' = [cur EXCEPT !.st = "by", !.pos = 3, !.ret = "wrapper"]
     \/ /\ Here # "end"
        /\ Here \in Idents => Tok(2) # "by" /\ (Tok(2) = "(" => Here = "increase")
        /\ Move("function", 1)
  /\ UNCHANGED text

(* After a leading by clause: a call if a body follows, or else rewind. *)
WrapperBy ==
  /\ In("wrapper_by")
  /\ IF Here = "(" THEN Wrap(cur.pos, cur.labels)
     ELSE cur' = [cur EXCEPT !.st = "function", !.pos = 1, !.labels = <<>>]
  /\ UNCHANGED text

RangeFunction ==
  /\ In("function")
  /\ \/ /\ Here \in Idents /\ Tok(cur.pos + 1) = "("
        /\ IF Here # "increase" THEN Refuse
           ELSE cur' = [cur EXCEPT !.st = "metric", !.pos = @ + 2, !.operator = TRUE,
                                   !.open = @ + 1]
     \/ ~(Here \in Idents /\ Tok(cur.pos + 1) = "(") /\ Move("metric", cur.pos)
  /\ UNCHANGED text

-----------------------------------------------------------------------------
(* The selector                                                              *)

Metric ==
  /\ In("metric")
  /\ \/ /\ Here \in Metrics
        /\ cur' = [cur EXCEPT !.metric = Here, !.pos = @ + 1,
             !.st = IF Tok(cur.pos + 1) = LBrace THEN "open" ELSE "range"]
     \/ Here \notin Metrics /\ Refuse
  /\ UNCHANGED text

(* One turn of the loop over the label matchers: a closing brace, or a key,   *)
(* its matcher and its value.                                                 *)
FilterOpens == In("open") /\ Move("filter", cur.pos + 1) /\ UNCHANGED text

Conflicting(v) == cur.provider # "none" /\ cur.provider # v

Filter ==
  /\ In("filter")
  /\ \/ Here = RBrace /\ Move("range", cur.pos + 1)
     \/ /\ Here = "provider" /\ Tok(cur.pos + 1) = "="
        /\ Tok(cur.pos + 2) \in Quoted \ {"''"} /\ ~Conflicting(Tok(cur.pos + 2))
        /\ cur' = [cur EXCEPT !.provider = Tok(cur.pos + 2), !.pos = @ + 3,
                              !.st = "filter_end"]
     \/ /\ Here # RBrace
        /\ \/ Here # "provider" \/ Tok(cur.pos + 1) # "="
           \/ Tok(cur.pos + 2) \notin Quoted \ {"''"} \/ Conflicting(Tok(cur.pos + 2))
        /\ Refuse
  /\ UNCHANGED text

FilterEnd ==
  /\ In("filter_end")
  /\ \/ Here = Comma /\ Move("filter", cur.pos + 1)
     \/ Here = RBrace /\ Move("range", cur.pos + 1)
     \/ Here \notin {Comma, RBrace} /\ Refuse
  /\ UNCHANGED text

(* The range selector, of which only the syntax counts; then "offset". *)
RangeSelector ==
  /\ In("range")
  /\ \/ Here = "[1d]" /\ cur' = [cur EXCEPT !.bucket = TRUE, !.pos = @ + 1, !.st = "offset"]
     \/ Here = "[?]" /\ Refuse
     \/ Here \notin {"[1d]", "[?]"} /\ Move("offset", cur.pos)
  /\ UNCHANGED text

Offset ==
  /\ In("offset")
  /\ IF Here = "offset" THEN Refuse ELSE Move("close", cur.pos)
  /\ UNCHANGED text

Close ==
  /\ In("close")
  /\ IF \A k \in 0..cur.open - 1 : Tok(cur.pos + k) = ")"
     THEN Move("trailing", cur.pos + cur.open) ELSE Refuse
  /\ UNCHANGED text

-----------------------------------------------------------------------------
(* The by clause                                                             *)

TrailingBy ==
  /\ In("trailing")
  /\ \/ Here = "by" /\ cur.haveBy /\ Refuse
     \/ /\ Here = "by" /\ ~cur.haveBy
        /\ cur' = [cur EXCEPT !.st = "by", !.pos = @ + 1, !.ret = "trailing"]
     \/ Here # "by" /\ Move("finish", cur.pos)
  /\ UNCHANGED text

(* by_labels *)
ByOpens ==
  /\ In("by")
  /\ IF Here = "(" THEN Move("label", cur.pos + 1) ELSE Refuse
  /\ UNCHANGED text

AfterBy == IF cur.ret = "wrapper" THEN "wrapper_by" ELSE "finish"

(* The loop: a closing parenthesis, or a label. *)
Label ==
  /\ In("label")
  /\ \/ Here = ")" /\ cur.labels # <<>> /\ Move(AfterBy, cur.pos + 1)
     \/ /\ Here \in Idents
        /\ cur' = [cur EXCEPT !.labels = Append(@, Here), !.pos = @ + 1, !.st = "label_end"]
     \/ Here \notin Idents /\ (Here = ")" => cur.labels = <<>>) /\ Refuse
  /\ UNCHANGED text

LabelEnd ==
  /\ In("label_end")
  /\ \/ Here = Comma /\ Move("label", cur.pos + 1)
     \/ Here = ")" /\ Move(AfterBy, cur.pos + 1)
     \/ Here \notin {Comma, ")"} /\ Refuse
  /\ UNCHANGED text

-----------------------------------------------------------------------------
(* The end of the text, and the single grouping dimension                    *)

Selected == {cur.labels[k] : k \in DOMAIN cur.labels} \ {"type"}

SupportedAny(ds) == ds \subseteq Dimensions   \* seeded fault: the first of several is taken

Supported(ds) == ds \subseteq Dimensions /\ Cardinality(ds) <= 1

Finish ==
  /\ In("finish")
  /\ IF Here = "end" /\ Supported(Selected) THEN Move("ok", cur.pos) ELSE Refuse
  /\ UNCHANGED text

(* ParsedQuery *)
GroupBy == IF Selected = {} THEN "model" ELSE CHOOSE d \in Selected : TRUE
RawEvents == /\ cur.metric = "events" /\ ~cur.operator /\ ~cur.bucket
             /\ cur.labels = <<>>

Parse ==
  \/ Wrapper \/ WrapperBy \/ RangeFunction \/ Metric \/ FilterOpens \/ Filter
  \/ FilterEnd \/ RangeSelector \/ Offset \/ Close \/ TrailingBy \/ ByOpens \/ Label
  \/ LabelEnd \/ Finish

-----------------------------------------------------------------------------
(* The language the grammar above the parser describes, as the code reads it: *)
(* a list may end with a comma, there is one by clause at most, and it names  *)
(* at most one dimension.  A text is read by the positions its parts begin at.*)

(* "by" "(" label {"," label} [","] ")", from i up to j *)
ByClause(s, i, j) ==
  /\ At(s, i) = "by" /\ At(s, i + 1) = "(" /\ i + 3 < j /\ At(s, j - 1) = ")"
  /\ \A k \in i + 2..j - 2 :
       IF (k - i) % 2 = 0 THEN At(s, k) \in Dimensions \cup {"type"} ELSE At(s, k) = Comma
  /\ \A k, l \in i + 2..j - 2 : {At(s, k), At(s, l)} \subseteq Dimensions => At(s, k) = At(s, l)

(* "{" [provider "=" value {"," provider "=" value} [","]] "}", of one value *)
Filters(s, i, j) ==
  /\ At(s, i) = LBrace /\ i + 1 < j /\ At(s, j - 1) = RBrace /\ (j - i) % 4 \in {1, 2}
  /\ \A k \in i + 1..j - 2 :
       At(s, k) \in CASE (k - i) % 4 = 1 -> {"provider"} [] (k - i) % 4 = 2 -> {"="}
                      [] (k - i) % 4 = 3 -> Quoted \ {"''"} [] (k - i) % 4 = 0 -> {Comma}
  /\ \A k, l \in i + 1..j - 2 : {At(s, k), At(s, l)} \subseteq Quoted => At(s, k) = At(s, l)

(* What comes before the expression at i: nothing, "sum" "(", or "sum", a by  *)
(* clause and "(".                                                            *)
Opening(s, h, i) ==
  \/ h = "none" /\ i = 1
  \/ h = "sum" /\ At(s, 1) = "sum" /\ At(s, 2) = "(" /\ i = 3
  \/ h = "sum_by" /\ At(s, 1) = "sum" /\ ByClause(s, 2, i - 1) /\ At(s, i - 1) = "("

Call(s, i, m) == m = i \/ (At(s, i) = "increase" /\ At(s, i + 1) = "(" /\ m = i + 2)

Parentheses(h, i, m) == (IF h = "none" THEN 0 ELSE 1) + (IF m = i THEN 0 ELSE 1)

(* An expression at i: its metric at m, its filters up to f, its range up to  *)
(* r, the closing parentheses, and a by clause if there was none.             *)
Reading(s, h, i, m, f, r) ==
  LET e == r + Parentheses(h, i, m) IN
  /\ Opening(s, h, i) /\ Call(s, i, m) /\ At(s, m) \in Metrics
  /\ f = m + 1 \/ Filters(s, m + 1, f)
  /\ r = f \/ (At(s, f) = "[1d]" /\ r = f + 1)
  /\ \A k \in r..e - 1 : At(s, k) = ")"
  /\ e = Len(s) + 1 \/ (h # "sum_by" /\ ByClause(s, e, Len(s) + 1))

InLanguage(s) ==
  \E h \in {"none", "sum", "sum_by"}, i \in 1..Len(s) :
    Opening(s, h, i) /\ \E m \in {i, i + 2} : \E f \in m + 1..Len(s) + 1 :
      \E r \in {f, f + 1} : Reading(s, h, i, m, f, r)

(* A query is executed as the query it is, or refused: the parser accepts     *)
(* exactly the language, a text that is not in it is never answered with the  *)
(* numbers of another one, and the provider and the dimension are the ones    *)
(* the text names (parse_toki_virtual_query).                                 *)
ParserMatchesGrammar ==
  LET named == {text[k] : k \in DOMAIN text} IN
  /\ In("ok") =>
       /\ InLanguage(text)
       /\ named \cap Quoted = {cur.provider} \ {"none"}
       /\ IF named \cap Dimensions = {} THEN GroupBy = "model"
                                        ELSE GroupBy \in named
       /\ RawEvents <=> "events" \in named /\ named \cap {"sum", "increase", "by", "[1d]"} = {}
  /\ In("refused") => ~InLanguage(text)
=============================================================================
