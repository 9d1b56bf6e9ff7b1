------------------------------ MODULE OidcLogin ------------------------------
(***************************************************************************)
(* Login through an OpenID provider, composed with Accounts over the users *)
(* table and the settings: oidc_authorize and oidc_callback of             *)
(* server/handlers/auth.rs, the state store and the provider calls of      *)
(* auth/oidc.rs, get_oidc_discovery of server/http.rs and                  *)
(* admin_update_setting of admin.rs.                                       *)
(*                                                                         *)
(* A provider is known by its issuer; a discovery document by the issuer   *)
(* it was fetched for.  Providers are external: they answer, or fail, and  *)
(* accept a code only at the endpoint that issued it.  Entries of the      *)
(* state store and the discovery cache may expire at any time.             *)
(***************************************************************************)
EXTENDS Accounts

CONSTANTS Issuers,
          Subjects,    \* people a provider vouches for
          Linked,      \* [S -> Names]: accounts already linked, S \subseteq Issuers \X Subjects
          States,      \* CSRF states, each issued once
          Flows        \* OIDC requests running at a time; MaxRequests counts them too

(* "cache" marks the cached document in stale, beside the flows. *)
ASSUME OidcAssumption ==
  /\ "cache" \notin Flows /\ None \notin States
  /\ None \notin (Issuers \cup {None}) \X Subjects

VARIABLES
  issuer,    \* the oidc_issuer setting; None: not configured
  cache,     \* oidc_discovery_cache: the issuer it was fetched for, or None
  states,    \* oidc_state_store
  codeOf,    \* what the provider redirected back for a state: <<issuer, subject>>
  clearing,  \* an admin_update_setting has written and not yet cleared the cache
  flow,      \* the OIDC request in each slot
  stale,     \* history: a document was fetched before a setting changed
  logins     \* history: logins completed with each state

oidcVars == <<issuer, cache, states, codeOf, clearing, flow, stale, logins>>
vars == <<accountVars, oidcVars>>

(* iss: the issuer setting as first read; doc: the discovery document or the  *)
(* issuer it is being fetched for; sub: whom the provider vouched for.        *)
NoFlow == [kind |-> "none", st |-> "idle", iss |-> None, doc |-> None,
           state |-> None, sub |-> None]

Init ==
  /\ AccountInit
  /\ issuer \in Issuers /\ cache = None /\ states = {}
  /\ codeOf = [s \in States |-> None] /\ clearing = FALSE
  /\ flow = [f \in Flows |-> NoFlow]
  /\ stale = {} /\ logins = [s \in States |-> 0]

-----------------------------------------------------------------------------
FlowAt(f, st) == flow[f].st = st
FlowGoto(f, st) == flow' = [flow EXCEPT ![f].st = st]
FlowEnds(f) == flow' = [flow EXCEPT ![f] = NoFlow]

(* A new OIDC request; without an issuer it is refused. *)
FlowBegin(f, r) ==
  /\ FlowAt(f, "idle") /\ Count /\ issuer # None
  /\ UNCHANGED <<backend, tablesVars, proc, overtaken, noteVars>>
  /\ flow' = [flow EXCEPT ![f] = r]

(* oidc_authorize *)
Authorize(f) ==
  /\ FlowBegin(f, [NoFlow EXCEPT !.kind = "authorize", !.st = "cache", !.iss = issuer])
  /\ UNCHANGED <<issuer, cache, states, codeOf, clearing, stale, logins>>

ValidatedKept(s) == s \in states /\ UNCHANGED states   \* seeded fault: not consumed

(* OidcStateStore::validate removes the state it accepts. *)
Validated(s) == s \in states /\ states' = states \ {s}

(* oidc_callback, with the state the provider handed back. *)
Callback(f, s) ==
  /\ codeOf[s] # None /\ Validated(s)
  /\ FlowBegin(f, [NoFlow EXCEPT !.kind = "callback", !.st = "cache",
                                 !.iss = issuer, !.state = s])
  /\ UNCHANGED <<issuer, cache, codeOf, clearing, stale, logins>>

-----------------------------------------------------------------------------
(* get_oidc_discovery                                                        *)

AfterDiscovery(f) == IF flow[f].kind = "authorize" THEN "state" ELSE "exchange"

DiscoveryCached(f) ==
  /\ FlowAt(f, "cache")
  /\ flow' = [flow EXCEPT ![f].doc = IF cache # None THEN cache ELSE issuer,
                          ![f].st = IF cache # None THEN AfterDiscovery(f) ELSE "fetch"]
  /\ stale' = stale \ {f}
  /\ UNCHANGED <<accountVars, issuer, cache, states, codeOf, clearing, logins>>

(* discover; the document is cached whatever happened to the setting.         *)
DiscoveryFetched(f) ==
  /\ FlowAt(f, "fetch")
  /\ \/ /\ cache' = flow[f].doc /\ FlowGoto(f, AfterDiscovery(f))
        /\ stale' = IF f \in stale THEN stale \cup {"cache"} ELSE stale \ {"cache"}
     \/ FlowEnds(f) /\ UNCHANGED <<cache, stale>>
  /\ UNCHANGED <<accountVars, issuer, states, codeOf, clearing, logins>>

(* OidcStateStore::insert, and the redirect to the provider. *)
StateIssued(f) ==
  /\ FlowAt(f, "state") /\ FlowEnds(f)
  /\ \E s \in States, u \in Subjects :
       /\ codeOf[s] = None
       /\ states' = states \cup {s}
       /\ codeOf' = [codeOf EXCEPT ![s] = <<flow[f].doc, u>>]
  /\ UNCHANGED <<accountVars, issuer, cache, clearing, stale, logins>>

-----------------------------------------------------------------------------
(* The rest of the callback                                                  *)

(* exchange_code: only the provider that issued the code accepts it. *)
ExchangeCode(f) ==
  /\ FlowAt(f, "exchange")
  /\ \/ codeOf[flow[f].state][1] = flow[f].doc /\ FlowGoto(f, "userinfo")
     \/ FlowEnds(f)
  /\ UNCHANGED <<accountVars, issuer, cache, states, codeOf, clearing, stale,
                 logins>>

(* extract_user_info: an id_token is checked against the issuer; when that    *)
(* fails, or there is none, the userinfo endpoint is asked.                   *)
UserInfo(f) ==
  LET code == codeOf[flow[f].state] IN
  /\ FlowAt(f, "userinfo")
  /\ \/ flow' = [flow EXCEPT ![f].sub = code[2], ![f].st = "find"]
     \/ FlowEnds(f)
  /\ UNCHANGED <<accountVars, issuer, cache, states, codeOf, clearing, stale,
                 logins>>

(* find_user_by_oidc: the linked account, unless it was deleted. *)
Found(i, u) == {n \in AllNames : /\ <<i, u>> \in DOMAIN Linked
                                 /\ n = Linked[<<i, u>>] /\ Exists(n)}

FindUser(f) ==
  LET found == Found(flow[f].iss, flow[f].sub) IN
  /\ FlowAt(f, "find")
  /\ \/ found = {} /\ FlowGoto(f, "create")
     \/ \E n \in found : IF acct[n].active THEN FlowGoto(f, "store") ELSE FlowEnds(f)
  /\ UNCHANGED <<accountVars, issuer, cache, states, codeOf, clearing, stale,
                 logins>>

(* create_oidc_user: its ON CONFLICT (oidc_issuer, oidc_sub) names no unique  *)
(* index, the one on these columns being partial, so the database refuses the *)
(* statement; the error carries no "UNIQUE" and the callback answers 500.     *)
CreateOidcUser(f) ==
  /\ FlowAt(f, "create") /\ FlowGoto(f, "refused")
  /\ UNCHANGED <<accountVars, issuer, cache, states, codeOf, clearing, stale,
                 logins>>

CreateRefused(f) ==
  /\ FlowAt(f, "refused") /\ FlowEnds(f)
  /\ UNCHANGED <<accountVars, issuer, cache, states, codeOf, clearing, stale,
                 logins>>

(* store_refresh_token, which a deleted account refuses, and the redirect.    *)
StoreLogin(f) ==
  /\ FlowAt(f, "store") /\ FlowEnds(f)
  /\ logins' = IF Found(flow[f].iss, flow[f].sub) = {} THEN logins
               ELSE [logins EXCEPT ![flow[f].state] = @ + 1]
  /\ UNCHANGED <<accountVars, issuer, cache, states, codeOf, clearing, stale>>

-----------------------------------------------------------------------------
(* Settings and expiry                                                       *)

(* admin_update_setting: set_server_setting, then the cache is cleared.       *)
UpdateIssuer(i) ==
  /\ ByAdmin /\ Count /\ i # issuer /\ ~clearing
  /\ issuer' = i /\ clearing' = TRUE
  /\ stale' = stale \cup {f \in Flows : FlowAt(f, "fetch")}
  /\ UNCHANGED <<backend, tablesVars, proc, overtaken, noteVars,
                 cache, states, codeOf, flow, logins>>

ClearNothing == UNCHANGED cache   \* seeded fault: the cached document stays

ClearCache == cache' = None

IssuerUpdated ==
  /\ clearing /\ clearing' = FALSE
  /\ ClearCache /\ stale' = stale \ {"cache"}
  /\ UNCHANGED <<accountVars, issuer, states, codeOf, flow, logins>>

UpdateMode(m) ==
  /\ ByAdmin /\ Count /\ m # mode /\ mode' = m
  /\ UNCHANGED <<backend, acct, pending, teams, members, proc, overtaken, noteVars,
                 oidcVars>>

Expire ==
  /\ \/ \E s \in states : states' = states \ {s} /\ UNCHANGED <<cache, stale>>
     \/ cache # None /\ cache' = None /\ stale' = stale \ {"cache"} /\ UNCHANGED states
  /\ UNCHANGED <<accountVars, issuer, codeOf, clearing, flow, logins>>

OidcStep(f) ==
  \/ DiscoveryCached(f) \/ DiscoveryFetched(f) \/ StateIssued(f) \/ ExchangeCode(f)
  \/ UserInfo(f) \/ FindUser(f) \/ CreateOidcUser(f) \/ CreateRefused(f) \/ StoreLogin(f)

OidcNext ==
  \/ \E f \in Flows : \/ OidcStep(f) \/ Authorize(f)
                      \/ \E s \in States : Callback(f, s)
  \/ \E i \in Issuers \cup {None} : UpdateIssuer(i)
  \/ \E m \in {"open", "approval", "closed"} : UpdateMode(m)
  \/ IssuerUpdated \/ Expire

Next == OidcNext \/ (AccountNext /\ UNCHANGED oidcVars)

Spec == Init /\ [][Next]_vars

-----------------------------------------------------------------------------
(* Properties                                                                *)

(* The cached discovery document is the configured issuer's once a change of  *)
(* the setting is complete (admin_update_setting), unless it was being        *)
(* fetched when the setting changed.                                          *)
DiscoveryFollowsIssuer ==
  cache # None /\ ~clearing => cache = issuer \/ "cache" \in stale

(* A state admits one login however often the provider's redirect is          *)
(* replayed, and however many callbacks run at a time (oidc_callback).        *)
StateUsedOnce == \A s \in States : logins[s] <= 1

(* "Find or create user by OIDC subject": a login whose subject has no        *)
(* account gets one.                                                          *)
FirstLoginCreates == \A f \in Flows : ~FlowAt(f, "refused")
=============================================================================
