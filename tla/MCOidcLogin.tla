----------------------------- MODULE MCOidcLogin -----------------------------
(* A small instance of OidcLogin over Accounts: the built-in account, one      *)
(* linked to a person of the first issuer, one applicant and one team.         *)
EXTENDS OidcLogin, TLC

CONSTANTS root, x, r, t1, i1, i2, v, s1, p1, p2, f1, f2

MCNames == {root, x}
MCApplicants == {r}
MCTeams == {t1}
MCIssuers == {i1, i2}
MCSubjects == {v}
MCLinked == (<<i1, v>> :> x)
MCStates == {s1}
MCSlots == {p1, p2}
MCFlows == {f1, f2}
Symmetry == Permutations(MCSlots) \cup Permutations(MCFlows)
=============================================================================
