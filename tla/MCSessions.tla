----------------------------- MODULE MCSessions -----------------------------
(* A small instance of Sessions: accounts, codes and handlers as model values *)
EXTENDS Sessions, TLC

CONSTANTS u1, c1, p1, p2

MCUsers == {u1}
MCCodes == {c1}
MCProcs == {p1, p2}
MCGuardKeys == {<<"refresh", None>>} \cup ({"login", "approve"} \X MCUsers)
Symmetry == Permutations(MCProcs)
=============================================================================
