---------------------------- MODULE MCFjallStore ----------------------------
(***************************************************************************)
(* Small instances of FjallStore for TLC.                                  *)
(***************************************************************************)
EXTENDS FjallStore, TLC

CONSTANTS MaxTs

MCTs == 1..MaxTs

(* One device has an owner history: which users upload is not symmetric with *)
(* anything else, so users, messages and workers may be permuted.            *)
Symmetry == Permutations(Users) \cup Permutations(Msgs) \cup Permutations(Workers)
=============================================================================
