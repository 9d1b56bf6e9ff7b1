---------------------------- MODULE MCSyncServer ----------------------------
(***************************************************************************)
(* Small instances of SyncServer for TLC: every device belongs to one      *)
(* account.                                                                *)
(***************************************************************************)
EXTENDS SyncServer, TLC

MCOwner == [d \in Devices |-> CHOOSE u \in Users : TRUE]

Symmetry == Permutations(Conns)
=============================================================================
