--------------------------- MODULE MCActiveCache ----------------------------
(***************************************************************************)
(* Small instances of ActiveCache for TLC.                                 *)
(***************************************************************************)
EXTENDS ActiveCache
=============================================================================
