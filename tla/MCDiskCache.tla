----------------------------- MODULE MCDiskCache -----------------------------
(***************************************************************************)
(* DiskCache for TLC: an answer of one piece, which is a part, and one of  *)
(* two pieces.                                                             *)
(***************************************************************************)
EXTENDS DiskCache, TLC

CONSTANTS v1, v2

OneAndTwo == v1 :> 1 @@ v2 :> 2
Clients == Permutations(Client)
=============================================================================
