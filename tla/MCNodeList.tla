------------------------------ MODULE MCNodeList ------------------------------
(***************************************************************************)
(* NodeList for TLC: requests, identifiers and addresses are alike.        *)
(***************************************************************************)
EXTENDS NodeList, TLC

Alike == Permutations(Caller) \cup Permutations(Id) \cup Permutations(Address)
=============================================================================
