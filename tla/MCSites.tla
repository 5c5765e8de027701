------------------------------- MODULE MCSites -------------------------------
(***************************************************************************)
(* Sites for TLC: sites, configurations and requests are interchangeable.  *)
(***************************************************************************)
EXTENDS Sites, TLC

SitesSymmetry == Permutations(Site) \cup Permutations(Request) \cup Permutations(Config)
=============================================================================
