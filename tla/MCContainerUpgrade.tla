------------------------- MODULE MCContainerUpgrade -------------------------
(***************************************************************************)
(* ContainerUpgrade for TLC: upgrades are interchangeable.                 *)
(***************************************************************************)
EXTENDS ContainerUpgrade, TLC

TaskSymmetry == Permutations(TaskId)
=============================================================================
