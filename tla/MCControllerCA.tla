---------------------------- MODULE MCControllerCA ----------------------------
(***************************************************************************)
(* ControllerCA for TLC: the cfg gives its constants.                      *)
(***************************************************************************)
EXTENDS ControllerCA
=============================================================================
