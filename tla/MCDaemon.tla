------------------------------ MODULE MCDaemon ------------------------------
(***************************************************************************)
(* Instances of Daemon for TLC: one service, or the two of the code.       *)
(***************************************************************************)
EXTENDS Daemon, TLC

CONSTANTS agent, monitor

OneService == <<agent>>
BothServices == <<agent, monitor>>
=============================================================================
