-------------------------- MODULE MCScheduleRunner --------------------------
(***************************************************************************)
(* Instances of ScheduleRunner for TLC.  Tasks are interchangeable, and so *)
(* are the invocations of a run.                                           *)
(***************************************************************************)
EXTENDS ScheduleRunner, TLC

RunnerSymmetry == Permutations(TaskId) \cup Permutations(Run)
=============================================================================
