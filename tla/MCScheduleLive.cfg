SPECIFICATION FairSpec
CONSTANTS
  r1 = r1
  r2 = r2
  t1 = t1
  t2 = t2
  NoTask = NoTask
  Run = {r1}
  TaskId = {t1, t2}
  SaveMayFail = FALSE
  MaxBlocks = 2
  MaxCrashes = 1

CHECK_DEADLOCK TRUE
PROPERTIES RunsEnd StaleLockGoes
