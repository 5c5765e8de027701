\* Two upgrades; the agent may die at any moment, tasks may be deleted, files and calls of the engine fail.
CONSTANTS
  TaskId = {t1, t2}
  SaveMayFail = TRUE
  Old = old
  Nobody = nobody
  EngineMayFail = TRUE
  MayDie = TRUE
SYMMETRY TaskSymmetry
SPECIFICATION Spec
INVARIANTS
  TypeOK
  TasksAreTrue
  AppSurvives
  OneUpgrade
  EndsClean
  NameKept
