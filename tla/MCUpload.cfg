\* Two browsers that send one text or two, two requests at a time, two chunks a file.
SPECIFICATION Spec
CONSTANTS
  f1 = f1
  f2 = f2
  t1 = t1
  t2 = t2
  j1 = j1
  j2 = j2
  File = {f1, f2}
  Text = {t1, t2}
  Job = {j1, j2}
  Last = 1
  MaxLost = 1
  Slot = Slot
  Torn = Torn
  NoFile = NoFile
  NoPlace = NoPlace
  NoJob = NoJob
SYMMETRY UploadSymmetry
INVARIANTS TypeOK CompletedIsWhole FailuresHaveCauses NothingLeft
\* Every upload may have completed.
CHECK_DEADLOCK FALSE
