------------------------- MODULE TaskManagerProofs -------------------------
(***************************************************************************)
(* The safety of the agent's tasks for any set of tasks, whether files can *)
(* fail to be written or not.                                              *)
(*                                                                         *)
(* The properties are not inductive: that a late callback does no harm     *)
(* rests on Opened, Ours and Halted, which say how the map, the functions  *)
(* and the histories belong together.                                      *)
(***************************************************************************)
EXTENDS TaskManager, TLAPS

\* A task nobody created is nowhere.
Opened == \A t \in TaskId : outcome[t] = "unused" =>
            tasks[t] = "none" /\ disk[t] = "none" /\ t \notin deleted

\* A task that waits for its function or is worked on has not ended.
Ours == \A t \in TaskId :
          /\ tasks[t] = "pending" => outcome[t] = "open"
          /\ fn[t] = "running" => outcome[t] = "open" /\ tasks[t] \in {"running", "none"}

\* A process that is down has neither a map nor functions.
Halted == ~ up => \A t \in TaskId : tasks[t] = "none" /\ fn[t] = "none"

TasksInv == TasksTypeOK /\ TasksAreTrue /\ Opened /\ Ours /\ Halted
-----------------------------------------------------------------------------
\* What saveTask leaves in the files of any task.
LEMMA SaveChangesOne ==
  ASSUME NEW t \in TaskId, NEW s \in Status, TasksTypeOK, saveTask(t, s)
  PROVE  /\ disk' \in [TaskId -> Status \cup {"none", "torn"}]
         /\ \A u \in TaskId : u # t => disk'[u] = disk[u]
         /\ disk'[t] \in {s, disk[t], "torn"}
BY DEF TasksTypeOK, saveTask, Written, Status, Final

\* What updateTask does: nothing to a task that is gone.
LEMMA UpdateChangesOne ==
  ASSUME NEW t \in TaskId, NEW s \in Status, TasksTypeOK, updateTask(t, s)
  PROVE  /\ tasks' \in [TaskId -> Status \cup {"none"}]
         /\ disk' \in [TaskId -> Status \cup {"none", "torn"}]
         /\ expired' \in SUBSET TaskId
         /\ \A u \in TaskId : u # t => tasks'[u] = tasks[u] /\ disk'[u] = disk[u]
         /\ tasks[t] = "none" => tasks'[t] = "none" /\ disk'[t] = disk[t]
         /\ tasks[t] # "none" => tasks'[t] = s /\ disk'[t] \in {s, disk[t], "torn"}
<1>1. CASE tasks[t] = "none"
  BY <1>1 DEF TasksTypeOK, updateTask
<1>2. CASE tasks[t] # "none"
  <2>1. tasks' = [tasks EXCEPT ![t] = s] /\ saveTask(t, s) /\ expired' = expired \ {t}
    BY <1>2 DEF updateTask
  <2> QED BY <1>2, <2>1, SaveChangesOne DEF TasksTypeOK
<1> QED BY <1>1, <1>2

LEMMA StartSafe == TasksInit => TasksInv
BY DEF TasksInit, TasksInv, TasksTypeOK, TasksAreTrue, RunningIsReal, CompletionIsReal,
       DeletedStaysDeleted, Opened, Ours, Halted, Status, Final

LEMMA CreateSafe ==
  ASSUME TasksInv, NEW t \in TaskId, createTask(t)
  PROVE  TasksInv'
<1> USE DEF TasksInv, TasksAreTrue
<1>1. /\ up /\ outcome[t] = "unused" /\ tasks[t] = "none" /\ t \notin deleted
      /\ tasks' = [tasks EXCEPT ![t] = "pending"]
      /\ outcome' = [outcome EXCEPT ![t] = "open"]
      /\ UNCHANGED <<up, fn, expired, deleted>>
  BY DEF createTask, Quiet, Opened
<1>2. /\ disk' \in [TaskId -> Status \cup {"none", "torn"}]
      /\ \A u \in TaskId : u # t => disk'[u] = disk[u]
      /\ disk'[t] \in {"pending", disk[t], "torn"}
  BY SaveChangesOne DEF createTask, Status
<1>3. TasksTypeOK' /\ Opened' /\ Ours' /\ Halted'
  <2>1. TasksTypeOK'
    BY <1>1, <1>2 DEF TasksTypeOK, Status, Final
  <2>2. Opened'
    BY <1>1, <1>2 DEF Opened, TasksTypeOK
  <2>3. Ours'
    BY <1>1, <1>2 DEF Ours, TasksTypeOK
  <2>4. Halted'
    BY <1>1, <1>2 DEF Halted
  <2> QED BY <2>1, <2>2, <2>3, <2>4
<1>4. TasksAreTrue'
  BY <1>1, <1>2 DEF TasksTypeOK, RunningIsReal, CompletionIsReal, DeletedStaysDeleted
<1> QED BY <1>3, <1>4

LEMMA ExecuteSafe ==
  ASSUME TasksInv, NEW t \in TaskId, executeTask(t)
  PROVE  TasksInv'
<1> USE DEF TasksInv, TasksAreTrue
<1>1. /\ up /\ tasks[t] = "pending" /\ outcome[t] = "open"
      /\ fn' = [fn EXCEPT ![t] = "running"]
      /\ UNCHANGED <<up, outcome, deleted>>
  BY DEF executeTask, Ours
<1>2. /\ tasks' \in [TaskId -> Status \cup {"none"}]
      /\ disk' \in [TaskId -> Status \cup {"none", "torn"}]
      /\ expired' \in SUBSET TaskId
      /\ \A u \in TaskId : u # t => tasks'[u] = tasks[u] /\ disk'[u] = disk[u]
      /\ tasks'[t] = "running" /\ disk'[t] \in {"running", disk[t], "torn"}
  BY <1>1, UpdateChangesOne DEF executeTask, Status
<1>3. TasksTypeOK' /\ Opened' /\ Ours' /\ Halted'
  <2>1. TasksTypeOK'
    BY <1>1, <1>2 DEF TasksTypeOK, Status, Final
  <2>2. Opened'
    BY <1>1, <1>2 DEF Opened, TasksTypeOK
  <2>3. Ours'
    BY <1>1, <1>2 DEF Ours, TasksTypeOK
  <2>4. Halted'
    BY <1>1, <1>2 DEF Halted
  <2> QED BY <2>1, <2>2, <2>3, <2>4
<1>4. TasksAreTrue'
  BY <1>1, <1>2 DEF TasksTypeOK, RunningIsReal, CompletionIsReal, DeletedStaysDeleted
<1> QED BY <1>3, <1>4

LEMMA ReportSafe ==
  ASSUME TasksInv, NEW t \in TaskId, Report(t)
  PROVE  TasksInv'
<1> USE DEF TasksInv, TasksAreTrue
<1>1. UNCHANGED <<up, fn, outcome, deleted>> /\ updateTask(t, tasks[t])
  BY DEF Report
<1>2. /\ tasks' = tasks /\ expired' \in SUBSET TaskId
      /\ disk' \in [TaskId -> Status \cup {"none", "torn"}]
      /\ \A u \in TaskId : u # t => disk'[u] = disk[u]
      /\ tasks[t] = "none" => disk'[t] = disk[t]
      /\ disk'[t] \in {tasks[t], disk[t], "torn"}
  <2>1. CASE tasks[t] = "none"
    BY <1>1, <2>1 DEF updateTask, TasksTypeOK
  <2>2. CASE tasks[t] # "none"
    <3>1. tasks[t] \in Status
      BY <2>2 DEF TasksTypeOK
    <3>2. tasks' = tasks
      BY <1>1, <2>2 DEF updateTask, TasksTypeOK
    <3> QED BY <1>1, <2>2, <3>1, <3>2, UpdateChangesOne
  <2> QED BY <2>1, <2>2
<1>3. TasksTypeOK' /\ Opened' /\ Ours' /\ Halted'
  <2>1. TasksTypeOK'
    BY <1>1, <1>2 DEF TasksTypeOK, Status, Final
  <2>2. Opened'
    BY <1>1, <1>2 DEF Opened, TasksTypeOK
  <2>3. Ours'
    BY <1>1, <1>2 DEF Ours, TasksTypeOK
  <2>4. Halted'
    BY <1>1, <1>2 DEF Halted
  <2> QED BY <2>1, <2>2, <2>3, <2>4
<1>4. TasksAreTrue'
  BY <1>1, <1>2 DEF TasksTypeOK, RunningIsReal, CompletionIsReal, DeletedStaysDeleted
<1> QED BY <1>3, <1>4

LEMMA EndsSafe ==
  ASSUME TasksInv, NEW t \in TaskId, FunctionEnds(t)
  PROVE  TasksInv'
<1> USE DEF TasksInv, TasksAreTrue
<1>1. /\ up /\ fn[t] = "running" /\ outcome[t] = "open" /\ tasks[t] \in {"running", "none"}
      /\ fn' = [fn EXCEPT ![t] = "over"]
      /\ UNCHANGED <<up, deleted>>
  BY DEF FunctionEnds, Quiet, Ours
<1>2. PICK how \in {"ok", "error"} :
        /\ outcome' = [outcome EXCEPT ![t] = how]
        /\ updateTask(t, IF how = "ok" THEN "completed" ELSE "failed")
  BY DEF FunctionEnds
<1> DEFINE s == IF how = "ok" THEN "completed" ELSE "failed"
<1>3. /\ tasks' \in [TaskId -> Status \cup {"none"}]
      /\ disk' \in [TaskId -> Status \cup {"none", "torn"}]
      /\ expired' \in SUBSET TaskId
      /\ \A u \in TaskId : u # t => tasks'[u] = tasks[u] /\ disk'[u] = disk[u]
      /\ tasks[t] = "none" => tasks'[t] = "none" /\ disk'[t] = disk[t]
      /\ tasks[t] # "none" => tasks'[t] = s /\ disk'[t] \in {s, disk[t], "torn"}
  <2>1. s \in Status
    BY DEF Status, Final
  <2> QED BY <1>2, <2>1, UpdateChangesOne
<1>4. s = "completed" => how = "ok"
  OBVIOUS
<1>5. s \in {"completed", "failed"}
  OBVIOUS
<1>6. disk[t] # "completed"
  BY <1>1 DEF CompletionIsReal
<1> HIDE DEF s
<1>7. TasksTypeOK' /\ Opened' /\ Ours' /\ Halted'
  <2>1. TasksTypeOK'
    BY <1>1, <1>2, <1>3, <1>5 DEF TasksTypeOK, Status, Final
  <2>2. Opened'
    BY <1>1, <1>2, <1>3, <1>5 DEF Opened, TasksTypeOK
  <2>3. Ours'
    BY <1>1, <1>2, <1>3, <1>5 DEF Ours, TasksTypeOK
  <2>4. Halted'
    BY <1>1, <1>2, <1>3, <1>5 DEF Halted
  <2> QED BY <2>1, <2>2, <2>3, <2>4
<1>8. TasksAreTrue'
  BY <1>1, <1>2, <1>3, <1>4, <1>5, <1>6
     DEF TasksTypeOK, RunningIsReal, CompletionIsReal, DeletedStaysDeleted
<1> QED BY <1>7, <1>8
-----------------------------------------------------------------------------
LEMMA DeleteSafe ==
  ASSUME TasksInv, NEW T \in SUBSET TaskId, up, deleteTasks(T),
         \A t \in T : tasks[t] # "none",
         UNCHANGED <<up, fn, expired, outcome>>
  PROVE  TasksInv'
<1> USE DEF TasksInv, TasksAreTrue
<1>1. PICK failed \in SUBSET T :
        /\ tasks' = [t \in TaskId |-> IF t \in T THEN "none" ELSE tasks[t]]
        /\ disk' = [t \in TaskId |-> IF t \in T \ failed THEN "none" ELSE disk[t]]
        /\ deleted' = deleted \cup (T \ failed)
  BY DEF deleteTasks
<1>2. TasksTypeOK' /\ Opened' /\ Ours' /\ Halted'
  <2>1. TasksTypeOK'
    BY <1>1 DEF TasksTypeOK, Status, Final
  <2>2. Opened'
    BY <1>1 DEF Opened, TasksTypeOK
  <2>3. Ours'
    BY <1>1 DEF Ours, TasksTypeOK
  <2>4. Halted'
    BY <1>1 DEF Halted
  <2> QED BY <2>1, <2>2, <2>3, <2>4
<1>3. TasksAreTrue'
  BY <1>1 DEF TasksTypeOK, RunningIsReal, CompletionIsReal, DeletedStaysDeleted
<1> QED BY <1>2, <1>3

LEMMA DieSafe ==
  ASSUME TasksInv, up, TasksDie
  PROVE  TasksInv'
<1> USE DEF TasksInv, TasksAreTrue
<1>1. /\ up' = FALSE
      /\ tasks' = [t \in TaskId |-> "none"]
      /\ fn' = [t \in TaskId |-> "none"]
      /\ UNCHANGED <<expired, outcome, deleted>>
  BY DEF TasksDie
<1>2. /\ disk' \in [TaskId -> Status \cup {"none", "torn"}]
      /\ \A t \in TaskId : disk'[t] \in {disk[t], "torn"}
      /\ \A t \in TaskId : tasks[t] = "none" => disk'[t] = disk[t]
  <2>1. CASE UNCHANGED disk
    BY <2>1 DEF TasksTypeOK
  <2>2. CASE \E t \in TaskId : tasks[t] # "none" /\ disk' = [disk EXCEPT ![t] = "torn"]
    BY <2>2 DEF TasksTypeOK
  <2> QED BY <2>1, <2>2 DEF TasksDie
<1>3. TasksTypeOK' /\ Opened' /\ Ours' /\ Halted'
  <2>1. TasksTypeOK'
    BY <1>1, <1>2 DEF TasksTypeOK, Status, Final
  <2>2. Opened'
    BY <1>1, <1>2 DEF Opened, TasksTypeOK
  <2>3. Ours'
    BY <1>1, <1>2 DEF Ours, TasksTypeOK
  <2>4. Halted'
    BY <1>1, <1>2 DEF Halted
  <2> QED BY <2>1, <2>2, <2>3, <2>4
<1>4. TasksAreTrue'
  BY <1>1, <1>2 DEF TasksTypeOK, RunningIsReal, CompletionIsReal, DeletedStaysDeleted
<1> QED BY <1>3, <1>4

LEMMA LoadSafe ==
  ASSUME TasksInv, Load
  PROVE  TasksInv'
<1> USE DEF TasksInv, TasksAreTrue
<1> DEFINE interrupted == {t \in TaskId : Loaded(t) \in {"pending", "running"}}
<1>1. /\ up'
      /\ tasks' = [t \in TaskId |-> IF t \in interrupted THEN "failed" ELSE Loaded(t)]
      /\ disk' \in [TaskId -> Status \cup {"none", "torn"}]
      /\ \A t \in TaskId : IF t \in interrupted THEN disk'[t] \in Written(disk[t], "failed")
                                                ELSE disk'[t] = disk[t]
      /\ expired' = expired \ interrupted
      /\ UNCHANGED <<fn, outcome, deleted>>
  BY DEF Load
<1>2. \A t \in TaskId : Loaded(t) \in Status \cup {"none"} /\ Loaded(t) \in {disk[t], "none"}
  BY DEF Loaded
<1>3. \A t \in TaskId : /\ tasks'[t] \in {"failed", "completed", "none"}
                        /\ tasks'[t] \in {disk[t], "failed", "none"}
                        /\ disk[t] = "none" => tasks'[t] = "none"
                        /\ disk'[t] \in {disk[t], "failed", "torn"}
                        /\ disk[t] = "none" => disk'[t] = "none"
  <2> SUFFICES ASSUME NEW t \in TaskId
               PROVE  /\ tasks'[t] \in {"failed", "completed", "none"}
                      /\ tasks'[t] \in {disk[t], "failed", "none"}
                      /\ disk[t] = "none" => tasks'[t] = "none"
                      /\ disk'[t] \in {disk[t], "failed", "torn"}
                      /\ disk[t] = "none" => disk'[t] = "none"
    OBVIOUS
  <2>1. CASE t \in interrupted
    <3>1. disk[t] # "none"
      BY <2>1 DEF Loaded
    <3> QED BY <1>1, <2>1, <3>1 DEF Written
  <2>2. CASE t \notin interrupted
    BY <1>1, <1>2, <2>2 DEF Loaded, Status, Final
  <2> QED BY <2>1, <2>2
<1>4. \A t \in TaskId : fn'[t] = "none" /\ tasks[t] = "none"
  BY <1>1 DEF Load, Halted
<1> HIDE DEF interrupted
<1>5. TasksTypeOK'
  BY <1>1, <1>3 DEF TasksTypeOK, Status, Final
<1>6. Halted'
  BY <1>1 DEF Halted
<1>9. UNCHANGED <<fn, outcome, deleted>>
  BY <1>1
<1>7. Opened' /\ Ours'
  <2>1. Opened'
    BY <1>3, <1>9 DEF Opened
  <2>2. Ours'
    BY <1>3, <1>4, <1>9 DEF Ours
  <2> QED BY <2>1, <2>2
<1>8. RunningIsReal' /\ CompletionIsReal' /\ DeletedStaysDeleted'
  <2>1. RunningIsReal'
    BY <1>3 DEF RunningIsReal
  <2>2. CompletionIsReal'
    BY <1>3, <1>9 DEF CompletionIsReal
  <2>3. DeletedStaysDeleted'
    BY <1>3, <1>9 DEF DeletedStaysDeleted, TasksTypeOK
  <2> QED BY <2>1, <2>2, <2>3
<1> QED BY <1>5, <1>6, <1>7, <1>8
-----------------------------------------------------------------------------
LEMMA ExpireSafe ==
  ASSUME TasksInv, NEW t \in TaskId, Expire(t)
  PROVE  TasksInv'
BY DEF TasksInv, TasksAreTrue, Expire, Quiet, TasksTypeOK, RunningIsReal, CompletionIsReal,
       DeletedStaysDeleted, Opened, Ours, Halted

LEMMA StepSafe ==
  ASSUME TasksInv, [TasksNext]_taskVars
  PROVE  TasksInv'
<1>1. ASSUME NEW t \in TaskId, TaskStep(t) PROVE TasksInv'
  <2>1. CASE deleteTask(t)
    <3>1. {t} \in SUBSET TaskId /\ \A u \in {t} : tasks[u] # "none"
      BY <2>1 DEF deleteTask
    <3> QED BY <2>1, <3>1, DeleteSafe DEF deleteTask, Quiet
  <2> QED BY <1>1, <2>1, CreateSafe, ExecuteSafe, ReportSafe, EndsSafe, ExpireSafe DEF TaskStep
<1>2. CASE cleanupExpiredTasks
  <2> DEFINE old == {t \in TaskId : tasks[t] \in Final /\ t \in expired}
  <2>1. old \in SUBSET TaskId /\ \A t \in old : tasks[t] # "none"
    BY DEF Final
  <2>2. up /\ deleteTasks(old) /\ UNCHANGED <<up, fn, expired, outcome>>
    BY <1>2 DEF cleanupExpiredTasks, Quiet
  <2> HIDE DEF old
  <2> QED BY <2>1, <2>2, DeleteSafe
<1>3. CASE UNCHANGED taskVars
  BY <1>3 DEF TasksInv, TasksAreTrue, taskVars, TasksTypeOK, RunningIsReal, CompletionIsReal,
              DeletedStaysDeleted, Opened, Ours, Halted
<1> QED BY <1>1, <1>2, <1>3, DieSafe, LoadSafe DEF TasksNext

\* What the map, the files and the functions say of each other in every
\* reachable state: a running task has its function, a completion happened,
\* and what was deleted does not come back.
THEOREM TasksAreSafe == TasksSpec => []TasksInv
<1>1. TasksInit => TasksInv
  BY StartSafe
<1>2. TasksInv /\ [TasksNext]_taskVars => TasksInv'
  BY StepSafe
<1> QED BY <1>1, <1>2, PTL DEF TasksSpec

\* What the agent says of its tasks is true, for any tasks, crashes and failing writes.
THEOREM TasksTellTheTruth == TasksSpec => []TasksAreTrue
<1>1. TasksInv => TasksAreTrue
  BY DEF TasksInv
<1> QED BY <1>1, TasksAreSafe, PTL

\* A task that is shown as running has its function at work in this process.
THEOREM RunningTasksAreReal == TasksSpec => []RunningIsReal
<1>1. TasksInv => RunningIsReal
  BY DEF TasksInv, TasksAreTrue
<1> QED BY <1>1, TasksAreSafe, PTL

\* The task files never make the agent claim a completion that did not happen.
THEOREM CompletionsAreReal == TasksSpec => []CompletionIsReal
<1>1. TasksInv => CompletionIsReal
  BY DEF TasksInv, TasksAreTrue
<1> QED BY <1>1, TasksAreSafe, PTL

\* A deletion that was reported as done is final, whatever the function of the
\* task goes on to report.
THEOREM DeletionsAreFinal == TasksSpec => []DeletedStaysDeleted
<1>1. TasksInv => DeletedStaysDeleted
  BY DEF TasksInv, TasksAreTrue
<1> QED BY <1>1, TasksAreSafe, PTL

\* No step opens a task again that has ended.
LEMMA EndedStays ==
  ASSUME TasksInv, TasksNext, NEW t \in TaskId, tasks[t] \in Final
  PROVE  tasks'[t] \in {tasks[t], "none"}
<1> USE DEF Final
<1>1. ASSUME NEW u \in TaskId, TaskStep(u) PROVE tasks'[t] \in {tasks[t], "none"}
  <2>1. CASE createTask(u)
    <3>1. u # t
      BY <2>1 DEF createTask, TasksInv, Opened
    <3> QED BY <2>1, <3>1 DEF createTask, TasksInv, TasksTypeOK
  <2>2. CASE executeTask(u) \/ Report(u) \/ FunctionEnds(u)
    <3>1. u # t \/ Report(u)
      BY <2>2 DEF executeTask, FunctionEnds, TasksInv, Ours
    <3>2. CASE Report(u)
      BY <3>2 DEF Report, updateTask, TasksInv, TasksTypeOK
    <3>3. CASE u # t
      <4>1. ASSUME NEW s, updateTask(u, s) PROVE tasks'[t] = tasks[t]
        BY <3>3, <4>1 DEF updateTask, TasksInv, TasksTypeOK
      <4> QED BY <2>2, <4>1 DEF executeTask, Report, FunctionEnds
    <3> QED BY <3>1, <3>2, <3>3
  <2>3. CASE deleteTask(u)
    BY <2>3 DEF deleteTask, deleteTasks
  <2>4. CASE Expire(u)
    BY <2>4 DEF Expire
  <2> QED BY <1>1, <2>1, <2>2, <2>3, <2>4 DEF TaskStep
<1>2. CASE cleanupExpiredTasks
  BY <1>2 DEF cleanupExpiredTasks, deleteTasks
<1>3. CASE TasksDie
  BY <1>3 DEF TasksDie
<1>4. CASE Load
  BY <1>4 DEF Load, TasksInv, Halted
<1> QED BY <1>1, <1>2, <1>3, <1>4 DEF TasksNext

\* However late a callback or the end of a function comes, a task that has ended
\* is not opened again.
THEOREM FinalsAreFinal == TasksSpec => FinalIsFinal
<1>1. TasksInv /\ [TasksNext]_taskVars
        => [\A t \in TaskId : tasks[t] \in Final => tasks'[t] \in {tasks[t], "none"}]_taskVars
  BY EndedStays
<1> QED BY <1>1, TasksAreSafe, PTL DEF TasksSpec, FinalIsFinal
=============================================================================
