---------------------------- MODULE TaskManager ----------------------------
(***************************************************************************)
(* The agent's background tasks (node/function/basic/task-manager.js): a   *)
(* map in memory, one JSON file per task beside it, and the asynchronous   *)
(* functions that work on the tasks and report back.                       *)
(*                                                                         *)
(* JavaScript runs one synchronous segment at a time, so an action is one  *)
(* segment; only a crash comes between any two steps.  createTask is       *)
(* followed by executeTask in the same segment at every call in the agent: *)
(* a task is pending only there (Quiet).  Ids are never used twice.        *)
(***************************************************************************)
EXTENDS Naturals, FiniteSets

CONSTANTS TaskId,         \* bound: tasks ever created
          SaveMayFail     \* may a write or unlink of a task file fail?

ASSUME TaskAssumption == SaveMayFail \in BOOLEAN

VARIABLES
  up,       \* the agent's process runs
  tasks,    \* this.tasks: the status of every task, "none" if not in the map
  disk,     \* the task files: "torn" is a file JSON.parse rejects
  fn,       \* the task functions of this process
  expired,  \* tasks whose updatedAt is more than maxAgeHours old
  outcome,  \* history: how the function of a task ended
  deleted   \* history: tasks whose deletion was reported as done

taskVars == <<up, tasks, disk, fn, expired, outcome, deleted>>

Final == {"completed", "failed"}
Status == Final \cup {"pending", "running"}

TasksTypeOK ==
  /\ up \in BOOLEAN
  /\ tasks \in [TaskId -> Status \cup {"none"}]
  /\ disk \in [TaskId -> Status \cup {"none", "torn"}]
  /\ fn \in [TaskId -> {"none", "running", "over"}]
  /\ expired \in SUBSET TaskId
  /\ outcome \in [TaskId -> {"unused", "open", "ok", "error"}]
  /\ deleted \in SUBSET TaskId

TasksInit ==
  /\ up = TRUE
  /\ tasks = [t \in TaskId |-> "none"]
  /\ disk = [t \in TaskId |-> "none"]
  /\ fn = [t \in TaskId |-> "none"]
  /\ expired = {}
  /\ outcome = [t \in TaskId |-> "unused"]
  /\ deleted = {}

\* The event loop is not between a createTask and its executeTask.
Quiet == up /\ \A t \in TaskId : tasks[t] # "pending"
-----------------------------------------------------------------------------
(***************************************************************************)
(* Files.  saveTask and deleteTask catch every error of the file system;   *)
(* a write that fails half-way leaves a file that cannot be parsed.        *)
(***************************************************************************)
Written(old, new) == IF SaveMayFail THEN {new, old, "torn"} ELSE {new}

saveTask(t, status) ==
  \E f \in Written(disk[t], status) : disk' = [disk EXCEPT ![t] = f]

\* updateTask: nothing happens for a task that is no longer in the map.
updateTaskRevives(t, status) ==
  /\ tasks' = [tasks EXCEPT ![t] = status]
  /\ saveTask(t, status)
  /\ expired' = expired \ {t}

updateTask(t, status) ==
  IF tasks[t] = "none"
    THEN UNCHANGED <<tasks, disk, expired>>
    ELSE /\ tasks' = [tasks EXCEPT ![t] = status]
         /\ saveTask(t, status)
         /\ expired' = expired \ {t}

\* deleteTask for a set of tasks: the map forgets them even if unlink fails,
\* and then the deletion is reported as not done.
deleteTasks(T) ==
  \E failed \in (IF SaveMayFail THEN SUBSET T ELSE {{}}) :
    /\ tasks' = [t \in TaskId |-> IF t \in T THEN "none" ELSE tasks[t]]
    /\ disk' = [t \in TaskId |-> IF t \in T \ failed THEN "none" ELSE disk[t]]
    /\ deleted' = deleted \cup (T \ failed)
-----------------------------------------------------------------------------
createTask(t) ==
  /\ Quiet
  /\ outcome[t] = "unused"
  /\ tasks' = [tasks EXCEPT ![t] = "pending"]
  /\ saveTask(t, "pending")
  /\ outcome' = [outcome EXCEPT ![t] = "open"]
  /\ UNCHANGED <<up, fn, expired, deleted>>

\* executeTask up to the first await of the task function.
executeTask(t) ==
  /\ up
  /\ tasks[t] = "pending"
  /\ updateTask(t, "running")
  /\ fn' = [fn EXCEPT ![t] = "running"]
  /\ UNCHANGED <<up, outcome, deleted>>

\* The callbacks of executeTask and updateTask(id, {result}): they leave the
\* status alone, and may come after the function has ended (a stream's last
\* event) or after the task was deleted.
Report(t) ==
  /\ Quiet
  /\ fn[t] \in {"running", "over"}
  /\ updateTask(t, tasks[t])
  /\ UNCHANGED <<up, fn, outcome, deleted>>

\* The task function ends, and executeTask with it.
FunctionEnds(t) ==
  /\ Quiet
  /\ fn[t] = "running"
  /\ fn' = [fn EXCEPT ![t] = "over"]
  /\ \/ /\ outcome' = [outcome EXCEPT ![t] = "ok"]
        /\ updateTask(t, "completed")
     \/ /\ outcome' = [outcome EXCEPT ![t] = "error"]
        /\ updateTask(t, "failed")
  /\ UNCHANGED <<up, deleted>>

\* DELETE /tasks/:taskId, whatever the task is doing.
deleteTask(t) ==
  /\ Quiet
  /\ tasks[t] # "none"
  /\ deleteTasks({t})
  /\ UNCHANGED <<up, fn, expired, outcome>>

cleanupExpiredTasks ==
  /\ Quiet
  /\ LET old == {t \in TaskId : tasks[t] \in Final /\ t \in expired} IN
     old # {} /\ deleteTasks(old)
  /\ UNCHANGED <<up, fn, expired, outcome>>

\* Twelve hours pass without an update of t.
Expire(t) ==
  /\ Quiet
  /\ tasks[t] # "none" /\ t \notin expired
  /\ expired' = expired \cup {t}
  /\ UNCHANGED <<up, tasks, disk, fn, outcome, deleted>>
-----------------------------------------------------------------------------
(***************************************************************************)
(* The process dies, possibly while it writes the file of a task at work;  *)
(* the daemon starts it again and the constructor loads the files.         *)
(***************************************************************************)
TasksDie ==
  /\ up' = FALSE
  /\ tasks' = [t \in TaskId |-> "none"]
  /\ fn' = [t \in TaskId |-> "none"]
  /\ \/ UNCHANGED disk
     \/ \E t \in TaskId : /\ tasks[t] # "none"
                          /\ disk' = [disk EXCEPT ![t] = "torn"]
  /\ UNCHANGED <<expired, outcome, deleted>>

LoadedUnparsed(t) == disk[t]

Loaded(t) == IF disk[t] \in Status THEN disk[t] ELSE "none"

\* loadExistingTasks and resetRunningTasksOnStartup.
Load ==
  /\ ~ up
  /\ up' = TRUE
  /\ LET interrupted == {t \in TaskId : Loaded(t) \in {"pending", "running"}} IN
     /\ tasks' = [t \in TaskId |-> IF t \in interrupted THEN "failed" ELSE Loaded(t)]
     /\ disk' \in {f \in [TaskId -> Status \cup {"none", "torn"}] :
                     \A t \in TaskId :
                       IF t \in interrupted THEN f[t] \in Written(disk[t], "failed")
                                            ELSE f[t] = disk[t]}
     /\ expired' = expired \ interrupted
  /\ UNCHANGED <<fn, outcome, deleted>>

TaskStep(t) ==
  createTask(t) \/ executeTask(t) \/ Report(t) \/ FunctionEnds(t) \/ deleteTask(t) \/ Expire(t)

TasksNext == (\E t \in TaskId : TaskStep(t)) \/ cleanupExpiredTasks \/ (up /\ TasksDie) \/ Load

TasksSpec == TasksInit /\ [][TasksNext]_taskVars
-----------------------------------------------------------------------------
(***************************************************************************)
(* Properties.                                                             *)
(***************************************************************************)

\* A task that is shown as running is being worked on by this process, also
\* after a crash and a restart from files that said "running".
RunningIsReal == \A t \in TaskId : tasks[t] = "running" => fn[t] = "running"

\* Nothing, neither the map nor a file, claims a completion that did not happen,
\* whatever writes failed and wherever the process died.
CompletionIsReal ==
  \A t \in TaskId : "completed" \in {tasks[t], disk[t]} => outcome[t] = "ok"

\* A task that was deleted stays deleted, in the map and on disk, although its
\* function may go on for long and report progress, logs, a result and its end.
DeletedStaysDeleted == \A t \in deleted : tasks[t] = "none" /\ disk[t] = "none"

\* What the agent says of its tasks is true: it shows none as running that is not, claims
\* no completion that did not happen, and brings back none that was deleted.
TasksAreTrue == RunningIsReal /\ CompletionIsReal /\ DeletedStaysDeleted

\* A task that has ended is not opened again while the process lives, however
\* late a callback of its function comes.
FinalIsFinal ==
  [][\A t \in TaskId : tasks[t] \in Final => tasks'[t] \in {tasks[t], "none"}]_taskVars
=============================================================================
