-------------------------- MODULE ContainerUpgrade --------------------------
(***************************************************************************)
(* Upgrades of a container (node/function/docker/core/container-           *)
(* upgrader.js) as background tasks of the agent: the old container is     *)
(* stopped, a new one is created and started, the old one is removed and   *)
(* the new one takes its name; if that fails, the new container is removed *)
(* and the old one started again.                                          *)
(*                                                                         *)
(* An action is one call of the Docker engine and what the task does with  *)
(* the answer.  The container an upgrade creates is named by its task.  A  *)
(* user may ask for an upgrade of any container there is, also of one that *)
(* another upgrade has just made.                                          *)
(***************************************************************************)
EXTENDS TaskManager

CONSTANTS Old,            \* the container of the application
          Nobody,
          EngineMayFail,  \* may the engine refuse to stop, remove or rename a
                          \* container that exists, or to start the old one?
          MayDie          \* may a container end by itself?

ASSUME UpgradeAssumption ==
  /\ Old \notin TaskId /\ Nobody \notin TaskId \cup {Old}
  /\ EngineMayFail \in BOOLEAN /\ MayDie \in BOOLEAN

Container == TaskId \cup {Old}

VARIABLES
  con,      \* the engine: the state of every container
  name,     \* the container that has the application's name
  target,   \* containerId of every upgrade task
  step,     \* the await every task function is at
  renames,  \* the upgrades whose finalConfig.name is the application's name
  refused   \* history: upgrades whose new container the engine would
            \* not rename or remove

upgradeVars == <<con, name, target, step, renames, refused>>
vars == <<taskVars, upgradeVars>>

Step == {"none", "conflict", "inspect", "stop", "prepare", "create", "start", "remove",
         "rename", "undoStop", "undoRemove", "undoStart", "done", "failed"}

TypeOK ==
  /\ TasksTypeOK
  /\ con \in [Container -> {"none", "created", "running", "stopped"}]
  /\ name \in Container \cup {Nobody}
  /\ target \in [TaskId -> Container \cup {Nobody}]
  /\ step \in [TaskId -> Step]
  /\ renames \in SUBSET TaskId
  /\ refused \in SUBSET TaskId
  /\ name # Nobody => con[name] # "none"
  /\ \A t \in TaskId : fn[t] = "running" => target[t] # Nobody

Init ==
  /\ TasksInit
  /\ con = [c \in Container |-> IF c = Old THEN "running" ELSE "none"]
  /\ name = Old
  /\ target = [t \in TaskId |-> Nobody]
  /\ step = [t \in TaskId |-> "none"]
  /\ renames = {}
  /\ refused = {}

Exists(c) == con[c] # "none"
At(t, s) == up /\ step[t] = s
Goto(t, s) == step' = [step EXCEPT ![t] = s]
Becomes(c, state) == con' = [con EXCEPT ![c] = state]
-----------------------------------------------------------------------------
(***************************************************************************)
(* upgradeContainerAsync: looking for a conflict and creating the task is  *)
(* one segment; a conflicting request gets a task that fails at once.      *)
(***************************************************************************)
checkUpgradeConflictPending(c) ==
  \E t \in TaskId : target[t] = c /\ tasks[t] = "pending"

checkUpgradeConflict(c) ==
  \E t \in TaskId : target[t] = c /\ tasks[t] \in {"pending", "running"}

upgradeContainerAsync(t, c) ==
  /\ Exists(c)
  /\ createTask(t)
  /\ target' = [target EXCEPT ![t] = c]
  /\ Goto(t, IF checkUpgradeConflict(c) THEN "conflict" ELSE "none")
  /\ UNCHANGED <<con, name, renames, refused>>

StartTask(t) ==
  /\ executeTask(t)
  /\ Goto(t, IF step[t] = "conflict" THEN "failed" ELSE "inspect")
  /\ UNCHANGED <<con, name, target, renames, refused>>
-----------------------------------------------------------------------------
(***************************************************************************)
(* performContainerUpgrade and performActualUpgrade.                       *)
(***************************************************************************)

\* The container is inspected, the image pulled; either may fail.
Inspect(t) ==
  /\ At(t, "inspect")
  /\ \/ /\ Exists(target[t])
        /\ Goto(t, "stop")
        /\ renames' = IF name = target[t] THEN renames \cup {t} ELSE renames
     \/ Goto(t, "failed") /\ UNCHANGED renames
  /\ UNCHANGED <<taskVars, con, name, target, refused>>

stopped(c) == Becomes(c, IF con[c] = "running" THEN "stopped" ELSE con[c])

StopOld(t) ==
  /\ At(t, "stop")
  /\ \/ Exists(target[t]) /\ stopped(target[t]) /\ Goto(t, "prepare")
     \/ /\ EngineMayFail \/ ~ Exists(target[t])
        /\ Goto(t, "failed") /\ UNCHANGED con
  /\ UNCHANGED <<taskVars, name, target, renames, refused>>

\* A busy port or a missing network ends the upgrade outside of the try.
Prepare(t) ==
  /\ At(t, "prepare")
  /\ Goto(t, "create") \/ Goto(t, "failed")
  /\ UNCHANGED <<taskVars, con, name, target, renames, refused>>

Create(t) ==
  /\ At(t, "create")
  /\ \/ Becomes(t, "created") /\ Goto(t, "start")
     \/ Goto(t, "undoStart") /\ UNCHANGED con
  /\ UNCHANGED <<taskVars, name, target, renames, refused>>

Start(t) ==
  /\ At(t, "start")
  /\ \/ Exists(t) /\ Becomes(t, "running") /\ Goto(t, "remove")
     \/ Goto(t, "undoStop") /\ UNCHANGED con
  /\ UNCHANGED <<taskVars, name, target, renames, refused>>

RemoveOld(t) ==
  /\ At(t, "remove")
  /\ \/ /\ Exists(target[t])
        /\ Becomes(target[t], "none")
        /\ name' = IF name = target[t] THEN Nobody ELSE name
        /\ Goto(t, "rename")
     \/ /\ EngineMayFail \/ ~ Exists(target[t])
        /\ Goto(t, "undoStop") /\ UNCHANGED <<con, name>>
  /\ UNCHANGED <<taskVars, target, renames, refused>>

Refused(t) == EngineMayFail /\ refused' = refused \cup {t}

\* An error of the rename is caught and logged.  A name can be taken only once.
Renamed(t) == t \in renames /\ Exists(t) /\ name \in {Nobody, t}

RenameForgotten(t) ==
  /\ At(t, "rename")
  /\ Goto(t, "done")
  /\ UNCHANGED <<taskVars, con, name, target, renames, refused>>

RenameThrows(t) ==
  /\ At(t, "rename")
  /\ \/ Renamed(t) /\ name' = t /\ Goto(t, "done")
     \/ ~ Renamed(t) /\ UNCHANGED name /\ Goto(t, "undoStop")
  /\ UNCHANGED <<taskVars, con, target, renames, refused>>

Rename(t) ==
  /\ At(t, "rename")
  /\ \/ Renamed(t) /\ name' = t /\ UNCHANGED refused
     \/ ~ Renamed(t) /\ UNCHANGED <<name, refused>>
     \/ Refused(t) /\ UNCHANGED name
  /\ Goto(t, "done")
  /\ UNCHANGED <<taskVars, con, target, renames>>
-----------------------------------------------------------------------------
(***************************************************************************)
(* rollbackOnFailure: errors of the first two calls are ignored, one of    *)
(* the third is logged.                                                    *)
(***************************************************************************)
UndoStop(t) ==
  /\ At(t, "undoStop")
  /\ \/ stopped(t)
     \/ EngineMayFail /\ UNCHANGED con
  /\ Goto(t, "undoRemove")
  /\ UNCHANGED <<taskVars, name, target, renames, refused>>

UndoRemoveNot(t) ==
  /\ At(t, "undoRemove")
  /\ Goto(t, "undoStart")
  /\ UNCHANGED <<taskVars, con, name, target, renames, refused>>

UndoRemove(t) ==
  /\ At(t, "undoRemove")
  /\ \/ /\ Becomes(t, "none")
        /\ name' = IF name = t THEN Nobody ELSE name
        /\ UNCHANGED refused
     \/ Refused(t) /\ UNCHANGED <<con, name>>
  /\ Goto(t, "undoStart")
  /\ UNCHANGED <<taskVars, target, renames>>

UndoStart(t) ==
  /\ At(t, "undoStart")
  /\ \/ Exists(target[t]) /\ Becomes(target[t], "running")
     \/ (EngineMayFail \/ ~ Exists(target[t])) /\ UNCHANGED con
  /\ Goto(t, "failed")
  /\ UNCHANGED <<taskVars, name, target, renames, refused>>
-----------------------------------------------------------------------------
\* The task function returns or throws, which ends the task.
EndTask(t) ==
  /\ FunctionEnds(t)
  /\ \/ step[t] = "done" /\ outcome'[t] = "ok"
     \/ step[t] = "failed" /\ outcome'[t] = "error"
  /\ Goto(t, "none")
  /\ UNCHANGED <<con, name, target, renames, refused>>

\* A container ends and its restarts fail (on-failure, five attempts).
ContainerDies(c) ==
  /\ MayDie
  /\ con[c] = "running"
  /\ Becomes(c, "stopped")
  /\ UNCHANGED <<taskVars, name, target, step, renames, refused>>

OtherTaskStep ==
  /\ \/ \E t \in TaskId : Report(t) \/ deleteTask(t) \/ Expire(t)
     \/ cleanupExpiredTasks
     \/ Load
  /\ UNCHANGED upgradeVars

AgentDies ==
  /\ up /\ TasksDie
  /\ step' = [t \in TaskId |-> "none"]
  /\ UNCHANGED <<con, name, target, renames, refused>>

UpgradeStep(t) ==
  \/ Inspect(t) \/ StopOld(t) \/ Prepare(t) \/ Create(t) \/ Start(t) \/ RemoveOld(t)
  \/ Rename(t) \/ UndoStop(t) \/ UndoRemove(t) \/ UndoStart(t)

Next ==
  \/ \E t \in TaskId :
       \/ \E c \in Container : upgradeContainerAsync(t, c)
       \/ StartTask(t) \/ UpgradeStep(t) \/ EndTask(t)
  \/ \E c \in Container : ContainerDies(c)
  \/ OtherTaskStep
  \/ AgentDies

Spec == Init /\ [][Next]_vars
-----------------------------------------------------------------------------
(***************************************************************************)
(* Properties.                                                             *)
(***************************************************************************)

\* The process died while it worked on t.
Interrupted(t) == outcome[t] = "open" /\ fn[t] = "none" /\ tasks[t] # "pending"

\* The application is never without a container, whatever the engine refuses,
\* however upgrades overlap and wherever the agent dies.
AppSurvives == \E c \in Container : Exists(c)

\* Two upgrades work on one container only if the user has deleted the task of
\* one of them, which the search for conflicts then does not find.
Working(t) == step[t] \notin {"none", "conflict", "failed", "done"}

OneUpgrade ==
  \A t, u \in TaskId :
    /\ Working(t) /\ Working(u) /\ target[t] = target[u]
    /\ "none" \notin {tasks[t], tasks[u]}
    => t = u

\* An upgrade that reports success has replaced its container, and one that
\* reports failure has left no second one behind, unless the engine refused to
\* remove that one.
EndsClean ==
  \A t \in TaskId : /\ outcome[t] = "ok" => ~ Exists(target[t])
                    /\ outcome[t] = "error" /\ t \notin refused => ~ Exists(t)

\* The application's name, by which the agent finds its containers again, is
\* only without an owner while an upgrade is about to take it over; unless the
\* engine refused that, the agent died before it, or the user had a container
\* upgraded that did not have the name yet.
TooEarly(t) == target[t] \in TaskId /\ t \notin renames

NameKept ==
  name = Nobody => \E t \in TaskId : \/ step[t] = "rename" \/ t \in refused
                                     \/ Interrupted(t) \/ TooEarly(t)

\* AppUpgradeModal.vue:69: an upgrade interrupts the application briefly.  Where
\* containers do not end by themselves (MayDie = FALSE) and neither an upgrade is
\* under way nor the agent died in one, the application runs.
BriefInterruption ==
  (\A t \in TaskId : outcome[t] \in {"unused", "ok", "error"})
    => \E c \in Container : con[c] = "running"
=============================================================================
