---------------------------- MODULE UpgradeProofs ----------------------------
(***************************************************************************)
(* The safety of container upgrades, for any number of upgrades of one     *)
(* application that overlap, follow each other or are cut off by a crash.  *)
(*                                                                         *)
(* None of the properties is inductive.  That the application survives     *)
(* rests on the order in which containers replace each other: a container  *)
(* is only removed by an upgrade that has started a newer one, and of the  *)
(* upgrades that descend from a container there is always one that nobody  *)
(* takes back.  Descent is a transitive closure; Closed says it with sets. *)
(***************************************************************************)
EXTENDS ContainerUpgrade, TaskManagerProofs

\* The upgrades whose container has not been created yet.
Early(t) ==
  \/ outcome[t] = "unused" \/ tasks[t] = "pending"
  \/ step[t] \in {"inspect", "stop", "prepare", "create"}

\* A task function is at an await only while it runs; the conflicting task waits to start.
StepsOK ==
  \A t \in TaskId :
    /\ step[t] \notin {"none", "conflict"} => fn[t] = "running"
    /\ step[t] = "conflict" => tasks[t] = "pending"
    /\ (outcome[t] = "unused") <=> (target[t] = Nobody)

\* Nobody upgrades a container that has not been created.
NotYet == \A t \in TaskId : Early(t) => con[t] = "none" /\ \A u \in TaskId : target[u] # t

\* With a container, all that was made to replace it.
Closed(U) == \A t \in TaskId : target[t] \in U => t \in U

\* Nothing descends from its own replacement.
NoCycle ==
  \A t \in TaskId : target[t] # Nobody =>
    \E U \in SUBSET Container : Closed(U) /\ t \in U /\ target[t] \notin U

\* The upgrade that made the container will not take it back.
Solid(c) == c \in TaskId => step[c] \notin {"start", "remove", "undoStop", "undoRemove"}

\* Before an upgrade removes the old container, its own or one that replaced it is there.
Heirs ==
  \A t \in TaskId : step[t] = "remove" =>
    \A U \in SUBSET Container : Closed(U) /\ t \in U =>
      \E c \in U : Exists(c) /\ (c = t \/ Solid(c))

Survivor ==
  \A U \in SUBSET Container : Closed(U) /\ Old \in U => \E c \in U : Exists(c) /\ Solid(c)

\* An upgrade the search for conflicts finds.
Claims(t) == tasks[t] \in {"pending", "running"} /\ step[t] \notin {"conflict", "failed"}

OneClaim == \A t, u \in TaskId : Claims(t) /\ Claims(u) /\ target[t] = target[u] => t = u

\* What was removed does not come back.
CleanSteps ==
  \A t \in TaskId :
    /\ step[t] \in {"rename", "done"} => ~ Exists(target[t])
    /\ step[t] \in {"undoStart", "failed"} /\ t \notin refused => ~ Exists(t)

\* Where the application's name is.
NameOK ==
  /\ Exists(Old) => name = Old
  /\ name \in TaskId => step[name] \in {"done", "none"} /\ ~ Early(name)
  /\ \A t \in TaskId :
       /\ t \in renames => target[t] # Nobody
       /\ target[t] = Old /\ step[t] \in {"stop", "prepare", "create", "start", "remove", "rename"}
            => t \in renames
       /\ t \in renames /\ target[t] \in TaskId => step[target[t]] \in {"done", "none"}
       /\ step[t] \in {"remove", "rename"} /\ ~ Exists(t)
            => \E u \in TaskId : target[u] = t /\ u \notin renames

UpgradeInv ==
  /\ TasksInv /\ TypeOK /\ StepsOK /\ NotYet
  /\ NoCycle /\ Heirs /\ Survivor
  /\ OneClaim
  /\ CleanSteps /\ EndsClean
  /\ NameOK /\ NameKept
-----------------------------------------------------------------------------
(***************************************************************************)
(* What the steps do, as far as the invariant tells them apart: which      *)
(* await a task goes on to, and which container appears or goes away.      *)
(***************************************************************************)
TypesOK ==
  /\ con \in [Container -> {"none", "created", "running", "stopped"}]
  /\ name \in Container \cup {Nobody}
  /\ target \in [TaskId -> Container \cup {Nobody}]
  /\ step \in [TaskId -> Step]
  /\ renames \in SUBSET TaskId
  /\ refused \in SUBSET TaskId

Moves(t, from, to) ==
  /\ step[t] = from /\ step'[t] = to /\ \A u \in TaskId : u # t => step'[u] = step[u]
  /\ UNCHANGED <<taskVars, target>>

SameBut(C) == \A c \in Container \ C : (con'[c] = "none") <=> (con[c] = "none")

Plain == {<<"inspect", "failed">>, <<"stop", "prepare">>, <<"stop", "failed">>,
          <<"prepare", "create">>, <<"prepare", "failed">>, <<"create", "undoStart">>,
          <<"start", "remove">>, <<"start", "undoStop">>, <<"remove", "undoStop">>,
          <<"undoStop", "undoRemove">>, <<"undoStart", "failed">>}

Goes(t) ==
  \E from, to \in Step :
    /\ <<from, to>> \in Plain /\ Moves(t, from, to) /\ SameBut({})
    /\ to = "remove" => Exists(t)
    /\ UNCHANGED <<name, renames, refused>>

Inspects(t) ==
  /\ Moves(t, "inspect", "stop") /\ SameBut({}) /\ Exists(target[t])
  /\ renames' = IF name = target[t] THEN renames \cup {t} ELSE renames
  /\ UNCHANGED <<name, refused>>

Creates(t) ==
  /\ Moves(t, "create", "start") /\ SameBut({t}) /\ con'[t] # "none"
  /\ UNCHANGED <<name, renames, refused>>

Removes(t) ==
  /\ Moves(t, "remove", "rename") /\ SameBut({target[t]})
  /\ Exists(target[t]) /\ con'[target[t]] = "none"
  /\ name' = IF name = target[t] THEN Nobody ELSE name
  /\ UNCHANGED <<renames, refused>>

Renaming(t) ==
  /\ Moves(t, "rename", "done") /\ SameBut({}) /\ UNCHANGED renames
  /\ \/ Renamed(t) /\ name' = t /\ UNCHANGED refused
     \/ ~ Renamed(t) /\ UNCHANGED <<name, refused>>
     \/ refused' = refused \cup {t} /\ UNCHANGED name

Undoes(t) ==
  /\ Moves(t, "undoRemove", "undoStart") /\ UNCHANGED renames
  /\ \/ /\ SameBut({t}) /\ con'[t] = "none" /\ UNCHANGED refused
        /\ name' = IF name = t THEN Nobody ELSE name
     \/ SameBut({}) /\ refused' = refused \cup {t} /\ UNCHANGED name

LEMMA MoveOne ==
  ASSUME TypeOK, NEW t \in TaskId, NEW from \in Step, NEW to \in Step, At(t, from),
         Goto(t, to), UNCHANGED <<taskVars, target>>
  PROVE  Moves(t, from, to) /\ step' \in [TaskId -> Step] /\ up
BY DEF TypeOK, At, Goto, Moves

LEMMA BecomesOne ==
  ASSUME TypeOK, NEW c \in Container, NEW s \in {"none", "created", "running", "stopped"},
         Becomes(c, s)
  PROVE  /\ con' \in [Container -> {"none", "created", "running", "stopped"}]
         /\ SameBut({c}) /\ con'[c] = s
         /\ s # "none" /\ Exists(c) => SameBut({})
         /\ s = con[c] => SameBut({})
BY DEF TypeOK, Becomes, SameBut, Exists

LEMMA StoppedStays ==
  ASSUME TypeOK, NEW c \in Container, stopped(c)
  PROVE  con' \in [Container -> {"none", "created", "running", "stopped"}] /\ SameBut({})
<1>1. con[c] \in {"none", "created", "running", "stopped"}
  BY DEF TypeOK
<1>2. CASE con[c] = "running"
  BY <1>2, BecomesOne DEF stopped, Exists
<1>3. CASE con[c] # "running"
  BY <1>1, <1>3, BecomesOne DEF stopped
<1> QED BY <1>2, <1>3

LEMMA UnchangedSame == UNCHANGED con => SameBut({})
BY DEF SameBut

LEMMA UpgradeEffects ==
  ASSUME TypeOK, StepsOK, NEW t \in TaskId, UpgradeStep(t)
  PROVE  /\ TypesOK' /\ up
         /\ Goes(t) \/ Inspects(t) \/ Creates(t) \/ Removes(t) \/ Renaming(t) \/ Undoes(t)
<1>0. t \in Container /\ (step[t] \notin {"none", "conflict"} => target[t] \in Container)
  BY DEF StepsOK, TypeOK, Container
<1>t. TypesOK
  BY DEF TypeOK, TypesOK
<1>1. CASE Inspect(t)
  <2>1. At(t, "inspect") /\ UNCHANGED <<taskVars, con, name, target, refused>>
    BY <1>1 DEF Inspect
  <2>2. CASE /\ Exists(target[t]) /\ Goto(t, "stop")
             /\ renames' = IF name = target[t] THEN renames \cup {t} ELSE renames
    <3>1. Moves(t, "inspect", "stop") /\ step' \in [TaskId -> Step] /\ up
      BY <2>1, <2>2, MoveOne DEF Step
    <3> QED BY <1>t, <2>1, <2>2, <3>1, UnchangedSame DEF Inspects, TypesOK
  <2>3. CASE Goto(t, "failed") /\ UNCHANGED renames
    <3>1. Moves(t, "inspect", "failed") /\ step' \in [TaskId -> Step] /\ up
      BY <2>1, <2>3, MoveOne DEF Step
    <3> QED BY <1>t, <2>1, <2>3, <3>1, UnchangedSame DEF Goes, Plain, Step, TypesOK
  <2> QED BY <1>1, <2>2, <2>3 DEF Inspect
<1>2. CASE StopOld(t)
  <2>1. At(t, "stop") /\ UNCHANGED <<taskVars, name, target, renames, refused>>
    BY <1>2 DEF StopOld
  <2>2. PICK to \in {"prepare", "failed"} :
          Goto(t, to) /\ (stopped(target[t]) \/ UNCHANGED con)
    BY <1>2 DEF StopOld
  <2>3. Moves(t, "stop", to) /\ step' \in [TaskId -> Step] /\ up
    BY <2>1, <2>2, MoveOne DEF Step
  <2>4. con' \in [Container -> {"none", "created", "running", "stopped"}] /\ SameBut({})
    BY <1>0, <2>1, <2>2, StoppedStays, UnchangedSame DEF At, TypeOK
  <2> QED BY <1>t, <2>1, <2>3, <2>4 DEF Goes, Plain, Step, TypesOK
<1>3. CASE Prepare(t)
  <2>1. At(t, "prepare") /\ UNCHANGED <<taskVars, con, name, target, renames, refused>>
    BY <1>3 DEF Prepare
  <2>2. PICK to \in {"create", "failed"} : Goto(t, to)
    BY <1>3 DEF Prepare
  <2>3. Moves(t, "prepare", to) /\ step' \in [TaskId -> Step] /\ up
    BY <2>1, <2>2, MoveOne DEF Step
  <2> QED BY <1>t, <2>1, <2>3, UnchangedSame DEF Goes, Plain, Step, TypesOK
<1>4. CASE Create(t)
  <2>1. At(t, "create") /\ UNCHANGED <<taskVars, name, target, renames, refused>>
    BY <1>4 DEF Create
  <2>2. CASE Becomes(t, "created") /\ Goto(t, "start")
    <3>1. Moves(t, "create", "start") /\ step' \in [TaskId -> Step] /\ up
      BY <2>1, <2>2, MoveOne DEF Step
    <3> QED BY <1>0, <1>t, <2>1, <2>2, <3>1, BecomesOne DEF Creates, TypesOK
  <2>3. CASE Goto(t, "undoStart") /\ UNCHANGED con
    <3>1. Moves(t, "create", "undoStart") /\ step' \in [TaskId -> Step] /\ up
      BY <2>1, <2>3, MoveOne DEF Step
    <3> QED BY <1>t, <2>1, <2>3, <3>1, UnchangedSame DEF Goes, Plain, Step, TypesOK
  <2> QED BY <1>4, <2>2, <2>3 DEF Create
<1>5. CASE Start(t)
  <2>1. At(t, "start") /\ UNCHANGED <<taskVars, name, target, renames, refused>>
    BY <1>5 DEF Start
  <2>2. CASE Exists(t) /\ Becomes(t, "running") /\ Goto(t, "remove")
    <3>1. Moves(t, "start", "remove") /\ step' \in [TaskId -> Step] /\ up
      BY <2>1, <2>2, MoveOne DEF Step
    <3> QED BY <1>0, <1>t, <2>1, <2>2, <3>1, BecomesOne DEF Goes, Plain, Step, TypesOK
  <2>3. CASE Goto(t, "undoStop") /\ UNCHANGED con
    <3>1. Moves(t, "start", "undoStop") /\ step' \in [TaskId -> Step] /\ up
      BY <2>1, <2>3, MoveOne DEF Step
    <3> QED BY <1>t, <2>1, <2>3, <3>1, UnchangedSame DEF Goes, Plain, Step, TypesOK
  <2> QED BY <1>5, <2>2, <2>3 DEF Start
<1>6. CASE RemoveOld(t)
  <2>1. At(t, "remove") /\ UNCHANGED <<taskVars, target, renames, refused>>
    BY <1>6 DEF RemoveOld
  <2>2. CASE /\ Exists(target[t]) /\ Becomes(target[t], "none")
             /\ name' = IF name = target[t] THEN Nobody ELSE name
             /\ Goto(t, "rename")
    <3>1. Moves(t, "remove", "rename") /\ step' \in [TaskId -> Step] /\ up
      BY <2>1, <2>2, MoveOne DEF Step
    <3>2. target[t] \in Container
      BY <1>0, <2>1 DEF At
    <3> QED BY <1>t, <2>1, <2>2, <3>1, <3>2, BecomesOne DEF Removes, TypesOK
  <2>3. CASE Goto(t, "undoStop") /\ UNCHANGED <<con, name>>
    <3>1. Moves(t, "remove", "undoStop") /\ step' \in [TaskId -> Step] /\ up
      BY <2>1, <2>3, MoveOne DEF Step
    <3> QED BY <1>t, <2>1, <2>3, <3>1, UnchangedSame DEF Goes, Plain, Step, TypesOK
  <2> QED BY <1>6, <2>2, <2>3 DEF RemoveOld
<1>7. CASE Rename(t)
  <2>1. At(t, "rename") /\ Goto(t, "done") /\ UNCHANGED <<taskVars, con, target, renames>>
    BY <1>7 DEF Rename
  <2>2. Moves(t, "rename", "done") /\ step' \in [TaskId -> Step] /\ up
    BY <2>1, MoveOne DEF Step
  <2>3. Renaming(t)
    BY <1>7, <2>1, <2>2, UnchangedSame DEF Rename, Renaming, Refused
  <2> QED BY <1>0, <1>t, <2>1, <2>2, <2>3 DEF Renaming, TypesOK
<1>8. CASE UndoStop(t)
  <2>1. /\ At(t, "undoStop") /\ Goto(t, "undoRemove")
        /\ UNCHANGED <<taskVars, name, target, renames, refused>>
        /\ stopped(t) \/ UNCHANGED con
    BY <1>8 DEF UndoStop
  <2>2. Moves(t, "undoStop", "undoRemove") /\ step' \in [TaskId -> Step] /\ up
    BY <2>1, MoveOne DEF Step
  <2>3. con' \in [Container -> {"none", "created", "running", "stopped"}] /\ SameBut({})
    BY <1>0, <2>1, StoppedStays, UnchangedSame DEF TypeOK
  <2> QED BY <1>t, <2>1, <2>2, <2>3 DEF Goes, Plain, Step, TypesOK
<1>9. CASE UndoRemove(t)
  <2>1. At(t, "undoRemove") /\ Goto(t, "undoStart") /\ UNCHANGED <<taskVars, target, renames>>
    BY <1>9 DEF UndoRemove
  <2>2. Moves(t, "undoRemove", "undoStart") /\ step' \in [TaskId -> Step] /\ up
    BY <2>1, MoveOne DEF Step
  <2>3. CASE /\ Becomes(t, "none") /\ UNCHANGED refused
             /\ name' = IF name = t THEN Nobody ELSE name
    BY <1>0, <1>t, <2>1, <2>2, <2>3, BecomesOne DEF Undoes, TypesOK
  <2>4. CASE Refused(t) /\ UNCHANGED <<con, name>>
    BY <1>t, <2>1, <2>2, <2>4, UnchangedSame DEF Undoes, TypesOK, Refused
  <2> QED BY <1>9, <2>3, <2>4 DEF UndoRemove
<1>10. CASE UndoStart(t)
  <2>1. /\ At(t, "undoStart") /\ Goto(t, "failed")
        /\ UNCHANGED <<taskVars, name, target, renames, refused>>
    BY <1>10 DEF UndoStart
  <2>2. Moves(t, "undoStart", "failed") /\ step' \in [TaskId -> Step] /\ up
    BY <2>1, MoveOne DEF Step
  <2>3. con' \in [Container -> {"none", "created", "running", "stopped"}] /\ SameBut({})
    <3>1. target[t] \in Container
      BY <1>0, <2>1 DEF At
    <3> QED BY <1>10, <3>1, BecomesOne, UnchangedSame DEF UndoStart, TypeOK
  <2> QED BY <1>t, <2>1, <2>2, <2>3 DEF Goes, Plain, Step, TypesOK
<1> QED BY <1>1, <1>2, <1>3, <1>4, <1>5, <1>6, <1>7, <1>8, <1>9, <1>10 DEF UpgradeStep

\* What the requests, the ends of tasks, the crash and everything else change.
OnlyTask(t) ==
  \A u \in TaskId : u # t =>
    /\ tasks'[u] = tasks[u] /\ fn'[u] = fn[u] /\ outcome'[u] = outcome[u]
    /\ step'[u] = step[u] /\ target'[u] = target[u]

Asks(t, c) ==
  /\ Exists(c) /\ OnlyTask(t) /\ UNCHANGED <<con, name, renames, refused, fn>>
  /\ outcome[t] = "unused" /\ outcome'[t] = "open" /\ tasks'[t] = "pending"
  /\ target'[t] = c
  /\ step'[t] = IF checkUpgradeConflict(c) THEN "conflict" ELSE "none"

Starts(t) ==
  /\ OnlyTask(t) /\ UNCHANGED <<con, name, target, renames, refused, outcome>>
  /\ tasks[t] = "pending" /\ tasks'[t] = "running" /\ fn'[t] = "running"
  /\ step'[t] = IF step[t] = "conflict" THEN "failed" ELSE "inspect"

Ends(t) ==
  /\ OnlyTask(t) /\ UNCHANGED <<con, name, target, renames, refused>>
  /\ fn[t] = "running" /\ fn'[t] = "over" /\ tasks'[t] \in {"completed", "failed", "none"}
  /\ step[t] \in {"done", "failed"} /\ step'[t] = "none"
  /\ outcome'[t] = IF step[t] = "done" THEN "ok" ELSE "error"

Elsewhere ==
  /\ SameBut({}) /\ UNCHANGED <<name, target, step, renames, refused, fn, outcome>>
  /\ \A t \in TaskId : /\ (tasks'[t] = "pending") <=> (tasks[t] = "pending")
                       /\ tasks'[t] = "running" => tasks[t] = "running"

Dies ==
  /\ UNCHANGED <<con, name, target, renames, refused, outcome>>
  /\ \A t \in TaskId : step'[t] = "none" /\ fn'[t] = "none" /\ tasks'[t] = "none"

LEMMA NextIsTasksNext == [Next]_vars => [TasksNext]_taskVars
BY DEF Next, vars, upgradeContainerAsync, StartTask, EndTask, ContainerDies, OtherTaskStep,
       AgentDies, TasksNext, TaskStep, UpgradeStep, Inspect, StopOld, Prepare, Create, Start,
       RemoveOld, Rename, UndoStop, UndoRemove, UndoStart

LEMMA AskEffects ==
  ASSUME TasksInv, TypeOK, NEW t \in TaskId, NEW c \in Container, upgradeContainerAsync(t, c)
  PROVE  TypesOK' /\ Asks(t, c)
<1>1. /\ Exists(c) /\ createTask(t) /\ target' = [target EXCEPT ![t] = c]
      /\ step' = [step EXCEPT ![t] = IF checkUpgradeConflict(c) THEN "conflict" ELSE "none"]
      /\ UNCHANGED <<con, name, renames, refused>>
  BY DEF upgradeContainerAsync, Goto
<1>2. /\ outcome[t] = "unused" /\ tasks' = [tasks EXCEPT ![t] = "pending"]
      /\ outcome' = [outcome EXCEPT ![t] = "open"] /\ UNCHANGED fn
  BY <1>1 DEF createTask
<1>3. TypesOK'
  BY <1>1 DEF TypeOK, TypesOK, Step
<1>4. OnlyTask(t)
  BY <1>1, <1>2 DEF OnlyTask, TasksInv, TasksTypeOK, TypeOK
<1> QED BY <1>1, <1>2, <1>3, <1>4 DEF Asks, TypeOK, TasksTypeOK

LEMMA StartEffects ==
  ASSUME TasksInv, TypeOK, NEW t \in TaskId, StartTask(t)
  PROVE  TypesOK' /\ Starts(t)
<1>1. /\ executeTask(t)
      /\ step' = [step EXCEPT ![t] = IF step[t] = "conflict" THEN "failed" ELSE "inspect"]
      /\ UNCHANGED <<con, name, target, renames, refused>>
  BY DEF StartTask, Goto
<1>2. /\ tasks[t] = "pending" /\ tasks' = [tasks EXCEPT ![t] = "running"]
      /\ fn' = [fn EXCEPT ![t] = "running"] /\ UNCHANGED outcome
  BY <1>1 DEF executeTask, updateTask
<1>3. TypesOK'
  BY <1>1 DEF TypeOK, TypesOK, Step
<1>4. OnlyTask(t)
  BY <1>1, <1>2 DEF OnlyTask, TasksTypeOK, TypeOK
<1> QED BY <1>1, <1>2, <1>3, <1>4 DEF Starts, TypeOK, TasksTypeOK

LEMMA EndEffects ==
  ASSUME TasksInv, TypeOK, NEW t \in TaskId, EndTask(t)
  PROVE  TypesOK' /\ Ends(t)
<1>1. /\ FunctionEnds(t) /\ step' = [step EXCEPT ![t] = "none"]
      /\ \/ step[t] = "done" /\ outcome'[t] = "ok"
         \/ step[t] = "failed" /\ outcome'[t] = "error"
      /\ UNCHANGED <<con, name, target, renames, refused>>
  BY DEF EndTask, Goto
<1>2. PICK s \in {"completed", "failed"}, how \in {"ok", "error"} :
        /\ fn[t] = "running" /\ fn' = [fn EXCEPT ![t] = "over"]
        /\ outcome' = [outcome EXCEPT ![t] = how] /\ updateTask(t, s)
  BY <1>1 DEF FunctionEnds
<1>3. /\ \A u \in TaskId : u # t => tasks'[u] = tasks[u]
      /\ tasks'[t] \in {s, "none"}
  BY <1>2, UpdateChangesOne DEF TasksInv, Status, Final
<1>4. TypesOK'
  BY <1>1 DEF TypeOK, TypesOK, Step
<1>5. OnlyTask(t)
  BY <1>1, <1>2, <1>3 DEF OnlyTask, TasksTypeOK, TypeOK
<1> QED BY <1>1, <1>2, <1>3, <1>4, <1>5 DEF Ends, TypeOK, TasksTypeOK

LEMMA OtherEffects ==
  ASSUME TasksInv, TypeOK,
         OtherTaskStep \/ (\E c \in Container : ContainerDies(c)) \/ UNCHANGED vars
  PROVE  TypesOK' /\ Elsewhere
<1>1. CASE OtherTaskStep
  <2>1. UNCHANGED upgradeVars /\ TypesOK' /\ SameBut({})
    BY <1>1, UnchangedSame DEF OtherTaskStep, TypesOK, TypeOK, upgradeVars
  <2>2. ASSUME NEW T \in SUBSET TaskId, deleteTasks(T), Quiet
        PROVE  \A t \in TaskId : /\ (tasks'[t] = "pending") <=> (tasks[t] = "pending")
                                 /\ tasks'[t] = "running" => tasks[t] = "running"
    BY <2>2 DEF deleteTasks, Quiet
  <2>3. CASE \E t \in TaskId : Report(t)
    <3>1. PICK t \in TaskId : Report(t)
      BY <2>3
    <3>2. UNCHANGED <<tasks, fn, outcome>>
      BY <3>1 DEF Report, updateTask, TasksInv, TasksTypeOK
    <3> QED BY <2>1, <3>2 DEF Elsewhere, upgradeVars
  <2>4. CASE \E t \in TaskId : deleteTask(t)
    BY <2>1, <2>2, <2>4 DEF deleteTask, Elsewhere, upgradeVars
  <2>5. CASE \E t \in TaskId : Expire(t)
    BY <2>1, <2>5 DEF Expire, Elsewhere, upgradeVars
  <2>6. CASE cleanupExpiredTasks
    BY <2>1, <2>2, <2>6 DEF cleanupExpiredTasks, Elsewhere, upgradeVars
  <2>7. CASE Load
    <3>1. \A t \in TaskId : tasks[t] = "none" /\ tasks'[t] \notin {"pending", "running"}
      BY <2>7 DEF Load, TasksInv, Halted
    <3> QED BY <2>1, <2>7, <3>1 DEF Load, Elsewhere, upgradeVars
  <2> QED BY <1>1, <2>3, <2>4, <2>5, <2>6, <2>7 DEF OtherTaskStep
<1>2. CASE \E c \in Container : ContainerDies(c)
  <2>1. PICK c \in Container : ContainerDies(c)
    BY <1>2
  <2>2. con' \in [Container -> {"none", "created", "running", "stopped"}] /\ SameBut({})
    BY <2>1, BecomesOne DEF ContainerDies, Exists
  <2> QED BY <2>1, <2>2 DEF ContainerDies, Elsewhere, TypesOK, TypeOK, taskVars
<1>3. CASE UNCHANGED vars
  BY <1>3, UnchangedSame DEF vars, upgradeVars, taskVars, Elsewhere, TypesOK, TypeOK
<1> QED BY <1>1, <1>2, <1>3

LEMMA DieEffects ==
  ASSUME TasksInv, TypeOK, AgentDies
  PROVE  TypesOK' /\ Dies
BY DEF AgentDies, TasksDie, TypesOK, TypeOK, Dies, Step

Effect ==
  \/ \E t \in TaskId :
       \/ Goes(t) \/ Inspects(t) \/ Creates(t) \/ Removes(t) \/ Renaming(t) \/ Undoes(t)
       \/ Starts(t) \/ Ends(t) \/ \E c \in Container : Asks(t, c)
  \/ Elsewhere
  \/ Dies

LEMMA NextEffects ==
  ASSUME TasksInv, TypeOK, StepsOK, [Next]_vars
  PROVE  TasksInv' /\ TypesOK' /\ Effect
<1>1. TasksInv'
  BY NextIsTasksNext, StepSafe
<1>2. ASSUME NEW t \in TaskId, UpgradeStep(t) PROVE TypesOK' /\ Effect
  BY <1>2, UpgradeEffects DEF Effect
<1>3. ASSUME NEW t \in TaskId, NEW c \in Container, upgradeContainerAsync(t, c)
      PROVE  TypesOK' /\ Effect
  BY <1>3, AskEffects DEF Effect
<1>4. ASSUME NEW t \in TaskId, StartTask(t) \/ EndTask(t) PROVE TypesOK' /\ Effect
  BY <1>4, StartEffects, EndEffects DEF Effect
<1>5. CASE OtherTaskStep \/ (\E c \in Container : ContainerDies(c)) \/ UNCHANGED vars
  BY <1>1, <1>5, OtherEffects DEF Effect
<1>6. CASE AgentDies
  BY <1>1, <1>6, DieEffects DEF Effect
<1> QED BY <1>1, <1>2, <1>3, <1>4, <1>5, <1>6 DEF Next
-----------------------------------------------------------------------------
(***************************************************************************)
(* Types, steps and what has not been created.                             *)
(***************************************************************************)
Basics == TasksInv /\ TypeOK /\ StepsOK /\ NotYet

LEMMA Distinct == Old \notin TaskId /\ Nobody \notin Container /\ TaskId \subseteq Container
BY UpgradeAssumption DEF UpgradeAssumption, Container

\* A task at an await is running, or its record is gone; it has a container to replace.
LEMMA AtAwait ==
  ASSUME Basics, NEW t \in TaskId, step[t] \notin {"none", "conflict"}
  PROVE  /\ fn[t] = "running" /\ outcome[t] = "open" /\ tasks[t] \in {"running", "none"}
         /\ target[t] \in Container
<1>1. fn[t] = "running" /\ outcome[t] = "open" /\ tasks[t] \in {"running", "none"}
  BY DEF Basics, StepsOK, TasksInv, Ours
<1>2. target[t] # Nobody
  BY <1>1 DEF Basics, StepsOK
<1> QED BY <1>1, <1>2 DEF Basics, TypeOK

\* The awaits of an upgrade, and the steps from one to the next.
Awaits == Step \ {"none", "conflict"}

UpgradeMoves(t) ==
  Goes(t) \/ Inspects(t) \/ Creates(t) \/ Removes(t) \/ Renaming(t) \/ Undoes(t)

LEMMA MovesOn ==
  ASSUME NEW t \in TaskId, UpgradeMoves(t)
  PROVE  \E from, to \in Awaits :
           /\ Moves(t, from, to) /\ from \notin {"done", "failed"}
           /\ to \in {"inspect", "stop", "prepare", "create"}
                => from \in {"inspect", "stop", "prepare", "create"}
<1>1. CASE Goes(t)
  <2>1. PICK from, to \in Step : <<from, to>> \in Plain /\ Moves(t, from, to)
    BY <1>1 DEF Goes
  <2>2. /\ from \in Awaits /\ to \in Awaits /\ from \notin {"done", "failed"}
        /\ to \in {"inspect", "stop", "prepare", "create"}
             => from \in {"inspect", "stop", "prepare", "create"}
    BY <2>1 DEF Plain, Awaits, Step
  <2> QED BY <2>1, <2>2
<1>2. CASE Inspects(t)
  BY <1>2 DEF Inspects, Awaits, Step
<1>3. CASE Creates(t)
  BY <1>3 DEF Creates, Awaits, Step
<1>4. CASE Removes(t)
  BY <1>4 DEF Removes, Awaits, Step
<1>5. CASE Renaming(t)
  BY <1>5 DEF Renaming, Awaits, Step
<1>6. CASE Undoes(t)
  BY <1>6 DEF Undoes, Awaits, Step
<1> QED BY <1>1, <1>2, <1>3, <1>4, <1>5, <1>6 DEF UpgradeMoves

LEMMA StepsKept ==
  ASSUME Basics, TasksInv', TypesOK', Effect
  PROVE  StepsOK'
<1>1. ASSUME NEW t \in TaskId, UpgradeMoves(t) PROVE StepsOK'
  <2>1. PICK from, to \in Awaits : Moves(t, from, to)
    BY <1>1, MovesOn
  <2> QED BY <2>1 DEF Moves, Awaits, StepsOK, Basics, taskVars
<1>2. ASSUME NEW t \in TaskId, Starts(t) PROVE StepsOK'
  BY <1>2 DEF Starts, OnlyTask, StepsOK, Basics, TypeOK
<1>3. ASSUME NEW t \in TaskId, Ends(t) PROVE StepsOK'
  <2>1. outcome[t] = "open"
    BY <1>3 DEF Ends, Basics, TasksInv, Ours
  <2> QED BY <1>3, <2>1 DEF Ends, OnlyTask, StepsOK, Basics
<1>4. ASSUME NEW t \in TaskId, NEW c \in Container, Asks(t, c) PROVE StepsOK'
  BY <1>4, Distinct DEF Asks, OnlyTask, StepsOK, Basics
<1>5. CASE Elsewhere
  BY <1>5 DEF Elsewhere, StepsOK, Basics
<1>6. CASE Dies
  BY <1>6 DEF Dies, StepsOK, Basics
<1> QED BY <1>1, <1>2, <1>3, <1>4, <1>5, <1>6 DEF Effect, UpgradeMoves

LEMMA NotYetKept ==
  ASSUME Basics, TasksInv', TypesOK', Effect
  PROVE  NotYet'
<1> SUFFICES ASSUME NEW u \in TaskId, Early(u)'
             PROVE  con'[u] = "none" /\ \A w \in TaskId : target'[w] # u
  BY DEF NotYet
<1>0. u \in Container /\ NotYet /\ StepsOK
  BY Distinct DEF Basics
<1>1. ASSUME NEW t \in TaskId, UpgradeMoves(t)
      PROVE con'[u] = "none" /\ \A w \in TaskId : target'[w] # u
  <2>1. PICK from, to \in Awaits :
          /\ Moves(t, from, to)
          /\ to \in {"inspect", "stop", "prepare", "create"}
                => from \in {"inspect", "stop", "prepare", "create"}
    BY <1>1, MovesOn
  <2>2. Early(u)
    BY <2>1 DEF Moves, Early, taskVars
  <2>3. Creates(t) => u # t
    BY DEF Creates, Moves, Early, taskVars, Awaits, Basics, StepsOK, TasksInv, Ours
  <2>4. con[u] = "none" /\ \A w \in TaskId : target[w] # u
    BY <1>0, <2>2 DEF NotYet
  <2> QED BY <1>0, <1>1, <2>1, <2>3, <2>4
          DEF UpgradeMoves, Moves, Goes, Inspects, Creates, Removes, Renaming, Undoes, SameBut
<1>2. ASSUME NEW t \in TaskId, Starts(t)
      PROVE con'[u] = "none" /\ \A w \in TaskId : target'[w] # u
  BY <1>0, <1>2 DEF Starts, OnlyTask, Early, NotYet
<1>3. ASSUME NEW t \in TaskId, Ends(t)
      PROVE con'[u] = "none" /\ \A w \in TaskId : target'[w] # u
  BY <1>0, <1>3 DEF Ends, OnlyTask, Early, NotYet
<1>4. ASSUME NEW t \in TaskId, NEW c \in Container, Asks(t, c)
      PROVE  con'[u] = "none" /\ \A w \in TaskId : target'[w] # u
  <2>1. con[u] = "none" /\ \A w \in TaskId : target[w] # u
    BY <1>0, <1>4 DEF Asks, OnlyTask, Early, NotYet
  <2> QED BY <1>4, <2>1 DEF Asks, OnlyTask, Exists
<1>5. CASE Elsewhere
  BY <1>0, <1>5 DEF Elsewhere, Early, NotYet, SameBut
<1>6. CASE Dies
  BY <1>0, <1>6 DEF Dies, Early, NotYet
<1> QED BY <1>1, <1>2, <1>3, <1>4, <1>5, <1>6 DEF Effect, UpgradeMoves

LEMMA BasicsKept ==
  ASSUME Basics, TasksInv', TypesOK', Effect
  PROVE  Basics'
<1>1. StepsOK' /\ NotYet'
  BY StepsKept, NotYetKept
<1>2. \A t \in TaskId : fn'[t] = "running" => target'[t] # Nobody
  BY <1>1 DEF StepsOK, TasksInv, Ours
<1>3. name' # Nobody => con'[name'] # "none"
  <2> SUFFICES ASSUME name' # Nobody PROVE con'[name'] # "none"
    OBVIOUS
  <2>0. name # Nobody => name \in Container /\ con[name] # "none"
    BY DEF Basics, TypeOK
  <2>1. ASSUME NEW t \in TaskId, UpgradeMoves(t) PROVE con'[name'] # "none"
    <3>1. CASE Goes(t)
      BY <2>0, <3>1 DEF Goes, SameBut
    <3>2. CASE Inspects(t)
      BY <2>0, <3>2 DEF Inspects, SameBut
    <3>3. CASE Creates(t)
      BY <2>0, <3>3 DEF Creates, SameBut
    <3>4. CASE Removes(t)
      BY <2>0, <3>4 DEF Removes, SameBut
    <3>5. CASE Renaming(t)
      BY <2>0, <3>5, Distinct DEF Renaming, Renamed, Exists, SameBut
    <3>6. CASE Undoes(t)
      BY <2>0, <3>6 DEF Undoes, SameBut
    <3> QED BY <2>1, <3>1, <3>2, <3>3, <3>4, <3>5, <3>6 DEF UpgradeMoves
  <2>2. ASSUME UNCHANGED name, UNCHANGED con \/ SameBut({}) PROVE con'[name'] # "none"
    BY <2>0, <2>2 DEF SameBut
  <2>3. ASSUME NEW t \in TaskId, Starts(t) \/ Ends(t) \/ \E c \in Container : Asks(t, c)
        PROVE  UNCHANGED <<name, con>>
    BY <2>3 DEF Starts, Ends, Asks
  <2>4. ASSUME Elsewhere \/ Dies PROVE UNCHANGED name /\ (UNCHANGED con \/ SameBut({}))
    BY <2>4 DEF Elsewhere, Dies
  <2> QED BY <2>1, <2>2, <2>3, <2>4 DEF Effect, UpgradeMoves
<1> QED BY <1>1, <1>2, <1>3 DEF Basics, TypeOK, TypesOK, TasksInv
-----------------------------------------------------------------------------
(***************************************************************************)
(* The application survives.                                               *)
(***************************************************************************)
\* The target of a task only changes when the task is created.
LEMMA TargetsStay ==
  ASSUME Effect
  PROVE  UNCHANGED target \/ \E t \in TaskId, c \in Container : Asks(t, c)
BY DEF Effect, Goes, Inspects, Creates, Removes, Renaming, Undoes, Moves, Starts, Ends,
       Elsewhere, Dies

LEMMA TargetKept ==
  ASSUME Basics, Effect, NEW t \in TaskId, target[t] # Nobody
  PROVE  target'[t] = target[t]
BY TargetsStay DEF Asks, OnlyTask, Basics, StepsOK

LEMMA AskedIsNew ==
  ASSUME Basics, NEW t \in TaskId, NEW c \in Container, Asks(t, c)
  PROVE  /\ con[t] = "none" /\ c # t /\ target[t] = Nobody
         /\ \A u \in TaskId : target[u] # t
BY DEF Basics, NotYet, Early, StepsOK, Asks, Exists

\* A set that is closed after a step was closed before it.
LEMMA ClosedBefore ==
  ASSUME Basics, Effect, NEW U \in SUBSET Container, Closed(U)'
  PROVE  Closed(U)
<1>1. CASE UNCHANGED target
  BY <1>1 DEF Closed
<1>2. ASSUME NEW t \in TaskId, NEW c \in Container, Asks(t, c) PROVE Closed(U)
  BY <1>2, AskedIsNew, Distinct DEF Closed, Asks, OnlyTask
<1> QED BY <1>1, <1>2, TargetsStay

LEMMA NoCycleKept ==
  ASSUME Basics, NoCycle, Effect
  PROVE  NoCycle'
<1>1. CASE UNCHANGED target
  BY <1>1 DEF NoCycle, Closed
<1>2. ASSUME NEW t \in TaskId, NEW c \in Container, Asks(t, c) PROVE NoCycle'
  <2>1. /\ c # t /\ target[t] = Nobody /\ target'[t] = c
        /\ \A u \in TaskId : target[u] # t /\ (u # t => target'[u] = target[u])
    BY <1>2, AskedIsNew DEF Asks, OnlyTask
  <2> SUFFICES ASSUME NEW u \in TaskId, target'[u] # Nobody
               PROVE  \E W \in SUBSET Container : Closed(W)' /\ u \in W /\ target'[u] \notin W
    BY DEF NoCycle
  <2>2. CASE u = t
    <3>1. {t} \in SUBSET Container /\ Closed({t})'
      BY <2>1, Distinct DEF Closed
    <3> QED BY <2>1, <2>2, <3>1
  <2>3. CASE u # t
    <3>1. PICK U \in SUBSET Container : Closed(U) /\ u \in U /\ target[u] \notin U
      BY <2>1, <2>3 DEF NoCycle
    <3>2. CASE c \in U
      <4>1. U \cup {t} \in SUBSET Container /\ Closed(U \cup {t})'
        BY <2>1, <3>1, Distinct DEF Closed
      <4> QED BY <2>1, <2>3, <3>1, <4>1
    <3>3. CASE c \notin U
      <4>1. Closed(U)'
        BY <2>1, <3>1, <3>3 DEF Closed
      <4> QED BY <2>1, <2>3, <3>1, <4>1
    <3> QED BY <3>2, <3>3
  <2> QED BY <2>2, <2>3
<1> QED BY <1>1, <1>2, TargetsStay

\* A container of U that exists and that only t may take back.
Kept(U, t) == \E c \in U : Exists(c) /\ (c = t \/ Solid(c))

\* Removing a container leaves the heirs of the upgrade that removes it.
LEMMA RemovalLeavesHeir ==
  ASSUME Basics, NoCycle, Heirs, NEW t \in TaskId, Removes(t),
         NEW U \in SUBSET Container, Closed(U), target[t] \in U
  PROVE  \E c \in U : c # target[t] /\ Exists(c) /\ (c = t \/ Solid(c))
<1>1. step[t] = "remove" /\ target[t] # Nobody
  BY AtAwait, Distinct DEF Removes, Moves
<1>2. PICK W \in SUBSET Container : Closed(W) /\ t \in W /\ target[t] \notin W
  BY <1>1 DEF NoCycle
<1>3. Closed(U \cap W) /\ t \in U \cap W /\ U \cap W \in SUBSET Container
  BY <1>2 DEF Closed
<1>4. \E c \in U \cap W : Exists(c) /\ (c = t \/ Solid(c))
  BY <1>1, <1>3 DEF Heirs
<1> QED BY <1>2, <1>4

\* What stands in U before a step has something that stands in U after it: the one
\* lemma behind Heirs and Survivor.
LEMMA KeptStays ==
  ASSUME Basics, NoCycle, Heirs, TypesOK', Effect,
         NEW U \in SUBSET Container, Closed(U), NEW h \in Container, Kept(U, h),
         h \in TaskId => step[h] = "remove" /\ step'[h] = "remove"
  PROVE  Kept(U, h)'
<1>1. PICK c \in U : Exists(c) /\ (c = h \/ Solid(c))
  BY DEF Kept
<1>0. h \notin TaskId => h = Old
  BY DEF Container
<1>2. ASSUME NEW t \in TaskId, Moves(t, step[t], step'[t]),
             SameBut({}), step'[t] \in {"start", "remove", "undoStop", "undoRemove"}
                  => step[t] \in {"start", "remove", "undoStop", "undoRemove"}
      PROVE  Kept(U, h)'
  BY <1>1, <1>2 DEF Kept, Moves, SameBut, Exists, Solid
<1>3. ASSUME NEW t \in TaskId, Goes(t) PROVE Kept(U, h)'
  <2>1. PICK from, to \in Step : <<from, to>> \in Plain /\ Moves(t, from, to) /\ SameBut({})
    BY <1>3 DEF Goes
  <2>2. to \in {"start", "remove", "undoStop", "undoRemove"}
          => from \in {"start", "remove", "undoStop", "undoRemove"}
    BY <2>1 DEF Plain
  <2> QED BY <1>2, <2>1, <2>2 DEF Moves
<1>4. ASSUME NEW t \in TaskId, Inspects(t) \/ Renaming(t) PROVE Kept(U, h)'
  <2>1. Moves(t, step[t], step'[t]) /\ SameBut({}) /\ step'[t] \in {"stop", "done"}
    BY <1>4 DEF Inspects, Renaming, Moves
  <2> QED BY <1>2, <2>1
<1>5. ASSUME NEW t \in TaskId, Creates(t) PROVE Kept(U, h)'
  <2>1. con[t] = "none"
    BY <1>5 DEF Creates, Moves, Basics, NotYet, Early
  <2> QED BY <1>1, <1>5, <2>1 DEF Creates, Kept, Moves, SameBut, Exists, Solid
<1>6. ASSUME NEW t \in TaskId, Removes(t) PROVE Kept(U, h)'
  <2>1. PICK d \in U : d # target[t] /\ Exists(d) /\ (d = h \/ d = t \/ Solid(d))
    <3>1. CASE c # target[t]
      BY <1>1, <3>1
    <3>2. CASE c = target[t]
      BY <1>6, <3>2, RemovalLeavesHeir
    <3> QED BY <3>1, <3>2
  <2> QED BY <1>6, <2>1 DEF Removes, Kept, Moves, SameBut, Exists, Solid
<1>7. ASSUME NEW t \in TaskId, Undoes(t) PROVE Kept(U, h)'
  <2>1. step[t] = "undoRemove" /\ c # t
    BY <1>1, <1>7 DEF Undoes, Moves, Solid
  <2> QED BY <1>1, <1>7, <2>1 DEF Undoes, Kept, Moves, SameBut, Exists, Solid
<1>8. ASSUME NEW t \in TaskId, Starts(t) \/ Ends(t) \/ \E b \in Container : Asks(t, b)
      PROVE  Kept(U, h)'
  <2>1. UNCHANGED con /\ OnlyTask(t)
        /\ step'[t] \notin {"start", "remove", "undoStop", "undoRemove"}
    BY <1>8 DEF Starts, Ends, Asks
  <2> QED BY <1>1, <2>1 DEF Kept, OnlyTask, Exists, Solid
<1>9. CASE Elsewhere
  BY <1>1, <1>9 DEF Elsewhere, Kept, SameBut, Exists, Solid
<1>10. CASE Dies
  BY <1>1, <1>10 DEF Dies, Kept, Exists, Solid
<1> QED BY <1>3, <1>4, <1>5, <1>6, <1>7, <1>8, <1>9, <1>10 DEF Effect

LEMMA SurvivorKept ==
  ASSUME Basics, NoCycle, Heirs, Survivor, TypesOK', Effect
  PROVE  Survivor'
<1> SUFFICES ASSUME NEW U \in SUBSET Container, Closed(U)', Old \in U
             PROVE  \E c \in U : Exists(c)' /\ Solid(c)'
  BY DEF Survivor
<1>1. Closed(U)
  BY ClosedBefore
<1>2. Kept(U, Old)
  BY <1>1 DEF Survivor, Kept
<1>3. Old \in Container /\ Old \notin TaskId /\ Solid(Old)'
  BY Distinct DEF Container, Solid
<1> QED BY <1>1, <1>2, <1>3, KeptStays DEF Kept

LEMMA HeirsKept ==
  ASSUME Basics, NoCycle, Heirs, TypesOK', Effect
  PROVE  Heirs'
<1> SUFFICES ASSUME NEW h \in TaskId, step'[h] = "remove",
                    NEW U \in SUBSET Container, Closed(U)', h \in U
             PROVE  Kept(U, h)'
  BY DEF Heirs, Kept
<1>1. Closed(U) /\ h \in Container
  BY ClosedBefore, Distinct
<1>2. CASE step[h] = "remove"
  <2>1. Kept(U, h)
    BY <1>1, <1>2 DEF Heirs, Kept
  <2> QED BY <1>1, <1>2, <2>1, KeptStays
<1>3. CASE step[h] # "remove"
  <2>1. ASSUME NEW t \in TaskId, Goes(t) PROVE Exists(h)'
    <3>1. PICK from, to \in Step : Moves(t, from, to) /\ SameBut({}) /\ (to = "remove" => Exists(t))
      BY <2>1 DEF Goes
    <3>2. h = t /\ to = "remove"
      BY <1>3, <3>1 DEF Moves
    <3> QED BY <1>1, <3>1, <3>2 DEF SameBut, Exists
  <2>2. ASSUME NEW t \in TaskId,
               Inspects(t) \/ Creates(t) \/ Removes(t) \/ Renaming(t) \/ Undoes(t)
        PROVE  FALSE
    BY <1>3, <2>2 DEF Inspects, Creates, Removes, Renaming, Undoes, Moves
  <2>3. ASSUME NEW t \in TaskId, Starts(t) \/ Ends(t) \/ \E b \in Container : Asks(t, b)
        PROVE  FALSE
    BY <1>3, <2>3 DEF Starts, Ends, Asks, OnlyTask
  <2>4. Elsewhere \/ Dies => FALSE
    BY <1>3 DEF Elsewhere, Dies
  <2> QED BY <2>1, <2>2, <2>3, <2>4 DEF Effect, Kept
<1> QED BY <1>2, <1>3

LEMMA SurvivorSurvives ==
  ASSUME Survivor
  PROVE  AppSurvives
<1>1. Closed(Container) /\ Old \in Container
  BY Distinct DEF Closed, Container
<1> QED BY <1>1 DEF Survivor, AppSurvives
-----------------------------------------------------------------------------
(***************************************************************************)
(* One upgrade of a container at a time, and what an upgrade leaves.       *)
(***************************************************************************)
LEMMA OneClaimKept ==
  ASSUME Basics, OneClaim, TypesOK', Effect
  PROVE  OneClaim'
<1>1. ASSUME UNCHANGED target, \A t \in TaskId : Claims(t)' => Claims(t)
      PROVE  OneClaim'
  BY <1>1 DEF OneClaim
<1>2. ASSUME NEW t \in TaskId, UpgradeMoves(t) PROVE OneClaim'
  <2>1. PICK from, to \in Awaits : Moves(t, from, to) /\ from \notin {"done", "failed"}
    BY <1>2, MovesOn
  <2>2. UNCHANGED target /\ \A u \in TaskId : Claims(u)' => Claims(u)
    BY <2>1 DEF Moves, Claims, Awaits, taskVars
  <2> QED BY <1>1, <2>2
<1>3. ASSUME NEW t \in TaskId, Starts(t) PROVE OneClaim'
  <2>1. step[t] \in {"none", "conflict"}
    BY <1>3, AtAwait DEF Starts
  <2>2. UNCHANGED target /\ \A u \in TaskId : Claims(u)' => Claims(u)
    BY <1>3, <2>1 DEF Starts, OnlyTask, Claims
  <2> QED BY <1>1, <2>2
<1>4. ASSUME NEW t \in TaskId, Ends(t) PROVE OneClaim'
  <2>1. UNCHANGED target /\ \A u \in TaskId : Claims(u)' => Claims(u)
    BY <1>4 DEF Ends, OnlyTask, Claims
  <2> QED BY <1>1, <2>1
<1>5. ASSUME NEW t \in TaskId, NEW c \in Container, Asks(t, c) PROVE OneClaim'
  <2>1. Claims(t)' => \A u \in TaskId : target[u] = c => ~ Claims(u)
    BY <1>5 DEF Asks, Claims, checkUpgradeConflict
  <2>2. \A u \in TaskId : u # t => target'[u] = target[u] /\ (Claims(u)' => Claims(u))
    BY <1>5 DEF Asks, OnlyTask, Claims
  <2>3. target'[t] = c
    BY <1>5 DEF Asks
  <2> QED BY <2>1, <2>2, <2>3 DEF OneClaim
<1>6. CASE Elsewhere
  <2>1. UNCHANGED target /\ \A u \in TaskId : Claims(u)' => Claims(u)
    BY <1>6 DEF Elsewhere, Claims
  <2> QED BY <1>1, <2>1
<1>7. CASE Dies
  BY <1>7 DEF Dies, OneClaim, Claims
<1> QED BY <1>2, <1>3, <1>4, <1>5, <1>6, <1>7 DEF Effect, UpgradeMoves

LEMMA OneClaimOneUpgrade ==
  ASSUME Basics, OneClaim
  PROVE  OneUpgrade
<1>1. \A t \in TaskId : Working(t) /\ tasks[t] # "none" => Claims(t)
  BY AtAwait DEF Working, Claims
<1> QED BY <1>1 DEF OneClaim, OneUpgrade

\* A container that is gone comes back only where it is created.
LEMMA NoReturn ==
  ASSUME Effect, NEW c \in Container, con[c] = "none"
  PROVE  con'[c] = "none" \/ (c \in TaskId /\ Creates(c))
<1>1. \A t \in TaskId : Goes(t) \/ Inspects(t) \/ Removes(t) \/ Renaming(t) \/ Undoes(t)
                        => con'[c] = "none"
  BY DEF Goes, Inspects, Removes, Renaming, Undoes, SameBut
<1>2. \A t \in TaskId : Creates(t) /\ t # c => con'[c] = "none"
  BY DEF Creates, SameBut
<1>3. \A t \in TaskId : Starts(t) \/ Ends(t) \/ (\E b \in Container : Asks(t, b))
                        => con'[c] = "none"
  BY DEF Starts, Ends, Asks
<1>4. Elsewhere \/ Dies => con'[c] = "none"
  BY DEF Elsewhere, Dies, SameBut
<1> QED BY <1>1, <1>2, <1>3, <1>4 DEF Effect

LEMMA TargetsStayGone ==
  ASSUME Basics, Effect, NEW t \in TaskId, target[t] \in Container, con[target[t]] = "none"
  PROVE  con'[target[t]] = "none"
<1>1. target[t] \in TaskId => ~ Creates(target[t])
  BY DEF Basics, NotYet, Early, Creates, Moves
<1> QED BY <1>1, NoReturn

\* How an upgrade comes to the steps after which its container or the old one is gone.
LEMMA CleanStepsKept ==
  ASSUME Basics, CleanSteps, TypesOK', Basics', Effect
  PROVE  CleanSteps'
<1>1. ASSUME NEW t \in TaskId, step'[t] \in {"rename", "done"}
      PROVE  con'[target'[t]] = "none"
  <2>1. step[t] \in {"rename", "done"} \/ Removes(t)
    <3>1. \A u \in TaskId : u # t /\ UpgradeMoves(u) => step'[t] = step[t]
      BY DEF UpgradeMoves, Goes, Inspects, Creates, Removes, Renaming, Undoes, Moves
    <3>2. Goes(t) => step'[t] \notin {"rename", "done"}
      BY DEF Goes, Plain, Moves
    <3>3. Inspects(t) \/ Creates(t) \/ Undoes(t) => step'[t] \notin {"rename", "done"}
      BY DEF Inspects, Creates, Undoes, Moves
    <3>4. Renaming(t) => step[t] = "rename"
      BY DEF Renaming, Moves
    <3>5. \A u \in TaskId : Starts(u) \/ Ends(u) \/ (\E c \in Container : Asks(u, c))
                            => step'[t] = step[t] \/ step'[t] \notin {"rename", "done"}
      BY DEF Starts, Ends, Asks, OnlyTask
    <3>6. Elsewhere \/ Dies => step'[t] = step[t] \/ step'[t] \notin {"rename", "done"}
      BY DEF Elsewhere, Dies
    <3> QED BY <1>1, <3>1, <3>2, <3>3, <3>4, <3>5, <3>6 DEF Effect, UpgradeMoves
  <2>2. CASE Removes(t)
    BY <2>2 DEF Removes, Moves
  <2>3. CASE step[t] \in {"rename", "done"}
    <3>1. target[t] \in Container /\ con[target[t]] = "none"
      BY <2>3, AtAwait DEF CleanSteps, Exists
    <3>2. target'[t] = target[t]
      <4>1. \A u \in TaskId, c \in Container : Asks(u, c) => u # t
        BY <2>3, AtAwait DEF Asks
      <4> QED BY <4>1, TargetsStay DEF Asks, OnlyTask
    <3> QED BY <3>1, <3>2, TargetsStayGone
  <2> QED BY <2>1, <2>2, <2>3
<1>2. ASSUME NEW t \in TaskId, step'[t] \in {"undoStart", "failed"}, t \notin refused'
      PROVE  con'[t] = "none"
  <2>1. refused \subseteq refused'
    BY DEF Effect, Goes, Inspects, Creates, Removes, Renaming, Undoes, Starts, Ends, Asks,
           Elsewhere, Dies
  <2>2. ~ Creates(t)
    BY <1>2 DEF Creates, Moves
  <2>3. CASE con[t] = "none"
    BY <2>2, <2>3, NoReturn, Distinct
  <2>4. CASE con[t] # "none"
    <3>1. step[t] \notin {"undoStart", "failed"} /\ ~ Early(t)
      BY <1>2, <2>1, <2>4 DEF CleanSteps, Exists, Basics, NotYet
    <3>2. \A u \in TaskId : u # t /\ UpgradeMoves(u) => step'[t] = step[t]
      BY DEF UpgradeMoves, Goes, Inspects, Creates, Removes, Renaming, Undoes, Moves
    <3>3. Goes(t) => step'[t] \notin {"undoStart", "failed"}
      BY <3>1 DEF Goes, Plain, Moves, Early
    <3>4. Inspects(t) \/ Creates(t) \/ Removes(t) \/ Renaming(t)
            => step'[t] \notin {"undoStart", "failed"}
      BY DEF Inspects, Creates, Removes, Renaming, Moves
    <3>5. \A u \in TaskId : Starts(u) \/ Ends(u) \/ (\E c \in Container : Asks(u, c))
                            => step'[t] = step[t] \/ step'[t] \notin {"undoStart", "failed"}
      BY <3>1 DEF Starts, Ends, Asks, OnlyTask, Early
    <3>6. Elsewhere \/ Dies => step'[t] = step[t] \/ step'[t] \notin {"undoStart", "failed"}
      BY DEF Elsewhere, Dies
    <3>7. Undoes(t)
      BY <1>2, <3>1, <3>2, <3>3, <3>4, <3>5, <3>6 DEF Effect, UpgradeMoves
    <3> QED BY <1>2, <3>7 DEF Undoes
  <2> QED BY <2>3, <2>4
<1> QED BY <1>1, <1>2 DEF CleanSteps, Exists

LEMMA EndsCleanKept ==
  ASSUME Basics, CleanSteps, EndsClean, TypesOK', Effect
  PROVE  EndsClean'
<1>0. refused \subseteq refused'
  BY DEF Effect, Goes, Inspects, Creates, Removes, Renaming, Undoes, Starts, Ends, Asks,
         Elsewhere, Dies
<1> SUFFICES ASSUME NEW t \in TaskId
             PROVE  /\ outcome'[t] = "ok" => con'[target'[t]] = "none"
                    /\ outcome'[t] = "error" /\ t \notin refused' => con'[t] = "none"
  BY DEF EndsClean, Exists
<1>1. \/ outcome'[t] = outcome[t]
      \/ Ends(t)
      \/ outcome'[t] = "open"
  <2>1. \A u \in TaskId : UpgradeMoves(u) => outcome'[t] = outcome[t]
    BY DEF UpgradeMoves, Goes, Inspects, Creates, Removes, Renaming, Undoes, Moves, taskVars
  <2>2. \A u \in TaskId : Starts(u) \/ (u # t /\ Ends(u)) => outcome'[t] = outcome[t]
    BY DEF Starts, Ends, OnlyTask
  <2>3. \A u \in TaskId, c \in Container : Asks(u, c) => outcome'[t] \in {outcome[t], "open"}
    BY DEF Asks, OnlyTask
  <2>4. Elsewhere \/ Dies => outcome'[t] = outcome[t]
    BY DEF Elsewhere, Dies
  <2> QED BY <2>1, <2>2, <2>3, <2>4 DEF Effect, UpgradeMoves
<1>2. CASE Ends(t)
  <2>1. UNCHANGED <<con, target>>
    BY <1>2 DEF Ends
  <2> QED BY <1>0, <1>2, <2>1 DEF Ends, CleanSteps, Exists
<1>3. CASE outcome'[t] = outcome[t]
  <2>1. outcome[t] # "open" => ~ Creates(t)
    BY AtAwait DEF Creates, Moves
  <2>2. outcome[t] = "ok" => target'[t] = target[t]
    BY TargetsStay DEF Asks, OnlyTask
  <2>3. outcome[t] = "ok" => target[t] \in Container
    BY DEF Basics, StepsOK, TypeOK
  <2> QED BY <1>0, <1>3, <2>1, <2>2, <2>3, TargetsStayGone, NoReturn, Distinct
          DEF EndsClean, Exists
<1> QED BY <1>1, <1>2, <1>3
-----------------------------------------------------------------------------
(***************************************************************************)
(* The application's name.                                                 *)
(***************************************************************************)
\* An upgrade that is through, or that a crash has ended, does nothing any more.
LEMMA SettledStays ==
  ASSUME Basics, Effect, NEW n \in TaskId, step[n] \in {"done", "none"}, ~ Early(n)
  PROVE  step'[n] \in {"done", "none"} /\ ~ Early(n)'
<1>1. ASSUME NEW t \in TaskId, UpgradeMoves(t) PROVE step'[n] = step[n] /\ UNCHANGED taskVars
  <2>1. PICK from, to \in Awaits : Moves(t, from, to) /\ from \notin {"done", "failed"}
    BY <1>1, MovesOn
  <2> QED BY <2>1 DEF Moves, Awaits
<1>2. ASSUME NEW t \in TaskId, Starts(t)
      PROVE step'[n] = step[n] /\ tasks'[n] = tasks[n] /\ outcome'[n] = outcome[n]
  BY <1>2 DEF Starts, OnlyTask, Early
<1>3. ASSUME NEW t \in TaskId, Ends(t)
      PROVE  /\ step'[n] \in {"done", "none"} /\ outcome'[n] # "unused"
             /\ tasks'[n] # "pending"
  BY <1>3 DEF Ends, OnlyTask, Early
<1>4. ASSUME NEW t \in TaskId, NEW c \in Container, Asks(t, c)
      PROVE  step'[n] = step[n] /\ tasks'[n] = tasks[n] /\ outcome'[n] = outcome[n]
  BY <1>4 DEF Asks, OnlyTask, Early
<1>5. Elsewhere => step'[n] = step[n] /\ outcome'[n] = outcome[n] /\ tasks'[n] # "pending"
  BY DEF Elsewhere, Early
<1>6. Dies => step'[n] = "none" /\ outcome'[n] = outcome[n] /\ tasks'[n] = "none"
  BY DEF Dies
<1> QED BY <1>1, <1>2, <1>3, <1>4, <1>5, <1>6 DEF Effect, UpgradeMoves, Early, taskVars

\* What happens to the name and to the upgrades that will take it.
LEMMA NameChanges ==
  ASSUME Effect
  PROVE  /\ \/ UNCHANGED name
            \/ \E t \in TaskId : Renaming(t) /\ Renamed(t) /\ name' = t
            \/ \E t \in TaskId : Removes(t) /\ name = target[t] /\ name' = Nobody
            \/ \E t \in TaskId : Undoes(t) /\ name = t /\ name' = Nobody
         /\ \/ UNCHANGED renames
            \/ \E t \in TaskId : Inspects(t) /\ name = target[t] /\ renames' = renames \cup {t}
<1>1. ASSUME NEW t \in TaskId, Goes(t) \/ Creates(t) \/ Starts(t) \/ Ends(t)
                               \/ \E c \in Container : Asks(t, c)
      PROVE  UNCHANGED <<name, renames>>
  BY <1>1 DEF Goes, Creates, Starts, Ends, Asks
<1>2. Elsewhere \/ Dies => UNCHANGED <<name, renames>>
  BY DEF Elsewhere, Dies
<1>3. \A t \in TaskId : Inspects(t) =>
        /\ UNCHANGED name
        /\ UNCHANGED renames \/ (name = target[t] /\ renames' = renames \cup {t})
  BY DEF Inspects
<1>4. \A t \in TaskId : Removes(t) =>
        /\ UNCHANGED renames
        /\ UNCHANGED name \/ (name = target[t] /\ name' = Nobody)
  BY DEF Removes
<1>5. \A t \in TaskId : Renaming(t) =>
        UNCHANGED renames /\ (UNCHANGED name \/ (Renamed(t) /\ name' = t))
  BY DEF Renaming
<1>6. \A t \in TaskId : Undoes(t) =>
        UNCHANGED renames /\ (UNCHANGED name \/ (name = t /\ name' = Nobody))
  BY DEF Undoes
<1> QED BY <1>1, <1>2, <1>3, <1>4, <1>5, <1>6 DEF Effect

\* The steps that come to an await of an upgrade that goes well.
LEMMA GoesWell ==
  ASSUME Basics, Effect, NEW t \in TaskId,
         step'[t] \in {"stop", "prepare", "create", "start", "remove", "rename"}
  PROVE  /\ target'[t] = target[t]
         /\ \/ step[t] \in {"stop", "prepare", "create", "start", "remove", "rename"}
            \/ Inspects(t)
         /\ step'[t] \in {"remove", "rename"} =>
              \/ step'[t] = step[t]
              \/ Goes(t) /\ Exists(t) /\ SameBut({})
              \/ Removes(t) /\ step[t] = "remove"
<1> DEFINE Well == {"stop", "prepare", "create", "start", "remove", "rename"}
<1>1. ASSUME NEW u \in TaskId, UpgradeMoves(u), u # t PROVE step'[t] = step[t]
  BY <1>1 DEF UpgradeMoves, Goes, Inspects, Creates, Removes, Renaming, Undoes, Moves
<1>2. CASE Goes(t)
  <2>1. PICK from, to \in Step : /\ <<from, to>> \in Plain /\ Moves(t, from, to) /\ SameBut({})
                                 /\ to = "remove" => Exists(t)
    BY <1>2 DEF Goes
  <2>2. step[t] \in Well \cup {"undoStart"} /\ (step'[t] \in {"remove", "rename"} => Exists(t))
    BY <2>1 DEF Plain, Moves
  <2> QED BY <1>2, <2>1, <2>2 DEF Plain, Moves
<1>3. CASE Inspects(t) \/ Creates(t) \/ Removes(t) \/ Renaming(t) \/ Undoes(t)
  BY <1>3 DEF Inspects, Creates, Removes, Renaming, Undoes, Moves
<1>4. ASSUME NEW u \in TaskId, Starts(u) \/ Ends(u) \/ \E c \in Container : Asks(u, c)
      PROVE  step'[t] = step[t]
  BY <1>4 DEF Starts, Ends, Asks, OnlyTask
<1>5. Elsewhere \/ Dies => step'[t] = step[t]
  BY DEF Elsewhere, Dies
<1>6. step[t] \notin {"none", "conflict"}
  <2>1. Inspects(t) => step[t] = "inspect"
    BY DEF Inspects, Moves
  <2> QED BY <1>1, <1>2, <1>3, <1>4, <1>5, <2>1 DEF Effect, UpgradeMoves
<1>7. target'[t] = target[t]
  BY <1>6, AtAwait, TargetKept, Distinct
<1> QED BY <1>1, <1>2, <1>3, <1>4, <1>5, <1>7 DEF Effect, UpgradeMoves

LEMMA NameOKKept ==
  ASSUME Basics, NoCycle, NameOK, TypesOK', Basics', Effect
  PROVE  NameOK'
<1>0. \A n \in TaskId : name = n => step[n] \in {"done", "none"} /\ ~ Early(n)
  BY DEF NameOK
<1>1. Exists(Old)' => name' = Old
  <2> SUFFICES ASSUME con'[Old] # "none" PROVE name' = Old
    BY DEF Exists
  <2>1. con[Old] # "none" /\ name = Old
    BY NoReturn, Distinct DEF NameOK, Exists, Container
  <2>2. \A t \in TaskId : Removes(t) => name # target[t]
    BY <2>1 DEF Removes
  <2> QED BY <2>1, <2>2, NameChanges, Distinct DEF Renamed, Container
<1>2. ASSUME NEW n \in TaskId, name' = n PROVE step'[n] \in {"done", "none"} /\ ~ Early(n)'
  <2>1. CASE UNCHANGED name
    BY <1>0, <1>2, <2>1, SettledStays
  <2>2. CASE name' # name
    <3>1. Renaming(n)
      BY <1>2, <2>2, NameChanges, Distinct
    <3>2. step[n] = "rename" /\ step'[n] = "done" /\ UNCHANGED taskVars
      BY <3>1 DEF Renaming, Moves
    <3> QED BY <3>1, <3>2, AtAwait DEF Early, taskVars
  <2> QED BY <2>1, <2>2
<1> SUFFICES ASSUME NEW t \in TaskId
             PROVE  /\ t \in renames' => target'[t] # Nobody
                    /\ target'[t] = Old
                       /\ step'[t] \in {"stop", "prepare", "create", "start", "remove", "rename"}
                         => t \in renames'
                    /\ t \in renames' /\ target'[t] \in TaskId
                         => step'[target'[t]] \in {"done", "none"}
                    /\ step'[t] \in {"remove", "rename"} /\ con'[t] = "none"
                         => \E u \in TaskId : target'[u] = t /\ u \notin renames'
  BY <1>1, <1>2 DEF NameOK, Exists
<1>3. t \in renames' => target'[t] # Nobody
  <2>1. CASE t \in renames
    BY <2>1, TargetKept DEF NameOK
  <2>2. CASE Inspects(t)
    BY <2>2, AtAwait, TargetKept, Distinct DEF Inspects, Moves
  <2> QED BY <2>1, <2>2, NameChanges
<1>4. ASSUME target'[t] = Old,
             step'[t] \in {"stop", "prepare", "create", "start", "remove", "rename"}
      PROVE  t \in renames'
  <2>1. target[t] = Old
    BY <1>4, GoesWell
  <2>2. CASE Inspects(t)
    BY <2>1, <2>2 DEF Inspects, NameOK
  <2>3. CASE ~ Inspects(t)
    <3>1. t \in renames
      BY <1>4, <2>1, <2>3, GoesWell DEF NameOK
    <3> QED BY <3>1, NameChanges
  <2> QED BY <2>2, <2>3
<1>5. ASSUME t \in renames', target'[t] \in TaskId
      PROVE  step'[target'[t]] \in {"done", "none"}
  <2>1. target[t] = target'[t] /\ step[target[t]] \in {"done", "none"}
    <3>1. CASE t \in renames
      BY <1>5, <3>1, TargetKept DEF NameOK
    <3>2. CASE Inspects(t) /\ name = target[t]
      <4>1. target'[t] = target[t]
        BY <3>2 DEF Inspects, Moves
      <4> QED BY <1>0, <1>5, <3>2, <4>1
    <3> QED BY <1>5, <3>1, <3>2, NameChanges
  <2>2. ~ Early(target[t])
    BY <1>5, <2>1 DEF Basics, NotYet
  <2> QED BY <1>5, <2>1, <2>2, SettledStays
<1>6. ASSUME step'[t] \in {"remove", "rename"}, con'[t] = "none"
      PROVE  \E u \in TaskId : target'[u] = t /\ u \notin renames'
  <2>1. t \in Container /\ t # Nobody
    BY Distinct
  <2>2. /\ step[t] \in {"remove", "rename"}
        /\ step'[t] = step[t] \/ Removes(t)
    <3>1. ~ (Goes(t) /\ Exists(t) /\ SameBut({}))
      BY <1>6, <2>1 DEF SameBut, Exists
    <3> QED BY <1>6, <3>1, GoesWell
  <2>3. ASSUME NEW u \in TaskId, target[u] = t, u \notin renames
        PROVE  target'[u] = t /\ u \notin renames'
    <3>1. ~ (Inspects(u) /\ name = target[u])
      BY <1>0, <2>2, <2>3
    <3> QED BY <2>1, <2>3, <3>1, NameChanges, TargetKept
  <2>4. CASE con[t] = "none"
    BY <2>2, <2>3, <2>4 DEF NameOK, Exists
  <2>5. CASE con[t] # "none"
    <3>1. PICK u \in TaskId : Removes(u) /\ target[u] = t
      <4>1. \A u \in TaskId : Goes(u) \/ Inspects(u) \/ Creates(u) \/ Renaming(u)
                              \/ (Removes(u) /\ target[u] # t) \/ (Undoes(u) /\ u # t)
                              => con'[t] # "none"
        BY <2>1, <2>5 DEF Goes, Inspects, Creates, Renaming, Removes, Undoes, SameBut
      <4>2. ~ Undoes(t)
        BY <2>2 DEF Undoes, Moves
      <4>3. \A u \in TaskId : Starts(u) \/ Ends(u) \/ (\E c \in Container : Asks(u, c))
                              => con'[t] # "none"
        BY <2>5 DEF Starts, Ends, Asks
      <4>4. Elsewhere \/ Dies => con'[t] # "none"
        BY <2>1, <2>5 DEF Elsewhere, Dies, SameBut
      <4> QED BY <1>6, <4>1, <4>2, <4>3, <4>4 DEF Effect
    <3>2. u \notin renames
      BY <2>2, <3>1 DEF NameOK
    <3> QED BY <2>3, <3>1, <3>2
  <2> QED BY <2>4, <2>5
<1> QED BY <1>3, <1>4, <1>5, <1>6

LEMMA InterruptedStays ==
  ASSUME Basics, Effect, NEW t \in TaskId, Interrupted(t)
  PROVE  Interrupted(t)'
<1>1. \A u \in TaskId : UpgradeMoves(u) => UNCHANGED taskVars
  BY DEF UpgradeMoves, Goes, Inspects, Creates, Removes, Renaming, Undoes, Moves
<1>2. ASSUME NEW u \in TaskId, Starts(u) \/ Ends(u) \/ \E c \in Container : Asks(u, c)
      PROVE  tasks'[t] = tasks[t] /\ fn'[t] = fn[t] /\ outcome'[t] = outcome[t]
  BY <1>2 DEF Starts, Ends, Asks, OnlyTask, Interrupted
<1>3. Elsewhere => fn'[t] = fn[t] /\ outcome'[t] = outcome[t] /\ tasks'[t] # "pending"
  BY DEF Elsewhere, Interrupted
<1>4. Dies => fn'[t] = "none" /\ outcome'[t] = outcome[t] /\ tasks'[t] = "none"
  BY DEF Dies
<1> QED BY <1>1, <1>2, <1>3, <1>4 DEF Effect, UpgradeMoves, Interrupted, taskVars

LEMMA NameKeptKept ==
  ASSUME Basics, NameOK, NameKept, TypesOK', Effect
  PROVE  NameKept'
<1> DEFINE Excused(t) == \/ step[t] = "rename" \/ t \in refused
                         \/ Interrupted(t) \/ TooEarly(t)
<1> SUFFICES ASSUME name' = Nobody PROVE \E t \in TaskId : Excused(t)'
  BY DEF NameKept
<1>0. refused \subseteq refused'
  BY DEF Effect, Goes, Inspects, Creates, Removes, Renaming, Undoes, Starts, Ends, Asks,
         Elsewhere, Dies
<1>1. CASE name # Nobody
  <2>1. ~ \E t \in TaskId : Undoes(t) /\ name = t
    BY DEF NameOK, Undoes, Moves
  <2>2. PICK t \in TaskId : Removes(t)
    BY <1>1, <2>1, NameChanges, Distinct
  <2> QED BY <2>2 DEF Removes, Moves
<1>2. CASE name = Nobody
  <2>1. ASSUME NEW t \in TaskId, TooEarly(t) PROVE TooEarly(t)'
    <3>1. target[t] \in TaskId /\ target'[t] = target[t] /\ name # target[t]
      BY <1>2, <2>1, TargetKept, Distinct DEF TooEarly
    <3> QED BY <2>1, <3>1, NameChanges DEF TooEarly
  <2>2. ASSUME NEW t \in TaskId, step[t] = "rename" PROVE \E u \in TaskId : Excused(u)'
    <3>1. CASE Renaming(t)
      <4>1. CASE t \in refused'
        BY <4>1
      <4>2. CASE ~ Renamed(t) /\ t \notin renames
        <5>1. target[t] # Old /\ target[t] \in Container
          BY <2>2, <4>2, AtAwait DEF NameOK
        <5>2. TooEarly(t)
          BY <4>2, <5>1 DEF TooEarly, Container
        <5> QED BY <2>1, <5>2
      <4>3. CASE ~ Renamed(t) /\ t \in renames
        <5>1. ~ Exists(t)
          BY <1>2, <4>3 DEF Renamed
        <5>2. PICK u \in TaskId : target[u] = t /\ u \notin renames
          BY <2>2, <5>1 DEF NameOK
        <5>3. TooEarly(u)
          BY <5>2 DEF TooEarly
        <5> QED BY <2>1, <5>3
      <4> QED BY <3>1, <4>1, <4>2, <4>3, Distinct DEF Renaming
    <3>2. CASE Dies
      <4>1. outcome[t] = "open"
        BY <2>2, AtAwait
      <4> QED BY <3>2, <4>1 DEF Dies, Interrupted
    <3>3. CASE ~ Renaming(t) /\ ~ Dies
      <4>1. \A u \in TaskId : u # t /\ UpgradeMoves(u) => step'[t] = step[t]
        BY DEF UpgradeMoves, Goes, Inspects, Creates, Removes, Renaming, Undoes, Moves
      <4>2. ~ UpgradeMoves(t)
        BY <2>2, <3>3 DEF UpgradeMoves, Goes, Plain, Inspects, Creates, Removes, Undoes, Moves
      <4>3. \A u \in TaskId : Starts(u) \/ Ends(u) \/ (\E c \in Container : Asks(u, c))
                              => step'[t] = step[t]
        <5>1. outcome[t] = "open" /\ tasks[t] # "pending"
          BY <2>2, AtAwait
        <5> QED BY <2>2, <5>1 DEF Starts, Ends, Asks, OnlyTask
      <4>4. Elsewhere => step'[t] = step[t]
        BY DEF Elsewhere
      <4> QED BY <2>2, <3>3, <4>1, <4>2, <4>3, <4>4 DEF Effect, UpgradeMoves
    <3> QED BY <3>1, <3>2, <3>3
  <2>3. PICK t \in TaskId : Excused(t)
    BY <1>2 DEF NameKept
  <2>4. CASE step[t] = "rename"
    BY <2>2, <2>4
  <2>5. CASE t \in refused
    BY <1>0, <2>5
  <2>6. CASE Interrupted(t)
    BY <2>6, InterruptedStays
  <2>7. CASE TooEarly(t)
    BY <2>1, <2>7
  <2> QED BY <2>3, <2>4, <2>5, <2>6, <2>7
<1> QED BY <1>1, <1>2
-----------------------------------------------------------------------------
LEMMA UpgradeStartSafe == Init => UpgradeInv
<1> SUFFICES ASSUME Init PROVE UpgradeInv
  OBVIOUS
<1> USE DEF Init
<1>1. TasksInv
  BY StartSafe
<1>2. TypeOK /\ StepsOK /\ NotYet
  BY <1>1, Distinct DEF TasksInit, TasksInv, TypeOK, StepsOK, NotYet, Early, Step, Container
<1>3. NoCycle /\ Heirs
  BY DEF NoCycle, Heirs
<1>4. Survivor
  BY Distinct DEF Survivor, Exists, Solid, Container
<1>5. OneClaim /\ CleanSteps /\ EndsClean
  BY DEF TasksInit, OneClaim, Claims, CleanSteps, EndsClean
<1>6. NameOK /\ NameKept
  BY Distinct DEF NameOK, NameKept, Container
<1> QED BY <1>1, <1>2, <1>3, <1>4, <1>5, <1>6 DEF UpgradeInv

LEMMA UpgradeStepSafe ==
  ASSUME UpgradeInv, [Next]_vars
  PROVE  UpgradeInv'
<1>1. Basics
  BY DEF UpgradeInv, Basics
<1>2. TasksInv' /\ TypesOK' /\ Effect
  BY NextEffects DEF UpgradeInv
<1>3. Basics'
  BY <1>1, <1>2, BasicsKept
<1>4. NoCycle' /\ Heirs' /\ Survivor'
  BY <1>1, <1>2, NoCycleKept, HeirsKept, SurvivorKept DEF UpgradeInv
<1>5. OneClaim' /\ CleanSteps' /\ EndsClean'
  BY <1>1, <1>2, <1>3, OneClaimKept, CleanStepsKept, EndsCleanKept DEF UpgradeInv
<1>6. NameOK' /\ NameKept'
  BY <1>1, <1>2, <1>3, NameOKKept, NameKeptKept DEF UpgradeInv
<1> QED BY <1>3, <1>4, <1>5, <1>6 DEF UpgradeInv, Basics

LEMMA UpgradesAreSafe == Spec => []UpgradeInv
BY UpgradeStartSafe, UpgradeStepSafe, PTL DEF Spec

\* The engine's containers, the tasks and the awaits have the form the model says, for any
\* number of upgrades.
THEOREM UpgradesTyped == Spec => []TypeOK
<1>1. UpgradeInv => TypeOK
  BY DEF UpgradeInv
<1> QED BY <1>1, UpgradesAreSafe, PTL

\* What the agent says of the tasks of its upgrades is true (task-manager.js).
THEOREM UpgradeTasksAreTrue == Spec => []TasksAreTrue
<1>1. UpgradeInv => TasksAreTrue
  BY DEF UpgradeInv, TasksInv
<1> QED BY <1>1, UpgradesAreSafe, PTL

\* The application always has a container, however many upgrades of it and of each other's
\* containers overlap, whatever the engine refuses and wherever the agent dies
\* (performActualUpgrade, rollbackOnFailure).
THEOREM ApplicationSurvives == Spec => []AppSurvives
<1>1. UpgradeInv => AppSurvives
  BY SurvivorSurvives DEF UpgradeInv
<1> QED BY <1>1, UpgradesAreSafe, PTL

\* Two upgrades work on one container only if the task of one has been deleted
\* (checkUpgradeConflict).
THEOREM OneUpgradeAtATime == Spec => []OneUpgrade
<1>1. UpgradeInv => OneUpgrade
  BY OneClaimOneUpgrade DEF UpgradeInv, Basics
<1> QED BY <1>1, UpgradesAreSafe, PTL

\* An upgrade that reports success has replaced its container, one that reports failure has
\* left no second one behind that the engine would remove.
THEOREM UpgradesEndClean == Spec => []EndsClean
<1>1. UpgradeInv => EndsClean
  BY DEF UpgradeInv
<1> QED BY <1>1, UpgradesAreSafe, PTL

\* The application's name has an owner, but for the cases NameKept lists (finalConfig.name
\* and the rename whose error is only logged).
THEOREM NamesAreKept == Spec => []NameKept
<1>1. UpgradeInv => NameKept
  BY DEF UpgradeInv
<1> QED BY <1>1, UpgradesAreSafe, PTL
-----------------------------------------------------------------------------
\* Upgrades use the task manager only as it allows: seen through the map, the files and
\* the functions of the tasks, every step of theirs is a step of it or none.
THEOREM UpgradesImplementTasks == Spec => TasksSpec
<1>1. Init => TasksInit
  BY DEF Init
<1>2. [Next]_vars => [TasksNext]_taskVars
  BY NextIsTasksNext
<1> QED BY <1>1, <1>2, PTL DEF Spec, TasksSpec

\* The task of an upgrade that has ended is not opened again by a late report or by the
\* roll-back (updateTask).
THEOREM EndedUpgradesStayEnded == Spec => FinalIsFinal
BY UpgradesImplementTasks, FinalsAreFinal
=============================================================================
