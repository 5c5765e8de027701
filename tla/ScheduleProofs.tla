--------------------------- MODULE ScheduleProofs ---------------------------
(***************************************************************************)
(* The schedule for any number of overlapping runs, blocks, tasks and      *)
(* crashes: what is logged as a success was made, and the lock of this     *)
(* process has a run that removes it.                                      *)
(*                                                                         *)
(* A success is logged from the task's status long after its function      *)
(* ended; that the status tells the truth is the invariant of the tasks    *)
(* (TaskManagerProofs), and that the truth does not change any more is     *)
(* OutcomeStays.                                                           *)
(***************************************************************************)
EXTENDS ScheduleRunner, TaskManagerProofs, Integers

\* What a run remembers.  A backup it uploads was made.
RunRecord == [pc : RunPC, left : Int, backup : TaskId \cup {NoTask},
              upload : TaskId \cup {NoTask}, mine : SUBSET TaskId]

RunsOK ==
  /\ runs \in [Run -> RunRecord]
  /\ lock \in BOOLEAN /\ stale \in BOOLEAN
  /\ \A r \in Run :
       /\ runs[r].pc \in {"backup", "remote", "upload"} => runs[r].backup \in TaskId
       /\ runs[r].pc \in {"remote", "upload"} => outcome[runs[r].backup] = "ok"
       /\ runs[r].pc = "upload" => runs[r].upload \in TaskId

LoggedOK == \A b \in logged : b.backup \in TaskId /\ (b.upload # NoTask => b.upload \in TaskId)

ScheduleInv == TasksInv /\ RunsOK /\ LoggedOK /\ SuccessIsReal /\ NoLeakedLock
-----------------------------------------------------------------------------
\* A step of the tasks does not change how a function has ended.
LEMMA OutcomeStays ==
  ASSUME TasksInv, [TasksNext]_taskVars, NEW t \in TaskId, outcome[t] = "ok"
  PROVE  outcome'[t] = "ok"
<1>1. ASSUME NEW u \in TaskId, TaskStep(u) PROVE outcome'[t] = "ok"
  <2>1. CASE createTask(u)
    BY <2>1 DEF createTask, TasksInv, TasksTypeOK
  <2>2. CASE FunctionEnds(u)
    <3>1. u # t
      BY <2>2 DEF FunctionEnds, TasksInv, Ours
    <3> QED BY <2>2, <3>1 DEF FunctionEnds, TasksInv, TasksTypeOK
  <2> QED BY <1>1, <2>1, <2>2 DEF TaskStep, executeTask, Report, deleteTask, Expire
<1> QED BY <1>1 DEF TasksNext, cleanupExpiredTasks, TasksDie, Load, taskVars

\* Every step of the schedule is a step of the tasks, or leaves them alone.
LEMMA TasksStepOrStutter == ASSUME [Next]_scheduleVars PROVE [TasksNext]_taskVars
<1>1. ASSUME NEW r \in Run, RunStep(r) PROVE [TasksNext]_taskVars
  BY <1>1 DEF RunStep, WriteLock, ReadPlan, FinishRun, SeenLock, AskRestart, StartBackup,
              BackupOver, StartUpload, UploadOver, TasksNext, TaskStep
<1>2. CASE SlotTick \/ RunNow
  BY <1>2 DEF SlotTick, RunNow
<1>3. CASE TasksAtWork \/ Die \/ Boot
  BY <1>3 DEF TasksAtWork, Die, Boot, TasksNext, TaskStep
<1>4. CASE UNCHANGED scheduleVars
  BY <1>4 DEF scheduleVars
<1> QED BY <1>1, <1>2, <1>3, <1>4 DEF Next

LEMMA TasksPartSafe ==
  ASSUME ScheduleInv, [Next]_scheduleVars
  PROVE  /\ TasksInv'
         /\ \A t \in TaskId : outcome[t] = "ok" => outcome'[t] = "ok"
BY TasksStepOrStutter, StepSafe, OutcomeStays DEF ScheduleInv

\* What a step has to keep when the log does not change.
LEMMA SuccessStays ==
  ASSUME ScheduleInv, logged' = logged,
         \A t \in TaskId : outcome[t] = "ok" => outcome'[t] = "ok"
  PROVE  LoggedOK' /\ SuccessIsReal'
BY DEF ScheduleInv, LoggedOK, SuccessIsReal

\* What the status "completed" says to a run.
LEMMA CompletedIsMade ==
  ASSUME ScheduleInv, NEW t \in TaskId, waitTaskCompletion(t) = "completed"
  PROVE  outcome[t] = "ok"
<1>1. tasks[t] = "completed"
  BY DEF waitTaskCompletion, Final
<1> QED BY <1>1 DEF ScheduleInv, TasksInv, TasksAreTrue, CompletionIsReal
-----------------------------------------------------------------------------
\* Changes of the variables of one run.
LEMMA GotoChangesPC ==
  ASSUME RunsOK, NEW r \in Run, NEW pc \in RunPC, Goto(r, pc)
  PROVE  /\ runs' \in [Run -> RunRecord]
         /\ \A s \in Run \ {r} : runs'[s] = runs[s]
         /\ runs'[r].pc = pc
         /\ runs'[r].backup = runs[r].backup /\ runs'[r].upload = runs[r].upload
BY DEF Goto, Becomes, RunsOK, RunRecord

LEMMA EndBlockGoesOn ==
  ASSUME RunsOK, NEW r \in Run, EndBlock(r)
  PROVE  /\ runs' \in [Run -> RunRecord]
         /\ \A s \in Run \ {r} : runs'[s] = runs[s]
         /\ runs'[r].pc \in {"unlink", "block"}
<1> DEFINE new == [runs[r] EXCEPT !.left = @ - 1, !.backup = NoTask, !.upload = NoTask,
                                  !.pc = IF runs[r].left = 1 THEN "unlink" ELSE "block"]
<1>1. runs[r] \in RunRecord
  BY DEF RunsOK
<1>2. new \in RunRecord /\ new.pc \in {"unlink", "block"}
  <2>1. runs[r].left - 1 \in Int
    BY <1>1 DEF RunRecord
  <2>2. CASE runs[r].left = 1
    BY <1>1, <2>1, <2>2 DEF RunRecord, RunPC
  <2>3. CASE runs[r].left # 1
    BY <1>1, <2>1, <2>3 DEF RunRecord, RunPC
  <2> QED BY <2>2, <2>3
<1>3. runs' = [runs EXCEPT ![r] = new]
  BY <1>1 DEF EndBlock, Becomes
<1> HIDE DEF new
<1> QED BY <1>2, <1>3 DEF RunsOK

LEMMA NewBackupGoesOn ==
  ASSUME RunsOK, NEW r \in Run, NEW t \in TaskId,
         Becomes(r, [runs[r] EXCEPT !.pc = "backup", !.backup = t, !.mine = @ \cup {t}])
  PROVE  /\ runs' \in [Run -> RunRecord]
         /\ \A s \in Run \ {r} : runs'[s] = runs[s]
         /\ runs'[r].pc = "backup" /\ runs'[r].backup = t
<1> DEFINE new == [runs[r] EXCEPT !.pc = "backup", !.backup = t, !.mine = @ \cup {t}]
<1>1. runs[r] \in RunRecord
  BY DEF RunsOK
<1>2. new \in RunRecord /\ new.pc = "backup" /\ new.backup = t
  BY <1>1 DEF RunRecord, RunPC
<1>3. runs' = [runs EXCEPT ![r] = new]
  BY DEF Becomes
<1> HIDE DEF new
<1> QED BY <1>2, <1>3 DEF RunsOK

LEMMA NewUploadGoesOn ==
  ASSUME RunsOK, NEW r \in Run, NEW t \in TaskId,
         Becomes(r, [runs[r] EXCEPT !.pc = "upload", !.upload = t, !.mine = @ \cup {t}])
  PROVE  /\ runs' \in [Run -> RunRecord]
         /\ \A s \in Run \ {r} : runs'[s] = runs[s]
         /\ runs'[r].pc = "upload" /\ runs'[r].upload = t
         /\ runs'[r].backup = runs[r].backup
<1> DEFINE new == [runs[r] EXCEPT !.pc = "upload", !.upload = t, !.mine = @ \cup {t}]
<1>1. runs[r] \in RunRecord
  BY DEF RunsOK
<1>2. new \in RunRecord /\ new.pc = "upload" /\ new.upload = t /\ new.backup = runs[r].backup
  BY <1>1 DEF RunRecord, RunPC
<1>3. runs' = [runs EXCEPT ![r] = new]
  BY DEF Becomes
<1> HIDE DEF new
<1> QED BY <1>2, <1>3 DEF RunsOK

\* The steps of runs.
LEMMA RunStepSafe ==
  ASSUME ScheduleInv, NEW r \in Run, RunStep(r)
  PROVE  RunsOK' /\ LoggedOK' /\ SuccessIsReal' /\ NoLeakedLock'
<1> DEFINE Kept == \A t \in TaskId : outcome[t] = "ok" => outcome'[t] = "ok"
<1>0. Kept
  BY TasksPartSafe DEF Next
<1>a. NoTask \notin TaskId
  BY ScheduleAssumption
<1> USE DEF ScheduleInv
<1>1. CASE WriteLock(r) \/ ReadPlan(r) \/ FinishRun(r) \/ SeenLock(r) \/ AskRestart(r)
  <2>1. logged' = logged /\ outcome' = outcome
    BY <1>1 DEF WriteLock, ReadPlan, FinishRun, SeenLock, AskRestart, taskVars
  <2>2. LoggedOK' /\ SuccessIsReal'
    BY <1>0, <2>1, SuccessStays
  <2>3. RunsOK'
    <3> USE DEF RunPC
    <3>0. lock' \in BOOLEAN /\ stale' \in BOOLEAN
      BY <1>1 DEF WriteLock, ReadPlan, FinishRun, SeenLock, AskRestart, UnlinkLock, RunsOK
    <3>1. CASE \E pc \in {"plan", "idle", "unlink", "restart"} : Goto(r, pc)
      BY <2>1, <3>0, <3>1, GotoChangesPC DEF RunsOK
    <3>2. CASE \E n \in 1..MaxBlocks : Becomes(r, [runs[r] EXCEPT !.pc = "block", !.left = n])
      <4>1. PICK n \in 1..MaxBlocks : Becomes(r, [runs[r] EXCEPT !.pc = "block", !.left = n])
        BY <3>2
      <4> DEFINE new == [runs[r] EXCEPT !.pc = "block", !.left = n]
      <4>2. n \in Int
        BY ScheduleAssumption
      <4>3. new \in RunRecord /\ new.pc = "block"
        BY <4>2 DEF RunsOK, RunRecord
      <4>4. runs' = [runs EXCEPT ![r] = new]
        BY <4>1 DEF Becomes
      <4> HIDE DEF new
      <4> QED BY <2>1, <3>0, <4>3, <4>4 DEF RunsOK
    <3>3. CASE Becomes(r, Idle)
      BY <2>1, <3>0, <3>3 DEF Becomes, RunsOK, RunRecord, Idle
    <3>4. CASE WriteLock(r)
      BY <3>1, <3>4 DEF WriteLock
    <3>5. CASE ReadPlan(r) \/ FinishRun(r)
      BY <3>1, <3>2, <3>3, <3>5 DEF ReadPlan, FinishRun
    <3>6. CASE SeenLock(r) \/ AskRestart(r)
      BY <3>1, <3>6 DEF SeenLock, AskRestart
    <3> QED BY <1>1, <3>4, <3>5, <3>6
  <2>4. NoLeakedLock'
    <3> USE DEF RunPC
    <3>1. CASE WriteLock(r)
      <4>1. CASE Goto(r, "plan")
        BY <4>1, GotoChangesPC DEF NoLeakedLock, Working
      <4>2. CASE Goto(r, "idle") /\ stale' = (lock' /\ (stale \/ ~ lock))
                                /\ lock' \in {lock, TRUE}
        <5>1. \A s \in Run : Working(s) => Working(s)'
          BY <3>1, <4>2, GotoChangesPC DEF WriteLock, At, Working
        <5> QED BY <4>2, <5>1 DEF NoLeakedLock, RunsOK
      <4> QED BY <3>1, <4>1, <4>2 DEF WriteLock
    <3>2. CASE ReadPlan(r)
      <4>1. CASE Goto(r, "unlink")
        BY <4>1, GotoChangesPC DEF NoLeakedLock, Working
      <4>2. ASSUME NEW n \in 1..MaxBlocks,
                   Becomes(r, [runs[r] EXCEPT !.pc = "block", !.left = n])
            PROVE  NoLeakedLock'
        <5>1. runs[r] \in RunRecord /\ runs \in [Run -> RunRecord]
          BY DEF RunsOK
        <5>2. runs'[r].pc = "block"
          BY <4>2, <5>1 DEF Becomes, RunRecord
        <5> QED BY <5>2 DEF NoLeakedLock, Working
      <4> QED BY <3>2, <4>1, <4>2 DEF ReadPlan
    <3>3. CASE FinishRun(r) \/ SeenLock(r)
      BY <3>3 DEF FinishRun, SeenLock, UnlinkLock, NoLeakedLock, RunsOK
    <3>4. CASE AskRestart(r)
      BY <3>4 DEF AskRestart, NoLeakedLock, Working, Goto, Becomes, RunsOK, At
    <3> QED BY <1>1, <3>1, <3>2, <3>3, <3>4
  <2> QED BY <2>2, <2>3, <2>4
<1>2. ASSUME StartBackup(r) \/ BackupOver(r) \/ StartUpload(r) \/ UploadOver(r)
      PROVE  NoLeakedLock'
  <2>1. Working(r)' /\ UNCHANGED <<lock, stale>>
    <3>1. UNCHANGED <<lock, stale>>
      BY <1>2 DEF StartBackup, BackupOver, StartUpload, UploadOver
    <3>2. CASE EndBlock(r)
      BY <3>1, <3>2, EndBlockGoesOn DEF Working
    <3>3. CASE Goto(r, "remote")
      BY <3>1, <3>3, GotoChangesPC DEF Working, RunPC
    <3>4. CASE \E t \in TaskId :
            \/ Becomes(r, [runs[r] EXCEPT !.pc = "backup", !.backup = t, !.mine = @ \cup {t}])
            \/ Becomes(r, [runs[r] EXCEPT !.pc = "upload", !.upload = t, !.mine = @ \cup {t}])
      BY <3>1, <3>4, NewBackupGoesOn, NewUploadGoesOn DEF Working
    <3> QED BY <1>2, <3>2, <3>3, <3>4 DEF StartBackup, BackupOver, StartUpload, UploadOver
  <2> QED BY <2>1 DEF NoLeakedLock
<1>3. ASSUME EndBlock(r), UNCHANGED <<lock, stale>> PROVE RunsOK'
  BY <1>0, <1>3, EndBlockGoesOn DEF RunsOK
<1>4. CASE StartBackup(r)
  <2>1. LoggedOK' /\ SuccessIsReal'
    BY <1>0, <1>4, SuccessStays DEF StartBackup
  <2>2. CASE \E t \in TaskId : Becomes(r, [runs[r] EXCEPT !.pc = "backup", !.backup = t,
                                                      !.mine = @ \cup {t}])
    <3>1. RunsOK'
      <4>1. UNCHANGED <<lock, stale>>
        BY <1>4 DEF StartBackup
      <4>2. PICK t \in TaskId : Becomes(r, [runs[r] EXCEPT !.pc = "backup", !.backup = t,
                                                           !.mine = @ \cup {t}])
        BY <2>2
      <4>3. /\ runs' \in [Run -> RunRecord] /\ \A s \in Run \ {r} : runs'[s] = runs[s]
            /\ runs'[r].pc = "backup" /\ runs'[r].backup = t
        BY <4>2, NewBackupGoesOn
      <4> QED BY <1>0, <4>1, <4>3 DEF RunsOK
    <3> QED BY <1>2, <1>4, <2>1, <3>1
  <2> QED BY <1>2, <1>3, <1>4, <2>1, <2>2 DEF StartBackup
<1>5. CASE BackupOver(r)
  <2>1. runs[r].backup \in TaskId /\ outcome' = outcome
    BY <1>5 DEF BackupOver, At, RunsOK, taskVars
  <2>2. CASE EndBlock(r) /\ logged' = logged
    BY <1>0, <1>2, <1>3, <1>5, <2>2, SuccessStays DEF BackupOver
  <2> DEFINE b == [backup |-> runs[r].backup, upload |-> NoTask]
  <2>3. CASE /\ waitTaskCompletion(runs[r].backup) = "completed"
             /\ logged' = logged \cup {b} /\ EndBlock(r)
    <3>1. outcome[runs[r].backup] = "ok"
      BY <2>1, <2>3, CompletedIsMade
    <3>2. b.backup = runs[r].backup /\ b.upload = NoTask
      OBVIOUS
    <3> HIDE DEF b
    <3>3. LoggedOK' /\ SuccessIsReal'
      BY <2>1, <2>3, <3>1, <3>2 DEF LoggedOK, SuccessIsReal
    <3> QED BY <1>2, <1>3, <1>5, <2>3, <3>3 DEF BackupOver
  <2>4. CASE /\ waitTaskCompletion(runs[r].backup) = "completed"
             /\ Goto(r, "remote") /\ logged' = logged
    <3>1. outcome[runs[r].backup] = "ok"
      BY <2>1, <2>4, CompletedIsMade
    <3>2. RunsOK'
      BY <1>5, <2>1, <2>4, <3>1, GotoChangesPC DEF BackupOver, RunsOK, RunPC
    <3> QED BY <1>0, <1>2, <1>5, <2>4, <3>2, SuccessStays
  <2> QED BY <1>5, <2>2, <2>3, <2>4 DEF BackupOver
<1>6. CASE StartUpload(r)
  <2>1. LoggedOK' /\ SuccessIsReal'
    BY <1>0, <1>6, SuccessStays DEF StartUpload
  <2>2. CASE \E t \in TaskId : Becomes(r, [runs[r] EXCEPT !.pc = "upload", !.upload = t,
                                                      !.mine = @ \cup {t}])
    <3>1. outcome[runs[r].backup] = "ok" /\ runs[r].backup \in TaskId
      BY <1>6 DEF StartUpload, At, RunsOK
    <3>2. RunsOK'
      <4>1. UNCHANGED <<lock, stale>>
        BY <1>6 DEF StartUpload
      <4>2. PICK t \in TaskId : Becomes(r, [runs[r] EXCEPT !.pc = "upload", !.upload = t,
                                                           !.mine = @ \cup {t}])
        BY <2>2
      <4>3. /\ runs' \in [Run -> RunRecord] /\ \A s \in Run \ {r} : runs'[s] = runs[s]
            /\ runs'[r].pc = "upload" /\ runs'[r].upload = t
            /\ runs'[r].backup = runs[r].backup
        BY <4>2, NewUploadGoesOn
      <4> QED BY <1>0, <3>1, <4>1, <4>3 DEF RunsOK
    <3> QED BY <1>2, <1>6, <2>1, <3>2
  <2> QED BY <1>2, <1>3, <1>6, <2>1, <2>2 DEF StartUpload
<1>7. CASE UploadOver(r)
  <2>1. /\ runs[r].backup \in TaskId /\ runs[r].upload \in TaskId /\ outcome' = outcome
        /\ outcome[runs[r].backup] = "ok" /\ EndBlock(r)
    BY <1>7 DEF UploadOver, At, RunsOK, taskVars
  <2> DEFINE b == [backup |-> runs[r].backup, upload |-> runs[r].upload]
  <2>2. CASE waitTaskCompletion(runs[r].upload) = "completed" /\ logged' = logged \cup {b}
    <3>1. outcome[runs[r].upload] = "ok"
      BY <2>1, <2>2, CompletedIsMade
    <3>2. b.backup = runs[r].backup /\ b.upload = runs[r].upload
      OBVIOUS
    <3> HIDE DEF b
    <3>3. LoggedOK' /\ SuccessIsReal'
      BY <2>1, <2>2, <3>1, <3>2 DEF LoggedOK, SuccessIsReal
    <3> QED BY <1>2, <1>3, <1>7, <2>1, <3>3 DEF UploadOver
  <2>3. CASE logged' = logged
    BY <1>0, <1>2, <1>3, <1>7, <2>1, <2>3, SuccessStays DEF UploadOver
  <2> QED BY <1>7, <2>2, <2>3 DEF UploadOver
<1> QED BY <1>1, <1>4, <1>5, <1>6, <1>7 DEF RunStep
-----------------------------------------------------------------------------
LEMMA ScheduleStepSafe ==
  ASSUME ScheduleInv, [Next]_scheduleVars
  PROVE  ScheduleInv'
<1>1. TasksInv' /\ \A t \in TaskId : outcome[t] = "ok" => outcome'[t] = "ok"
  BY TasksPartSafe
<1> USE DEF ScheduleInv
<1>2. CASE \E r \in Run : RunStep(r)
  BY <1>1, <1>2, RunStepSafe
<1>3. CASE SlotTick \/ RunNow
  <2>1. UNCHANGED <<outcome, lock, stale, logged>>
    BY <1>3 DEF SlotTick, RunNow, taskVars
  <2>2. \/ runs' = runs
        \/ \E r \in Run : runs[r].pc = "idle" /\ \E pc \in {"seen", "lock"} : Goto(r, pc)
    BY <1>3 DEF SlotTick, RunNow, Trigger
  <2>3. RunsOK'
    BY <2>1, <2>2, GotoChangesPC DEF RunsOK, RunPC
  <2>4. NoLeakedLock'
    <3>1. \A r \in Run : Working(r) => Working(r)'
      BY <2>2, GotoChangesPC DEF Working, RunPC
    <3> QED BY <2>1, <3>1 DEF NoLeakedLock
  <2> QED BY <1>1, <2>1, <2>3, <2>4, SuccessStays
<1>4. CASE TasksAtWork \/ Boot \/ UNCHANGED scheduleVars
  <2>1. UNCHANGED runVars
    BY <1>4 DEF TasksAtWork, Boot, scheduleVars
  <2>2. RunsOK'
    BY <1>1, <2>1 DEF RunsOK, runVars
  <2>3. NoLeakedLock'
    BY <2>1 DEF NoLeakedLock, Working, runVars
  <2> QED BY <1>1, <2>1, <2>2, <2>3, SuccessStays DEF runVars
<1>5. CASE Die
  <2>1. /\ runs' = [r \in Run |-> Idle] /\ stale' = lock /\ UNCHANGED <<lock, logged>>
    BY <1>5 DEF Die
  <2>2. RunsOK'
    BY <2>1 DEF RunsOK, RunRecord, Idle, RunPC
  <2>3. NoLeakedLock'
    BY <2>1 DEF NoLeakedLock
  <2> QED BY <1>1, <2>1, <2>2, <2>3, SuccessStays
<1> QED BY <1>2, <1>3, <1>4, <1>5 DEF Next

LEMMA ScheduleStarts == Init => ScheduleInv
<1>1. Init => TasksInv
  BY StartSafe DEF Init
<1>2. Idle \in RunRecord /\ Idle.pc = "idle"
  BY DEF Idle, RunRecord, RunPC
<1>3. Init => RunsOK
  BY <1>2 DEF Init, RunsOK
<1> QED BY <1>1, <1>3 DEF Init, ScheduleInv, LoggedOK, SuccessIsReal, NoLeakedLock

LEMMA ScheduleIsSafe == Spec => []ScheduleInv
BY ScheduleStarts, ScheduleStepSafe, PTL DEF Spec

\* The schedule uses the task manager only as it allows: seen through the map, the files
\* and the functions of the tasks, every step of it is a step of theirs or none.
THEOREM ScheduleImplementsTasks == Spec => TasksSpec
<1>1. Init => TasksInit
  BY DEF Init
<1>2. [Next]_scheduleVars => [TasksNext]_taskVars
  BY TasksStepOrStutter
<1> QED BY <1>1, <1>2, PTL DEF Spec, TasksSpec

\* The task of a backup or an upload that has ended, given up or not, is not opened again
\* by what its function still reports (updateTask).
THEOREM EndedBlocksStayEnded == Spec => FinalIsFinal
BY ScheduleImplementsTasks, FinalsAreFinal

\* What the log calls a success was made, and so was the upload if one was begun for
\* it, whatever was deleted, timed out or restarted meanwhile.
THEOREM SuccessesAreReal == Spec => []SuccessIsReal
<1>1. ScheduleInv => SuccessIsReal
  BY DEF ScheduleInv
<1> QED BY <1>1, ScheduleIsSafe, PTL

\* A lock of this process that no error left over has a run that will remove it.
THEOREM LocksAreOwned == Spec => []NoLeakedLock
<1>1. ScheduleInv => NoLeakedLock
  BY DEF ScheduleInv
<1> QED BY <1>1, ScheduleIsSafe, PTL
-----------------------------------------------------------------------------
(***************************************************************************)
(* Who waits for whom.  A task is at work from createTask to the end of    *)
(* its function; the run that made it holds it in backup or upload until   *)
(* then, or has given the wait up.                                         *)
(***************************************************************************)
AtWork(t) == tasks[t] = "pending" \/ fn[t] = "running"

HeldByItsRun ==
  \A r \in Run : \A t \in runs[r].mine \ abandoned :
    AtWork(t) => t \in {runs[r].backup, runs[r].upload}

\* Only a used task is somebody's, and a run that waits for nothing holds nothing.
HoldsWhatItWaitsFor ==
  \A r \in Run :
    /\ \A t \in runs[r].mine : t \in TaskId /\ outcome[t] # "unused"
    /\ runs[r].pc # "upload" => runs[r].upload = NoTask
    /\ runs[r].pc \notin {"backup", "remote", "upload"} => runs[r].backup = NoTask

WatchInv == HeldByItsRun /\ HoldsWhatItWaitsFor

\* Work begins with createTask, and a task that was used stays so.
LEMMA WorkBegins ==
  ASSUME TasksInv, [TasksNext]_taskVars, NEW t \in TaskId
  PROVE  /\ AtWork(t)' => AtWork(t) \/ outcome[t] = "unused"
         /\ outcome[t] # "unused" => outcome'[t] # "unused"
<1> USE DEF AtWork, TasksInv, TasksTypeOK
<1>1. ASSUME NEW u \in TaskId, TaskStep(u)
      PROVE  /\ AtWork(t)' => AtWork(t) \/ outcome[t] = "unused"
             /\ outcome[t] # "unused" => outcome'[t] # "unused"
  <2>1. CASE createTask(u)
    BY <2>1 DEF createTask
  <2>2. CASE executeTask(u)
    <3>1. tasks' = [tasks EXCEPT ![u] = "running"]
      BY <2>2 DEF executeTask, updateTask
    <3> QED BY <2>2, <3>1 DEF executeTask
  <2>3. CASE Report(u)
    BY <2>3 DEF Report, updateTask
  <2>4. CASE FunctionEnds(u)
    <3>1. \/ tasks' = tasks
          \/ \E s \in Final : tasks' = [tasks EXCEPT ![u] = s]
      BY <2>4 DEF FunctionEnds, updateTask, Final
    <3> QED BY <2>4, <3>1 DEF FunctionEnds, Final
  <2>5. CASE deleteTask(u)
    BY <2>5 DEF deleteTask, deleteTasks
  <2>6. CASE Expire(u)
    BY <2>6 DEF Expire
  <2> QED BY <1>1, <2>1, <2>2, <2>3, <2>4, <2>5, <2>6 DEF TaskStep
<1>2. CASE cleanupExpiredTasks
  BY <1>2 DEF cleanupExpiredTasks, deleteTasks
<1>3. CASE TasksDie
  BY <1>3 DEF TasksDie
<1>4. CASE Load
  <2>1. tasks'[t] # "pending" /\ UNCHANGED <<fn, outcome>>
    BY <1>4 DEF Load
  <2> QED BY <2>1
<1>5. CASE UNCHANGED taskVars
  BY <1>5 DEF taskVars
<1> QED BY <1>1, <1>2, <1>3, <1>4, <1>5 DEF TasksNext

\* A run that neither makes a task nor stops waiting for one.
LEMMA WaitGoesOn ==
  ASSUME ScheduleInv, WatchInv, [Next]_scheduleVars,
         NEW r \in Run, NEW new \in RunRecord, Becomes(r, new), abandoned' = abandoned,
         new.mine = runs[r].mine,
         new.backup = runs[r].backup, new.upload = runs[r].upload,
         new.pc # "upload" => new.upload = NoTask,
         new.pc \notin {"backup", "remote", "upload"} => new.backup = NoTask
  PROVE  WatchInv'
<1>1. \A t \in TaskId : /\ AtWork(t)' => AtWork(t) \/ outcome[t] = "unused"
                        /\ outcome[t] # "unused" => outcome'[t] # "unused"
  BY TasksStepOrStutter, WorkBegins DEF ScheduleInv
<1>2. runs'[r] = new /\ \A s \in Run \ {r} : runs'[s] = runs[s]
  BY DEF Becomes, ScheduleInv, RunsOK
<1>3. \A s \in Run : /\ runs'[s].mine = runs[s].mine
                     /\ runs'[s].backup = runs[s].backup /\ runs'[s].upload = runs[s].upload
  BY <1>2
<1>4. HeldByItsRun'
  BY <1>1, <1>3 DEF WatchInv, HeldByItsRun, HoldsWhatItWaitsFor
<1>5. HoldsWhatItWaitsFor'
  BY <1>1, <1>2, <1>3 DEF WatchInv, HoldsWhatItWaitsFor
<1> QED BY <1>4, <1>5 DEF WatchInv

\* A run that makes a task and waits for it.
LEMMA WaitBegins ==
  ASSUME ScheduleInv, WatchInv, [Next]_scheduleVars,
         NEW r \in Run, NEW t \in TaskId, NEW new \in RunRecord, createTask(t),
         Becomes(r, new), abandoned' = abandoned, new.mine = runs[r].mine \cup {t},
         \/ new.pc = "backup" /\ new.backup = t /\ new.upload = NoTask
              /\ runs[r].backup = NoTask /\ runs[r].upload = NoTask
         \/ new.pc = "upload" /\ new.backup = runs[r].backup /\ new.upload = t
              /\ runs[r].upload = NoTask
  PROVE  WatchInv'
<1> USE DEF ScheduleInv, TasksInv, TasksTypeOK
<1>a. NoTask \notin TaskId
  BY ScheduleAssumption
<1>1. /\ outcome[t] = "unused" /\ outcome'[t] = "open"
      /\ \A u \in TaskId \ {t} : (AtWork(u)' <=> AtWork(u)) /\ outcome'[u] = outcome[u]
  BY DEF createTask, AtWork
<1>2. runs'[r] = new /\ \A s \in Run \ {r} : runs'[s] = runs[s]
  BY DEF Becomes, RunsOK
<1>3. \A s \in Run : t \notin runs[s].mine
  BY <1>1 DEF WatchInv, HoldsWhatItWaitsFor
<1>4. \A u \in runs[r].mine : u \in TaskId \ {t}
  BY <1>3 DEF WatchInv, HoldsWhatItWaitsFor
<1>5. HeldByItsRun'
  <2> SUFFICES ASSUME NEW s \in Run, NEW u \in runs'[s].mine \ abandoned', AtWork(u)'
               PROVE  u \in {runs'[s].backup, runs'[s].upload}
    BY DEF HeldByItsRun
  <2>1. CASE s # r
    <3>1. u \in TaskId \ {t} /\ u \in runs[s].mine \ abandoned
      BY <1>2, <1>3, <2>1 DEF WatchInv, HoldsWhatItWaitsFor
    <3> QED BY <1>1, <1>2, <2>1, <3>1 DEF WatchInv, HeldByItsRun
  <2>2. CASE s = r /\ u = t
    BY <1>2, <2>2
  <2>3. CASE s = r /\ u # t
    <3>1. u \in runs[r].mine \ abandoned /\ AtWork(u)
      BY <1>1, <1>2, <1>4, <2>3
    <3>2. u \in {runs[r].backup, runs[r].upload}
      BY <3>1 DEF WatchInv, HeldByItsRun
    <3>3. u # NoTask
      BY <1>4, <1>a, <3>1
    <3> QED BY <1>2, <2>3, <3>2, <3>3
  <2> QED BY <2>1, <2>2, <2>3
<1>6. HoldsWhatItWaitsFor'
  <2> SUFFICES ASSUME NEW s \in Run
               PROVE  /\ \A u \in runs'[s].mine : u \in TaskId /\ outcome'[u] # "unused"
                      /\ runs'[s].pc # "upload" => runs'[s].upload = NoTask
                      /\ runs'[s].pc \notin {"backup", "remote", "upload"}
                           => runs'[s].backup = NoTask
    BY DEF HoldsWhatItWaitsFor
  <2>1. CASE s # r
    BY <1>1, <1>2, <1>3, <2>1 DEF WatchInv, HoldsWhatItWaitsFor
  <2>2. CASE s = r
    BY <1>1, <1>2, <1>4, <2>2 DEF WatchInv, HoldsWhatItWaitsFor
  <2> QED BY <2>1, <2>2
<1> QED BY <1>5, <1>6 DEF WatchInv

\* A run that lets its tasks go: none of them is at work, or it is given up.
LEMMA WaitEnds ==
  ASSUME ScheduleInv, WatchInv, NEW r \in Run, EndBlock(r),
         UNCHANGED taskVars, abandoned \subseteq abandoned',
         \A t \in TaskId \cap {runs[r].backup, runs[r].upload} : AtWork(t) => t \in abandoned'
  PROVE  WatchInv'
<1> USE DEF ScheduleInv
<1>1. /\ runs'[r].mine = runs[r].mine
      /\ runs'[r].backup = NoTask /\ runs'[r].upload = NoTask
      /\ \A s \in Run \ {r} : runs'[s] = runs[s]
  <2>1. runs[r] \in RunRecord
    BY DEF RunsOK
  <2> DEFINE new == [runs[r] EXCEPT !.left = @ - 1, !.backup = NoTask, !.upload = NoTask,
                                    !.pc = IF runs[r].left = 1 THEN "unlink" ELSE "block"]
  <2>2. new.mine = runs[r].mine /\ new.backup = NoTask /\ new.upload = NoTask
    BY <2>1 DEF RunRecord
  <2>3. runs' = [runs EXCEPT ![r] = new]
    BY DEF EndBlock, Becomes
  <2> HIDE DEF new
  <2> QED BY <2>2, <2>3 DEF RunsOK
<1>2. UNCHANGED <<tasks, fn, outcome>>
  BY DEF taskVars
<1>3. HeldByItsRun'
  <2> SUFFICES ASSUME NEW s \in Run, NEW u \in runs'[s].mine \ abandoned', AtWork(u)'
               PROVE  u \in {runs'[s].backup, runs'[s].upload}
    BY DEF HeldByItsRun
  <2>1. u \in runs[s].mine \ abandoned /\ AtWork(u) /\ u \in TaskId
    BY <1>1, <1>2 DEF AtWork, WatchInv, HoldsWhatItWaitsFor
  <2>2. u \in {runs[s].backup, runs[s].upload}
    BY <2>1 DEF WatchInv, HeldByItsRun
  <2> QED BY <1>1, <2>1, <2>2
<1>4. HoldsWhatItWaitsFor'
  BY <1>1, <1>2 DEF WatchInv, HoldsWhatItWaitsFor
<1> QED BY <1>3, <1>4 DEF WatchInv

\* After a wait the task has ended, or the run has given it up.
LEMMA WaitWasLongEnough ==
  ASSUME ScheduleInv, NEW t \in TaskId, Abandon(t)
  PROVE  abandoned \subseteq abandoned' /\ (AtWork(t) => t \in abandoned')
<1>1. CASE waitTaskCompletion(t) \in Final
  <2>1. tasks[t] \in Final
    BY <1>1 DEF waitTaskCompletion, Final
  <2>2. ~ AtWork(t)
    BY <2>1 DEF AtWork, Final, ScheduleInv, TasksInv, Ours
  <2> QED BY <1>1, <2>2 DEF Abandon
<1> QED BY <1>1 DEF Abandon
-----------------------------------------------------------------------------
LEMMA RunKeepsWatch ==
  ASSUME ScheduleInv, WatchInv, NEW r \in Run, RunStep(r)
  PROVE  WatchInv'
<1> USE DEF ScheduleInv
<1>0. [Next]_scheduleVars /\ runs[r] \in RunRecord
  BY DEF Next, RunsOK
<1>a. NoTask \notin TaskId
  BY ScheduleAssumption
<1>b. ASSUME NEW pc \in {"plan", "idle", "unlink", "restart"}, Goto(r, pc),
             abandoned' = abandoned, runs[r].pc \notin {"backup", "remote", "upload"}
      PROVE  WatchInv'
  <2> DEFINE new == [runs[r] EXCEPT !.pc = pc]
  <2>1. /\ new \in RunRecord /\ new.mine = runs[r].mine /\ new.pc = pc
        /\ new.backup = runs[r].backup /\ new.upload = runs[r].upload
    BY <1>0, <1>b DEF RunRecord, RunPC
  <2>2. new.backup = NoTask /\ new.upload = NoTask
    BY <1>b, <2>1 DEF WatchInv, HoldsWhatItWaitsFor
  <2>3. Becomes(r, new)
    BY <1>b DEF Goto
  <2> HIDE DEF new
  <2> QED BY <1>0, <1>b, <2>1, <2>2, <2>3, WaitGoesOn
<1>1. CASE WriteLock(r) \/ SeenLock(r) \/ AskRestart(r)
  BY <1>1, <1>b DEF WriteLock, SeenLock, AskRestart, At
<1>2. CASE ReadPlan(r)
  <2>1. CASE Goto(r, "unlink")
    BY <1>2, <1>b, <2>1 DEF ReadPlan, At
  <2>2. ASSUME NEW n \in 1..MaxBlocks,
               Becomes(r, [runs[r] EXCEPT !.pc = "block", !.left = n])
        PROVE  WatchInv'
    <3> DEFINE new == [runs[r] EXCEPT !.pc = "block", !.left = n]
    <3>1. n \in Int
      BY ScheduleAssumption
    <3>2. /\ new \in RunRecord /\ new.mine = runs[r].mine /\ new.pc = "block"
          /\ new.backup = runs[r].backup /\ new.upload = runs[r].upload
      BY <1>0, <3>1 DEF RunRecord, RunPC
    <3>3. new.backup = NoTask /\ new.upload = NoTask
      BY <1>2, <3>2 DEF ReadPlan, At, WatchInv, HoldsWhatItWaitsFor
    <3>4. Becomes(r, new) /\ abandoned' = abandoned
      BY <1>2, <2>2 DEF ReadPlan
    <3> HIDE DEF new
    <3> QED BY <1>0, <3>2, <3>3, <3>4, WaitGoesOn
  <2> QED BY <1>2, <2>1, <2>2 DEF ReadPlan
<1>3. CASE FinishRun(r)
  <2>1. /\ runs'[r] = Idle /\ \A s \in Run \ {r} : runs'[s] = runs[s]
        /\ UNCHANGED <<tasks, fn, outcome, abandoned>>
    BY <1>3 DEF FinishRun, Becomes, RunsOK, taskVars
  <2>2. Idle.mine = {} /\ Idle.backup = NoTask /\ Idle.upload = NoTask
    BY DEF Idle
  <2>3. HeldByItsRun'
    BY <2>1, <2>2 DEF WatchInv, HeldByItsRun, AtWork
  <2>4. HoldsWhatItWaitsFor'
    BY <2>1, <2>2 DEF WatchInv, HoldsWhatItWaitsFor
  <2> QED BY <2>3, <2>4 DEF WatchInv
<1>4. CASE StartBackup(r)
  <2>0. runs[r].pc = "block" /\ runs[r].backup = NoTask /\ runs[r].upload = NoTask
    BY <1>4 DEF StartBackup, At, WatchInv, HoldsWhatItWaitsFor
  <2>1. ASSUME NEW t \in TaskId, createTask(t),
               Becomes(r, [runs[r] EXCEPT !.pc = "backup", !.backup = t, !.mine = @ \cup {t}])
        PROVE  WatchInv'
    <3> DEFINE new == [runs[r] EXCEPT !.pc = "backup", !.backup = t, !.mine = @ \cup {t}]
    <3>1. /\ new \in RunRecord /\ new.mine = runs[r].mine \cup {t} /\ new.pc = "backup"
          /\ new.backup = t /\ new.upload = runs[r].upload
      BY <1>0 DEF RunRecord, RunPC
    <3>2. Becomes(r, new) /\ abandoned' = abandoned
      BY <1>4, <2>1 DEF StartBackup
    <3> HIDE DEF new
    <3> QED BY <1>0, <2>0, <2>1, <3>1, <3>2, WaitBegins
  <2>2. CASE EndBlock(r) /\ UNCHANGED taskVars
    BY <1>4, <1>a, <2>0, <2>2, WaitEnds DEF StartBackup
  <2> QED BY <1>4, <2>1, <2>2 DEF StartBackup
<1>5. CASE BackupOver(r)
  <2>1. /\ runs[r].backup \in TaskId /\ runs[r].upload = NoTask /\ runs[r].pc = "backup"
        /\ Abandon(runs[r].backup) /\ UNCHANGED taskVars
    BY <1>5 DEF BackupOver, At, RunsOK, WatchInv, HoldsWhatItWaitsFor
  <2>2. /\ abandoned \subseteq abandoned'
        /\ AtWork(runs[r].backup) => runs[r].backup \in abandoned'
    BY <2>1, WaitWasLongEnough
  <2>3. CASE EndBlock(r)
    BY <1>a, <2>1, <2>2, <2>3, WaitEnds
  <2>4. CASE waitTaskCompletion(runs[r].backup) = "completed" /\ Goto(r, "remote")
    <3> DEFINE new == [runs[r] EXCEPT !.pc = "remote"]
    <3>1. /\ new \in RunRecord /\ new.mine = runs[r].mine /\ new.pc = "remote"
          /\ new.backup = runs[r].backup /\ new.upload = NoTask
      BY <1>0, <2>1 DEF RunRecord, RunPC
    <3>2. Becomes(r, new) /\ abandoned' = abandoned
      BY <2>1, <2>4 DEF Goto, Abandon, Final
    <3> HIDE DEF new
    <3> QED BY <1>0, <2>1, <3>1, <3>2, WaitGoesOn
  <2> QED BY <1>5, <2>3, <2>4 DEF BackupOver
<1>6. CASE StartUpload(r)
  <2>0. runs[r].pc = "remote" /\ runs[r].backup \in TaskId /\ runs[r].upload = NoTask
    BY <1>6 DEF StartUpload, At, RunsOK, WatchInv, HoldsWhatItWaitsFor
  <2>1. ASSUME NEW t \in TaskId, createTask(t),
               Becomes(r, [runs[r] EXCEPT !.pc = "upload", !.upload = t, !.mine = @ \cup {t}])
        PROVE  WatchInv'
    <3> DEFINE new == [runs[r] EXCEPT !.pc = "upload", !.upload = t, !.mine = @ \cup {t}]
    <3>1. /\ new \in RunRecord /\ new.mine = runs[r].mine \cup {t} /\ new.pc = "upload"
          /\ new.backup = runs[r].backup /\ new.upload = t
      BY <1>0 DEF RunRecord, RunPC
    <3>2. Becomes(r, new) /\ abandoned' = abandoned
      BY <1>6, <2>1 DEF StartUpload
    <3> HIDE DEF new
    <3> QED BY <1>0, <2>0, <2>1, <3>1, <3>2, WaitBegins
  <2>2. CASE EndBlock(r) /\ UNCHANGED taskVars
    <3>1. ~ AtWork(runs[r].backup)
      BY <2>0 DEF AtWork, RunsOK, TasksInv, Ours
    <3> QED BY <1>6, <1>a, <2>0, <2>2, <3>1, WaitEnds DEF StartUpload
  <2> QED BY <1>6, <2>1, <2>2 DEF StartUpload
<1>7. CASE UploadOver(r)
  <2>1. /\ runs[r].backup \in TaskId /\ runs[r].upload \in TaskId
        /\ outcome[runs[r].backup] = "ok"
        /\ Abandon(runs[r].upload) /\ EndBlock(r) /\ UNCHANGED taskVars
    BY <1>7 DEF UploadOver, At, RunsOK
  <2>2. /\ abandoned \subseteq abandoned'
        /\ AtWork(runs[r].upload) => runs[r].upload \in abandoned'
    BY <2>1, WaitWasLongEnough
  <2>3. ~ AtWork(runs[r].backup)
    BY <2>1 DEF AtWork, TasksInv, Ours
  <2> QED BY <2>1, <2>2, <2>3, WaitEnds
<1> QED BY <1>1, <1>2, <1>3, <1>4, <1>5, <1>6, <1>7 DEF RunStep

LEMMA WatchKept ==
  ASSUME ScheduleInv, WatchInv, [Next]_scheduleVars
  PROVE  WatchInv'
<1> USE DEF ScheduleInv
<1>1. \A t \in TaskId : /\ AtWork(t)' => AtWork(t) \/ outcome[t] = "unused"
                        /\ outcome[t] # "unused" => outcome'[t] # "unused"
  BY TasksStepOrStutter, WorkBegins
<1>2. CASE \E r \in Run : RunStep(r)
  BY <1>2, RunKeepsWatch
<1>3. CASE SlotTick \/ RunNow
  <2>1. UNCHANGED <<tasks, fn, outcome, abandoned>>
    BY <1>3 DEF SlotTick, RunNow, taskVars
  <2>2. CASE runs' = runs
    BY <2>1, <2>2 DEF WatchInv, HeldByItsRun, HoldsWhatItWaitsFor, AtWork
  <2>3. ASSUME NEW r \in Run, runs[r].pc = "idle", NEW pc \in {"seen", "lock"}, Goto(r, pc)
        PROVE  WatchInv'
    <3> DEFINE new == [runs[r] EXCEPT !.pc = pc]
    <3>0. runs[r] \in RunRecord
      BY DEF RunsOK
    <3>1. /\ new \in RunRecord /\ new.mine = runs[r].mine /\ new.pc = pc
          /\ new.backup = runs[r].backup /\ new.upload = runs[r].upload
      BY <3>0 DEF RunRecord, RunPC
    <3>2. new.backup = NoTask /\ new.upload = NoTask
      BY <2>3, <3>1 DEF WatchInv, HoldsWhatItWaitsFor
    <3>3. Becomes(r, new)
      BY <2>3 DEF Goto
    <3> HIDE DEF new
    <3> QED BY <2>1, <3>1, <3>2, <3>3, WaitGoesOn
  <2> QED BY <1>3, <2>2, <2>3 DEF SlotTick, RunNow, Trigger
<1>4. CASE TasksAtWork \/ Boot \/ UNCHANGED scheduleVars
  <2>1. UNCHANGED <<runs, abandoned>>
    BY <1>4 DEF TasksAtWork, Boot, scheduleVars, runVars
  <2> QED BY <1>1, <2>1 DEF WatchInv, HeldByItsRun, HoldsWhatItWaitsFor
<1>5. CASE Die
  <2>1. runs' = [r \in Run |-> Idle]
    BY <1>5 DEF Die
  <2>2. Idle.mine = {} /\ Idle.backup = NoTask /\ Idle.upload = NoTask
    BY DEF Idle
  <2> QED BY <2>1, <2>2 DEF WatchInv, HeldByItsRun, HoldsWhatItWaitsFor
<1> QED BY <1>2, <1>3, <1>4, <1>5 DEF Next

LEMMA WatchStarts == Init => WatchInv
<1>1. Idle.mine = {} /\ Idle.backup = NoTask /\ Idle.upload = NoTask
  BY DEF Idle
<1> QED BY <1>1 DEF Init, WatchInv, HeldByItsRun, HoldsWhatItWaitsFor

\* The function of a run's task has that run waiting for it, unless the wait was
\* given up: nothing else makes a run turn to its next block before it ends.
THEOREM FunctionsHaveWaiters == Spec => []FunctionsAreWatched
<1>1. WatchInv => FunctionsAreWatched
  BY DEF WatchInv, HeldByItsRun, FunctionsAreWatched, AtWork
<1>2. ScheduleInv /\ WatchInv /\ [Next]_scheduleVars => WatchInv'
  BY WatchKept
<1> QED BY <1>1, <1>2, WatchStarts, ScheduleIsSafe, PTL DEF Spec
=============================================================================
