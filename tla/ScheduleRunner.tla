--------------------------- MODULE ScheduleRunner ---------------------------
(***************************************************************************)
(* The backup schedule of the agent (node/function/schedule/runner.js) on  *)
(* top of its tasks: every even hour a run reads the plan of the slot and  *)
(* works through its blocks, one backup task and perhaps one upload task   *)
(* each.  A file, runner.lock, marks a slot that is not finished.          *)
(*                                                                         *)
(* Runs are asynchronous: an action is what happens between two awaits.    *)
(* The plan may be edited at any time, so ReadPlan finds any number of     *)
(* blocks.  Names, copies and pruning are in BackupRetention; Report and   *)
(* the expiry of tasks, half a day old, change nothing a run looks at.     *)
(***************************************************************************)
EXTENDS TaskManager

CONSTANTS Run,         \* bound: invocations of runScheduleSlot at one time
          MaxBlocks,   \* bound: blocks in the plan of a slot
          MaxCrashes,  \* bound: deaths of the process nobody asked for
          NoTask

ASSUME ScheduleAssumption ==
  MaxBlocks \in Nat \ {0} /\ MaxCrashes \in Nat /\ NoTask \notin TaskId

VARIABLES
  lock,       \* runner.lock exists
  runs,       \* the local variables of every invocation
  timer,      \* startScheduleRunner: "aligning" | "armed" | "ticking"
  dying,      \* the daemon has accepted a restart of this process
  crashes,
  stale,      \* history: lock was left by a crash or a failed write or unlink
  missed,     \* history: slots of this process whose tick triggered nothing
  abandoned,  \* history: tasks a run stopped waiting for before their end
  logged      \* history: blocks whose log entry says success

runVars == <<lock, runs, timer, dying, crashes, stale, missed, abandoned, logged>>
scheduleVars == <<taskVars, runVars>>

RunPC == {"idle", "lock", "plan", "block", "backup", "remote", "upload", "unlink",
          "seen", "restart"}

Idle == [pc |-> "idle", left |-> 0, backup |-> NoTask, upload |-> NoTask, mine |-> {}]

ScheduleTypeOK ==
  /\ lock \in BOOLEAN /\ dying \in BOOLEAN /\ stale \in BOOLEAN
  /\ runs \in [Run -> [pc : RunPC, left : 0..MaxBlocks, backup : TaskId \cup {NoTask},
                       upload : TaskId \cup {NoTask}, mine : SUBSET TaskId]]
  /\ timer \in {"aligning", "armed", "ticking"}
  /\ crashes \in 0..MaxCrashes /\ missed \in 0..2
  /\ abandoned \in SUBSET TaskId
  /\ logged \in SUBSET [backup : TaskId, upload : TaskId \cup {NoTask}]
  /\ \A r \in Run : runs[r].pc \in {"backup", "remote", "upload"} => runs[r].left > 0

Init ==
  /\ TasksInit
  /\ lock = FALSE
  /\ runs = [r \in Run |-> Idle]
  /\ timer = "aligning"
  /\ dying = FALSE
  /\ crashes = 0
  /\ stale = FALSE
  /\ missed = 0
  /\ abandoned = {}
  /\ logged = {}

At(r, pc) == up /\ runs[r].pc = pc
Becomes(r, new) == runs' = [runs EXCEPT ![r] = new]
Goto(r, pc) == Becomes(r, [runs[r] EXCEPT !.pc = pc])
MayFail == SaveMayFail
-----------------------------------------------------------------------------
(***************************************************************************)
(* The clock and the lock.                                                 *)
(***************************************************************************)

\* runScheduleSlot up to its first await; existsSync is synchronous.
Trigger(r) ==
  /\ Quiet /\ runs[r].pc = "idle"
  /\ Goto(r, IF lock THEN "seen" ELSE "lock")

\* An even hour: the first one starts the interval, the first tick of the
\* interval is swallowed too, the others trigger a run.
SlotTick ==
  /\ Quiet
  /\ \/ /\ timer # "ticking"
        /\ timer' = IF timer = "aligning" THEN "armed" ELSE "ticking"
        /\ missed' = missed + 1
        /\ UNCHANGED runs
     \/ /\ timer = "ticking"
        /\ \E r \in Run : Trigger(r)
        /\ UNCHANGED <<timer, missed>>
  /\ UNCHANGED <<taskVars, lock, dying, crashes, stale, abandoned, logged>>

\* POST /schedule/run
RunNow ==
  /\ \E r \in Run : Trigger(r)
  /\ UNCHANGED <<taskVars, lock, timer, dying, crashes, stale, missed, abandoned, logged>>

\* writeFile; when it fails half-way the file is there and nobody removes it.
WriteLock(r) ==
  /\ At(r, "lock")
  /\ \/ lock' = TRUE /\ stale' = FALSE /\ Goto(r, "plan")
     \/ /\ MayFail
        /\ lock' \in {lock, TRUE}
        /\ stale' = (lock' /\ (stale \/ ~ lock))
        /\ Goto(r, "idle")
  /\ UNCHANGED <<taskVars, timer, dying, crashes, missed, abandoned, logged>>

\* The plan cannot be read, is disabled or has nothing for this slot, or gives
\* a list of blocks.
ReadPlanLeavesLock(r) ==
  /\ Quiet /\ At(r, "plan")
  /\ \/ Goto(r, "idle")
     \/ \E n \in 1..MaxBlocks : Becomes(r, [runs[r] EXCEPT !.pc = "block", !.left = n])
  /\ UNCHANGED <<taskVars, lock, timer, dying, crashes, stale, missed, abandoned, logged>>

ReadPlan(r) ==
  /\ Quiet /\ At(r, "plan")
  /\ \/ Goto(r, "unlink")
     \/ \E n \in 1..MaxBlocks : Becomes(r, [runs[r] EXCEPT !.pc = "block", !.left = n])
  /\ UNCHANGED <<taskVars, lock, timer, dying, crashes, stale, missed, abandoned, logged>>

\* Every unlink of the lock is attempted once and its errors are ignored.
UnlinkLock ==
  \/ lock' = FALSE /\ stale' = FALSE
  \/ MayFail /\ lock' = lock /\ stale' = lock

FinishRun(r) ==
  /\ At(r, "unlink")
  /\ UnlinkLock
  /\ Becomes(r, Idle)
  /\ UNCHANGED <<taskVars, timer, dying, crashes, missed, abandoned, logged>>

\* handleExistingLock: the lock goes first, then the daemon is asked for a
\* restart, which it may refuse or never hear of.
SeenLockKeeps(r) ==
  /\ At(r, "seen")
  /\ Goto(r, "restart")
  /\ UNCHANGED <<taskVars, lock, timer, dying, crashes, stale, missed, abandoned, logged>>

SeenLock(r) ==
  /\ At(r, "seen")
  /\ UnlinkLock
  /\ Goto(r, "restart")
  /\ UNCHANGED <<taskVars, timer, dying, crashes, missed, abandoned, logged>>

AskRestart(r) ==
  /\ Quiet /\ At(r, "restart")
  /\ dying' \in {dying, TRUE}
  /\ Goto(r, "idle")
  /\ UNCHANGED <<taskVars, lock, timer, crashes, stale, missed, abandoned, logged>>
-----------------------------------------------------------------------------
(***************************************************************************)
(* The blocks of a run: executeTaskBlock and the backups it calls.         *)
(***************************************************************************)

EndBlock(r) ==
  Becomes(r, [runs[r] EXCEPT !.left = @ - 1, !.backup = NoTask, !.upload = NoTask,
                             !.pc = IF runs[r].left = 1 THEN "unlink" ELSE "block"])

\* A block of an unknown type is skipped, and one whose target is missing fails
\* before it has a task.
StartBackup(r) ==
  /\ Quiet /\ At(r, "block")
  /\ \/ \E t \in TaskId :
          /\ createTask(t)
          /\ Becomes(r, [runs[r] EXCEPT !.pc = "backup", !.backup = t, !.mine = @ \cup {t}])
     \/ EndBlock(r) /\ UNCHANGED taskVars
  /\ UNCHANGED <<lock, timer, dying, crashes, stale, missed, abandoned, logged>>

\* waitTaskCompletion: a task that is gone is "missing", and a wait of two
\* hours is over whatever the task does.
waitTaskCompletionNoCheck(t) ==
  IF tasks[t] = "none" THEN "missing" ELSE "completed"

waitTaskCompletion(t) ==
  CASE tasks[t] = "none" -> "missing"
    [] tasks[t] \in Final -> tasks[t]
    [] OTHER -> "timeout"

Abandon(t) ==
  abandoned' = IF waitTaskCompletion(t) \in Final THEN abandoned ELSE abandoned \cup {t}

BackupOverNoTimeout(r) ==
  /\ Quiet /\ At(r, "backup")
  /\ waitTaskCompletion(runs[r].backup) # "timeout"
  /\ UNCHANGED abandoned
  /\ EndBlock(r)
  /\ UNCHANGED <<taskVars, lock, timer, dying, crashes, stale, missed, logged>>

\* The wait for the backup is over; a success is pruned and uploaded if the
\* block has a remote profile.
BackupOver(r) ==
  /\ Quiet /\ At(r, "backup")
  /\ Abandon(runs[r].backup)
  /\ LET result == waitTaskCompletion(runs[r].backup) IN
     \/ result = "completed" /\ Goto(r, "remote") /\ UNCHANGED logged
     \/ /\ result = "completed"
        /\ logged' = logged \cup {[backup |-> runs[r].backup, upload |-> NoTask]}
        /\ EndBlock(r)
     \/ result # "completed" /\ EndBlock(r) /\ UNCHANGED logged
  /\ UNCHANGED <<taskVars, lock, timer, dying, crashes, stale, missed>>

\* uploadBackupToS3IfNeeded; an unknown profile is an error of the block.
StartUpload(r) ==
  /\ Quiet /\ At(r, "remote")
  /\ \/ \E t \in TaskId :
          /\ createTask(t)
          /\ Becomes(r, [runs[r] EXCEPT !.pc = "upload", !.upload = t, !.mine = @ \cup {t}])
     \/ EndBlock(r) /\ UNCHANGED taskVars
  /\ UNCHANGED <<lock, timer, dying, crashes, stale, missed, abandoned, logged>>

UploadOverAnyway(r) ==
  /\ Quiet /\ At(r, "upload")
  /\ Abandon(runs[r].upload)
  /\ logged' = logged \cup {[backup |-> runs[r].backup, upload |-> runs[r].upload]}
  /\ EndBlock(r)
  /\ UNCHANGED <<taskVars, lock, timer, dying, crashes, stale, missed>>

UploadOver(r) ==
  /\ Quiet /\ At(r, "upload")
  /\ Abandon(runs[r].upload)
  /\ logged' = IF waitTaskCompletion(runs[r].upload) = "completed"
                 THEN logged \cup {[backup |-> runs[r].backup, upload |-> runs[r].upload]}
                 ELSE logged
  /\ EndBlock(r)
  /\ UNCHANGED <<taskVars, lock, timer, dying, crashes, stale, missed>>
-----------------------------------------------------------------------------
(***************************************************************************)
(* The process: its other work on the tasks, its death and its boot.       *)
(***************************************************************************)
TasksAtWork ==
  /\ \E t \in TaskId : executeTask(t) \/ FunctionEnds(t) \/ deleteTask(t)
  /\ UNCHANGED runVars

Die ==
  /\ up
  /\ TasksDie
  /\ \/ dying /\ UNCHANGED crashes
     \/ ~ dying /\ crashes < MaxCrashes /\ crashes' = crashes + 1
  /\ runs' = [r \in Run |-> Idle]
  /\ stale' = lock
  /\ timer' = "aligning"
  /\ dying' = FALSE
  /\ missed' = 0
  /\ UNCHANGED <<lock, abandoned, logged>>

Boot == Load /\ UNCHANGED runVars

RunStep(r) ==
  \/ WriteLock(r) \/ ReadPlan(r) \/ FinishRun(r) \/ SeenLock(r) \/ AskRestart(r)
  \/ StartBackup(r) \/ BackupOver(r) \/ StartUpload(r) \/ UploadOver(r)

Next == SlotTick \/ RunNow \/ (\E r \in Run : RunStep(r)) \/ TasksAtWork \/ Die \/ Boot

Spec == Init /\ [][Next]_scheduleVars

\* Fairness: the clock goes on, the event loop and the file system serve every
\* pending call, the wait for a task is at most two hours, a process the daemon
\* has sent a signal dies, and the daemon starts it again.  No task function
\* need ever end, and nobody need ever press the button.
FairSpec ==
  /\ Spec
  /\ WF_scheduleVars(SlotTick)
  /\ \A r \in Run : WF_scheduleVars(RunStep(r))
  /\ \A t \in TaskId : WF_scheduleVars(executeTask(t) /\ UNCHANGED runVars)
  /\ WF_scheduleVars(dying /\ Die)
  /\ WF_scheduleVars(Boot)
-----------------------------------------------------------------------------
(***************************************************************************)
(* Properties.                                                             *)
(***************************************************************************)
Working(r) == runs[r].pc \in {"plan", "block", "backup", "remote", "upload", "unlink"}

\* A lock that was written by this process and not left over by an error has a
\* run that will remove it: no early return of runScheduleSlot forgets it.
NoLeakedLock == (lock /\ ~ stale) => \E r \in Run : Working(r)

\* A log entry that says success is about a backup that was made and, if an upload
\* was begun for it, an upload that was made, whatever was deleted, timed out or
\* restarted meanwhile.  Which blocks have a remote profile is not recorded here.
SuccessIsReal ==
  \A b \in logged : outcome[b.backup] = "ok" /\ (b.upload # NoTask => outcome[b.upload] = "ok")

\* The function of a task that belongs to a run has that run waiting for it,
\* unless the wait was given up.
FunctionsAreWatched ==
  \A r \in Run : \A t \in runs[r].mine \ abandoned :
    fn[t] = "running" => t \in {runs[r].backup, runs[r].upload}

\* Every run ends, even if a backup hangs or the daemon does not answer.
RunsEnd == \A r \in Run : (runs[r].pc # "idle") ~> (runs[r].pc = "idle")

\* A lock that was left behind does not stop the schedule for good.
StaleLockGoes == stale ~> ~ stale

\* runner.js:20: the lock marks a slot that is not finished; a run that finds it
\* skips its slot: two runs never work at the same time.
OneRunAtATime == \A r, s \in Run : Working(r) /\ Working(s) => r = s

\* runner.js:22: the blocks of a slot are executed one after the other;
\* ScheduledTasks.vue:27: one that takes longer than two hours is terminated.
BlocksInTurn ==
  \A r \in Run : \A t, u \in runs[r].mine : fn[t] = "running" /\ fn[u] = "running" => t = u

\* runner.js:457: only the first alignment after a start runs no plan.
OneSlotMissed == missed <= 1
=============================================================================
