------------------------------- MODULE Daemon -------------------------------
(***************************************************************************)
(* The supervisor daemon (main.go): it starts the services, waits for      *)
(* their exits, restarts them on exit, on request and on a missing         *)
(* heartbeat, all under one restart budget, and stops them on a signal.    *)
(*                                                                         *)
(* One action is one critical section of pm.mu, one call of Allow(), or    *)
(* one wait; between two of them any other goroutine runs.  The goroutines *)
(* are the waiter of every child process (waiter[p]), the handlers of      *)
(* restart requests (Requester), the heartbeat monitor (Watchdog) and      *)
(* main (Main); pc[a] is the point the latter three kinds have reached.    *)
(* A pid is never reused: lastPid is the last one the kernel gave out.     *)
(***************************************************************************)
EXTENDS RateLimiter, Sequences

CONSTANTS Service,        \* the keys of pm.services
          Order,          \* the order in which main starts and stops them
          Requester,      \* bound: restart requests handled at a time
          Main, Watchdog, \* the two long-lived goroutines
          HeartbeatTimeout, MaxNoHeartbeatRestart,
          MaxPid,         \* bound: processes ever created
          MaySurviveKill  \* may a child outlive SIGKILL by five seconds?

Actor == Requester \cup {Main, Watchdog}
Pid == 1 .. MaxPid
NoPid == 0

ASSUME DaemonAssumption ==
  /\ HeartbeatTimeout \in Nat /\ MaxNoHeartbeatRestart \in Nat /\ MaxPid \in Nat
  /\ MaySurviveKill \in BOOLEAN
  /\ Order \in Seq(Service) /\ Len(Order) > 0
  /\ \A s \in Service : \E i \in DOMAIN Order : Order[i] = s
  /\ Main # Watchdog /\ Main \notin Requester /\ Watchdog \notin Requester
  /\ IsFiniteSet(Requester)

VARIABLES
  svc,           \* pm.services
  shuttingDown,  \* pm.shuttingDown
  proc,          \* the child processes, as the kernel sees them
  lastPid,
  waiter,        \* the goroutine of StartService that waits for a child
  pc, job,       \* where each actor is, and on whose behalf
  toRestart,     \* StartHeartbeatMonitor's list, as far as not yet handled
  todo,          \* the services main has still to start, later to stop
  excused,       \* history: services the daemon has given up, see NoSilentLoss
  shutAt,        \* history: lastPid when BeginShutdown ran
  streak         \* history: restarts for silence since the last heartbeat

children == <<proc, lastPid, waiter>>
history == <<excused, shutAt, streak>>
vars == <<limiterVars, svc, shuttingDown, children, pc, job, toRestart, todo, history>>

ServiceInfo == [running : BOOLEAN, stopping : BOOLEAN, pid : Pid \cup {NoPid},
                lastHeart : Nat, nhCount : Nat, nhDisabled : BOOLEAN]

\* sig is the strongest signal the daemon has sent to the live process.
Process == [owner : Service, st : {"unborn", "alive", "dead"},
            sig : {"none", "term", "kill"}]

\* svc and pid are the arguments of RestartRequest, proc the process whose
\* exitCh stopService waits on, attempt the loop of restartIfNoHeartbeat.
Job == [svc : Service, pid : Pid \cup {NoPid}, proc : Pid \cup {NoPid}, attempt : Nat]

NoJob == [svc |-> Order[1], pid |-> NoPid, proc |-> NoPid, attempt |-> 0]

RestartPC == {"allow", "check", "branch", "stop", "term", "kill", "start"}
Label == RestartPC \cup {"idle", "sender", "docker", "attempt", "after", "giveup",
                         "boot", "serve", "exited"}
WaiterLabel == {"none", "wait", "allow", "start", "done"}

TypeOK ==
  /\ LimiterTypeOK
  /\ svc \in [Service -> ServiceInfo]
  /\ shuttingDown \in BOOLEAN
  /\ proc \in [Pid -> Process]
  /\ lastPid \in 0 .. MaxPid
  /\ waiter \in [Pid -> WaiterLabel]
  /\ pc \in [Actor -> Label]
  /\ job \in [Actor -> Job]
  /\ toRestart \in SUBSET (Service \X Pid)
  /\ todo \in Seq(Service)
  /\ excused \in SUBSET Service
  /\ shutAt \in 0 .. MaxPid
  /\ streak \in [Service -> Nat]

\* NewProcessManager, and main before its first StartService.
Init ==
  /\ LimiterInit
  /\ svc = [s \in Service |-> [running |-> FALSE, stopping |-> FALSE, pid |-> NoPid,
                               lastHeart |-> 0, nhCount |-> 0, nhDisabled |-> FALSE]]
  /\ shuttingDown = FALSE
  /\ proc = [p \in Pid |-> [owner |-> Order[1], st |-> "unborn", sig |-> "none"]]
  /\ lastPid = 0
  /\ waiter = [p \in Pid |-> "none"]
  /\ pc = [a \in Actor |-> IF a = Main THEN "boot" ELSE "idle"]
  /\ job = [a \in Actor |-> NoJob]
  /\ toRestart = {}
  /\ todo = Order
  /\ excused = {}
  /\ shutAt = 0
  /\ streak = [s \in Service |-> 0]

Up == pc[Main] # "exited"   \* the daemon, and so every goroutine, still runs
Goto(a, l) == pc' = [pc EXCEPT ![a] = l]

\* The goroutine or the call ends: its locals are gone.
Finish(a) ==
  /\ Goto(a, "idle")
  /\ job' = [job EXCEPT ![a] = NoJob]
-----------------------------------------------------------------------------
(***************************************************************************)
(* The child processes.  A child may exit at any moment, asked or not; it  *)
(* stays a zombie until its waiter has reaped it.                          *)
(***************************************************************************)
ProcessExit(p) ==
  /\ proc[p].st = "alive"
  /\ proc' = [proc EXCEPT ![p].st = "dead", ![p].sig = "none"]
  /\ UNCHANGED <<limiterVars, svc, shuttingDown, lastPid, waiter, pc, job, toRestart, todo, history>>

Signal(p, sig) ==
  proc' = [proc EXCEPT ![p].sig = IF proc[p].st = "alive" /\ @ # "kill" THEN sig ELSE @]

(***************************************************************************)
(* StartService(s): nothing if it runs, else one new child and its waiter. *)
(* The program is started while pm.mu is held; starting it may fail, after *)
(* Stopping has been cleared.                                              *)
(***************************************************************************)
LaunchStillStopping(s) ==
  /\ lastPid < MaxPid
  /\ lastPid' = lastPid + 1
  /\ svc' = [svc EXCEPT ![s].running = TRUE, ![s].pid = lastPid + 1, ![s].lastHeart = clock]
  /\ proc' = [proc EXCEPT ![lastPid + 1] = [owner |-> s, st |-> "alive", sig |-> "none"]]
  /\ excused' = excused \ {s}

Launch(s) ==
  /\ lastPid < MaxPid
  /\ lastPid' = lastPid + 1
  /\ svc' = [svc EXCEPT ![s].running = TRUE, ![s].stopping = FALSE,
                        ![s].pid = lastPid + 1, ![s].lastHeart = clock]
  /\ proc' = [proc EXCEPT ![lastPid + 1] = [owner |-> s, st |-> "alive", sig |-> "none"]]
  /\ excused' = excused \ {s}

StartFails(s) ==
  /\ svc' = [svc EXCEPT ![s].stopping = FALSE]
  /\ excused' = excused \cup {s}
  /\ UNCHANGED <<proc, lastPid>>

\* w: the waiters as the calling step leaves them.
StartService(s, w) ==
  \/ /\ svc[s].running
     /\ waiter' = w
     /\ UNCHANGED <<svc, proc, lastPid, excused>>
  \/ /\ ~ svc[s].running
     /\ Launch(s)
     /\ waiter' = [w EXCEPT ![lastPid + 1] = "wait"]
  \/ /\ ~ svc[s].running
     /\ StartFails(s)
     /\ waiter' = w

(***************************************************************************)
(* The waiter of child p: it records the exit, and restarts the service    *)
(* through HandleExit unless the exit was wanted.                          *)
(***************************************************************************)
WaiterReap(p) ==
  /\ Up
  /\ waiter[p] = "wait" /\ proc[p].st = "dead"
  /\ LET s == proc[p].owner IN
     /\ svc' = [svc EXCEPT ![s].running = FALSE, ![s].pid = NoPid]
     /\ waiter' = [waiter EXCEPT ![p] =
                     IF shuttingDown \/ svc[s].stopping THEN "done" ELSE "allow"]
  /\ UNCHANGED <<limiterVars, shuttingDown, proc, lastPid, pc, job, toRestart, todo, history>>

WaiterAllowAnyway(p) ==
  /\ Up
  /\ waiter[p] = "allow"
  /\ Allowed \/ Denied
  /\ waiter' = [waiter EXCEPT ![p] = "start"]
  /\ UNCHANGED <<svc, shuttingDown, proc, lastPid, pc, job, toRestart, todo, history>>

WaiterAllow(p) ==
  /\ Up
  /\ waiter[p] = "allow"
  /\ \/ /\ Allowed
        /\ waiter' = [waiter EXCEPT ![p] = "start"]
        /\ UNCHANGED excused
     \/ /\ Denied
        /\ waiter' = [waiter EXCEPT ![p] = "done"]
        /\ excused' = excused \cup {proc[p].owner}
  /\ UNCHANGED <<svc, shuttingDown, proc, lastPid, pc, job, toRestart, todo, shutAt, streak>>

WaiterStart(p) ==
  /\ Up
  /\ waiter[p] = "start"
  /\ StartService(proc[p].owner, [waiter EXCEPT ![p] = "done"])
  /\ UNCHANGED <<limiterVars, shuttingDown, pc, job, toRestart, todo, shutAt, streak>>
-----------------------------------------------------------------------------
(***************************************************************************)
(* Requests on the socket (handleRequest).  They are sent by child p while *)
(* it lives; the handler's goroutine may run at any time after that.       *)
(***************************************************************************)
HeartbeatForgives(p) ==
  /\ Up /\ pc[Main] # "boot"
  /\ \E s \in Service :
       /\ svc[s].running /\ svc[s].pid = p
       /\ svc' = [svc EXCEPT ![s].lastHeart = clock, ![s].nhCount = 0, ![s].nhDisabled = FALSE]
       /\ streak' = [streak EXCEPT ![s] = 0]
  /\ counts' = {}
  /\ UNCHANGED <<clock, granted, shuttingDown, children, pc, job, toRestart, todo, excused, shutAt>>

Heartbeat(p) ==
  /\ Up /\ pc[Main] # "boot"
  /\ \E s \in Service :
       /\ svc[s].running /\ svc[s].pid = p
       /\ svc' = [svc EXCEPT ![s].lastHeart = clock, ![s].nhCount = 0, ![s].nhDisabled = FALSE]
       /\ streak' = [streak EXCEPT ![s] = 0]
  /\ UNCHANGED <<limiterVars, shuttingDown, children, pc, job, toRestart, todo, excused, shutAt>>

\* restart-self and restart-docker: a goroutine is spawned for each.
Receive(r, p) ==
  /\ Up /\ pc[Main] # "boot"
  /\ pc[r] = "idle" /\ proc[p].st = "alive"
  /\ \E l \in {"allow", "sender"} : Goto(r, l)
  /\ job' = [job EXCEPT ![r].svc = proc[p].owner, ![r].pid = p]
  /\ UNCHANGED <<limiterVars, svc, shuttingDown, children, toRestart, todo, history>>

\* handleRestartDocker: the sender is checked first, the budget afterwards.
CheckSender(r) ==
  /\ Up
  /\ pc[r] = "sender"
  /\ LET s == job[r].svc IN
     IF svc[s].running /\ svc[s].pid = job[r].pid
       THEN Goto(r, "docker") /\ UNCHANGED job
       ELSE Finish(r)
  /\ UNCHANGED <<limiterVars, svc, shuttingDown, children, toRestart, todo, history>>

RestartDocker(r) ==
  /\ Up
  /\ pc[r] = "docker"
  /\ Allowed \/ Denied
  /\ Finish(r)
  /\ UNCHANGED <<svc, shuttingDown, children, toRestart, todo, history>>

(***************************************************************************)
(* RestartRequest(svc, pid), called by a request's goroutine and by the    *)
(* watchdog.  The pid is compared under pm.mu; Running is read again       *)
(* without it, and stopService takes the mutex anew.                       *)
(***************************************************************************)
Return(a) == IF a = Watchdog THEN Goto(a, "after") /\ UNCHANGED job ELSE Finish(a)

AllowRestart(a) ==
  /\ Up
  /\ pc[a] = "allow"
  /\ \/ Allowed /\ Goto(a, "check") /\ UNCHANGED job
     \/ Denied /\ Return(a)
  /\ UNCHANGED <<svc, shuttingDown, children, toRestart, todo, history>>

CheckPid(a) ==
  /\ Up
  /\ pc[a] = "check"
  /\ LET s == svc[job[a].svc] IN
     IF s.running /\ job[a].pid # NoPid /\ s.pid # job[a].pid
       THEN Return(a)
       ELSE Goto(a, "branch") /\ UNCHANGED job
  /\ UNCHANGED <<limiterVars, svc, shuttingDown, children, toRestart, todo, history>>

Branch(a) ==
  /\ Up
  /\ pc[a] = "branch"
  /\ Goto(a, IF svc[job[a].svc].running THEN "stop" ELSE "start")
  /\ UNCHANGED <<limiterVars, svc, shuttingDown, children, job, toRestart, todo, history>>

StartAgain(a) ==
  /\ Up
  /\ pc[a] = "start"
  /\ StartService(job[a].svc, waiter)
  /\ Return(a)
  /\ UNCHANGED <<limiterVars, shuttingDown, toRestart, todo, shutAt, streak>>

(***************************************************************************)
(* stopService: mark, SIGTERM, wait for exitCh at most 30 s, SIGKILL, wait *)
(* at most 5 s more.  exitCh is closed by the waiter when it reaps.  The   *)
(* caller is RestartRequest, or StopAll in main.                           *)
(***************************************************************************)
Target(a) == IF a = Main THEN Head(todo) ELSE job[a].svc

Stopped(a) ==
  /\ job' = [job EXCEPT ![a].proc = NoPid]
  /\ IF a = Main
       THEN /\ todo' = Tail(todo)
            /\ Goto(Main, IF Len(todo) = 1 THEN "exited" ELSE "stop")
       ELSE Goto(a, "start") /\ UNCHANGED todo

StopUnlessStopping(a) ==
  /\ Up
  /\ pc[a] = "stop"
  /\ LET s == Target(a) IN
     \/ /\ ~ svc[s].running \/ svc[s].stopping
        /\ Stopped(a)
        /\ UNCHANGED <<svc, proc, streak>>
     \/ /\ svc[s].running /\ ~ svc[s].stopping
        /\ svc' = [svc EXCEPT ![s].stopping = TRUE]
        /\ Signal(svc[s].pid, "term")
        /\ job' = [job EXCEPT ![a].proc = svc[s].pid]
        /\ Goto(a, "term") /\ UNCHANGED todo
        /\ streak' = [streak EXCEPT ![s] = IF a = Watchdog THEN @ + 1 ELSE @]
  /\ UNCHANGED <<limiterVars, shuttingDown, lastPid, waiter, toRestart, excused, shutAt>>

Stop(a) ==
  /\ Up
  /\ pc[a] = "stop"
  /\ LET s == Target(a) IN
     \/ /\ ~ svc[s].running
        /\ Stopped(a)
        /\ UNCHANGED <<svc, proc, streak>>
     \/ /\ svc[s].running
        /\ svc' = [svc EXCEPT ![s].stopping = TRUE]
        /\ Signal(svc[s].pid, "term")
        /\ job' = [job EXCEPT ![a].proc = svc[s].pid]
        /\ Goto(a, "term") /\ UNCHANGED todo
        /\ streak' = [streak EXCEPT ![s] = IF a = Watchdog THEN @ + 1 ELSE @]
  /\ UNCHANGED <<limiterVars, shuttingDown, lastPid, waiter, toRestart, excused, shutAt>>

ExitSeen(a) ==
  /\ Up
  /\ pc[a] \in {"term", "kill"}
  /\ waiter[job[a].proc] # "wait"
  /\ Stopped(a)
  /\ UNCHANGED <<limiterVars, svc, shuttingDown, children, toRestart, history>>

TermTimeoutOnExit(a) ==
  /\ Up
  /\ pc[a] = "term" /\ proc[job[a].proc].st = "dead"
  /\ Signal(job[a].proc, "kill")
  /\ Goto(a, "kill")
  /\ UNCHANGED <<limiterVars, svc, shuttingDown, lastPid, waiter, job, toRestart, todo, history>>

TermTimeout(a) ==
  /\ Up
  /\ pc[a] = "term"
  /\ Signal(job[a].proc, "kill")
  /\ Goto(a, "kill")
  /\ UNCHANGED <<limiterVars, svc, shuttingDown, lastPid, waiter, job, toRestart, todo, history>>

KillTimeoutForgets(a) ==
  /\ Up
  /\ pc[a] = "kill"
  /\ MaySurviveKill
  /\ Stopped(a)
  /\ svc' = [svc EXCEPT ![Target(a)].running = FALSE]
  /\ excused' = IF waiter[job[a].proc] = "wait" THEN excused \cup {Target(a)} ELSE excused
  /\ UNCHANGED <<limiterVars, shuttingDown, children, toRestart, shutAt, streak>>

KillTimeoutOnExit(a) ==
  /\ Up
  /\ pc[a] = "kill" /\ proc[job[a].proc].st = "dead"
  /\ MaySurviveKill
  /\ Stopped(a)
  /\ UNCHANGED <<limiterVars, svc, shuttingDown, children, toRestart, history>>

KillTimeout(a) ==
  /\ Up
  /\ pc[a] = "kill"
  /\ MaySurviveKill
  /\ Stopped(a)
  /\ excused' = IF waiter[job[a].proc] = "wait" THEN excused \cup {Target(a)} ELSE excused
  /\ UNCHANGED <<limiterVars, svc, shuttingDown, children, toRestart, shutAt, streak>>
-----------------------------------------------------------------------------
(***************************************************************************)
(* The heartbeat monitor (StartHeartbeatMonitor, restartIfNoHeartbeat).    *)
(* One pass lists the silent services under pm.mu; they are then handled   *)
(* one after the other, in the order of a Go map, that is, in any order.   *)
(***************************************************************************)
Silent(s) ==
  /\ svc[s].running /\ ~ svc[s].nhDisabled
  /\ clock - svc[s].lastHeart > HeartbeatTimeout

HeartbeatCheck ==
  /\ Up
  /\ pc[Watchdog] = "idle" /\ toRestart = {}
  /\ pc[Main] # "boot"
  /\ toRestart' = {<<s, svc[s].pid>> : s \in {t \in Service :
                     Silent(t) /\ svc[t].nhCount < MaxNoHeartbeatRestart}}
  /\ svc' = [s \in Service |->
               IF Silent(s) /\ svc[s].nhCount >= MaxNoHeartbeatRestart
                 THEN [svc[s] EXCEPT !.nhDisabled = TRUE] ELSE svc[s]]
  /\ UNCHANGED <<limiterVars, shuttingDown, children, pc, job, todo, history>>

PickSilent ==
  /\ Up
  /\ pc[Watchdog] = "idle"
  /\ \E item \in toRestart :
       /\ toRestart' = toRestart \ {item}
       /\ job' = [job EXCEPT ![Watchdog] =
                    [@ EXCEPT !.svc = item[1], !.pid = item[2], !.attempt = 1]]
  /\ Goto(Watchdog, "attempt")
  /\ UNCHANGED <<limiterVars, svc, shuttingDown, children, todo, history>>

\* The loop ends as soon as the process it set out to restart is gone.
Attempt ==
  /\ Up
  /\ pc[Watchdog] = "attempt"
  /\ LET j == job[Watchdog]
         s == svc[j.svc]
     IN IF s.running /\ s.pid = j.pid /\ ~ s.nhDisabled
          THEN /\ svc' = [svc EXCEPT ![j.svc].nhCount = j.attempt]
               /\ Goto(Watchdog, "allow") /\ UNCHANGED job
          ELSE Finish(Watchdog) /\ UNCHANGED svc
  /\ UNCHANGED <<limiterVars, shuttingDown, children, toRestart, todo, history>>

After ==
  /\ Up
  /\ pc[Watchdog] = "after"
  /\ LET j == job[Watchdog] IN
     \/ /\ svc[j.svc].running
        /\ Finish(Watchdog)
     \/ /\ ~ svc[j.svc].running
        /\ job' = [job EXCEPT ![Watchdog].attempt = @ + 1]
        /\ Goto(Watchdog, IF j.attempt < MaxNoHeartbeatRestart THEN "attempt" ELSE "giveup")
  /\ UNCHANGED <<limiterVars, svc, shuttingDown, children, toRestart, todo, history>>

GiveUp ==
  /\ Up
  /\ pc[Watchdog] = "giveup"
  /\ svc' = [svc EXCEPT ![job[Watchdog].svc].nhDisabled = TRUE]
  /\ Finish(Watchdog)
  /\ UNCHANGED <<limiterVars, shuttingDown, children, toRestart, todo, history>>

(***************************************************************************)
(* main: start every service, serve, and on SIGINT or SIGTERM BeginShutdown *)
(* and StopAll; returning from main ends every goroutine.                  *)
(***************************************************************************)
Boot ==
  /\ pc[Main] = "boot"
  /\ StartService(Head(todo), waiter)
  /\ IF Len(todo) = 1 THEN todo' = Order /\ Goto(Main, "serve")
                          ELSE todo' = Tail(todo) /\ UNCHANGED pc
  /\ UNCHANGED <<limiterVars, shuttingDown, job, toRestart, shutAt, streak>>

BeginShutdown ==
  /\ pc[Main] = "serve"
  /\ shuttingDown' = TRUE
  /\ shutAt' = lastPid
  /\ Goto(Main, "stop")
  /\ UNCHANGED <<limiterVars, svc, children, job, toRestart, todo, excused, streak>>

\* The clock of the limiter is also the one heartbeats are stamped with.
Pass ==
  /\ Up
  /\ Tick
  /\ UNCHANGED <<svc, shuttingDown, children, pc, job, toRestart, todo, history>>
-----------------------------------------------------------------------------
WaiterStep(p) == WaiterReap(p) \/ WaiterAllow(p) \/ WaiterStart(p)

RestartStep(a) ==
  \/ AllowRestart(a) \/ CheckPid(a) \/ Branch(a) \/ StartAgain(a)

StopStep(a) == Stop(a) \/ ExitSeen(a) \/ TermTimeout(a) \/ KillTimeout(a)

WatchdogStep == HeartbeatCheck \/ PickSilent \/ Attempt \/ After \/ GiveUp

Next ==
  \/ \E p \in Pid : ProcessExit(p) \/ WaiterStep(p) \/ Heartbeat(p)
  \/ \E r \in Requester, p \in Pid : Receive(r, p)
  \/ \E r \in Requester : CheckSender(r) \/ RestartDocker(r)
  \/ \E a \in Requester \cup {Watchdog} : RestartStep(a)
  \/ \E a \in Actor : StopStep(a)
  \/ WatchdogStep
  \/ Boot \/ BeginShutdown \/ Pass

Spec == Init /\ [][Next]_vars

(***************************************************************************)
(* The Go scheduler runs every goroutine that can run and timers fire.     *)
(* Nothing is assumed of the children, of requests, of signals or of       *)
(* heartbeats.                                                             *)
(***************************************************************************)
Fairness ==
  /\ \A p \in Pid : WF_vars(WaiterStep(p))
  /\ \A r \in Requester : WF_vars(CheckSender(r) \/ RestartDocker(r) \/ RestartStep(r) \/ StopStep(r))
  /\ WF_vars(RestartStep(Watchdog) \/ StopStep(Watchdog) \/ PickSilent \/ Attempt \/ After \/ GiveUp)
  /\ WF_vars(Boot \/ StopStep(Main))

FairSpec == Spec /\ Fairness
-----------------------------------------------------------------------------
(***************************************************************************)
(* Safety.                                                                 *)
(***************************************************************************)

\* Never two live instances of one service, however exits, restart requests,
\* silent-service restarts and automatic restarts overlap.
OneLiveProcess ==
  \A p, q \in Pid :
    proc[p].st = "alive" /\ proc[q].st = "alive" /\ proc[p].owner = proc[q].owner => p = q

\* Somebody is about to start s: boot, its last child's waiter, or a restart
\* request that has begun to stop it.
Restarting(s) ==
  \/ pc[Main] = "boot" /\ \E i \in DOMAIN todo : todo[i] = s
  \/ \E p \in Pid : proc[p].owner = s /\ waiter[p] \in {"allow", "start"}
  \/ \E a \in Requester \cup {Watchdog} : job[a].svc = s /\ pc[a] \in {"term", "kill", "start"}

\* A service is never lost without a reason: when it is down, somebody is about
\* to start it, or the daemon gave it up where the code does: its restart was
\* refused, the program did not start, a stop of it timed out, or shutdown began.
NoSilentLoss ==
  \A s \in Service : svc[s].running \/ Restarting(s) \/ s \in excused \/ shuttingDown

\* The goroutines that hold a grant they have not used yet.
Holders ==
  Cardinality({p \in Pid : waiter[p] = "start"})
    + Cardinality({a \in Requester \cup {Watchdog} : pc[a] \in RestartPC \ {"allow"}})

\* Every process beyond the first start of each service was paid for with one
\* grant of the limiter: no path restarts outside the restart-storm guard.
LaunchesArePaidFor == lastPid + Holders <= Len(Order) + Cardinality(granted)

\* When main returns, the only children left alive are those that outlived
\* SIGKILL and those launched after BeginShutdown: StopAll misses none that
\* ran when it began, not even one that was being replaced.
StopAllMissesNone ==
  pc[Main] = "exited" =>
    \A p \in Pid : proc[p].st = "alive" => p > shutAt \/ proc[p].sig = "kill"

(***************************************************************************)
(* Liveness, under FairSpec.                                               *)
(***************************************************************************)

\* Once a signal came, main returns, whatever the children and the requests do.
ShutdownCompletes == shuttingDown ~> (pc[Main] = "exited")

\* Every request handler ends: stopService never waits for ever for an exit.
RequestsEnd == \A r \in Requester : (pc[r] # "idle") ~> (pc[r] = "idle" \/ ~ Up)

\* A service that is down comes up again, unless the daemon gave it up.
DownIsRepaired ==
  \A s \in Service :
    ~ svc[s].running ~> (svc[s].running \/ s \in excused \/ shuttingDown)

(***************************************************************************)
(* What comments of the code say and the code does not do.                 *)
(***************************************************************************)

\* No child outlives the daemon (MaySurviveKill = FALSE): the waiter's comment
\* says a wanted exit restarts nothing so that no child remains behind.
NoChildOutlivesDaemon ==
  pc[Main] = "exited" => \A p \in Pid : proc[p].st # "alive"

\* A restart request stops the process it names: the node's daemon client says
\* the daemon checks that service and pid match.
RestartHitsSender ==
  \A a \in Requester \cup {Watchdog} : pc[a] \in {"term", "kill"} => job[a].proc = job[a].pid

\* A service that stays silent is restarted at most MaxNoHeartbeatRestart times.
SilentRestartsBounded == \A s \in Service : streak[s] <= MaxNoHeartbeatRestart
=============================================================================
