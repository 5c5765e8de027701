---------------------------- MODULE DaemonProofs ----------------------------
(***************************************************************************)
(* Proofs about Daemon and the RateLimiter inside it, for any services,    *)
(* any number of concurrent restart requests, and any limits and bounds.   *)
(*                                                                         *)
(* The limiter comes first: it moves by itself.  Everything about the      *)
(* daemon rests on Books: its tables and the kernel's agree.  On top of it *)
(* stand three invariants of their own, each for one promise: StopAllInv   *)
(* (what main has still to stop), LossInv (who is going to start a service *)
(* that is down), and Paid (where the grants went).                        *)
(***************************************************************************)
EXTENDS Daemon, FiniteSetTheorems, SequenceTheorems, TLAPS
-----------------------------------------------------------------------------
(***************************************************************************)
(* The limiter.  Whether a new grant keeps every window within the limit   *)
(* depends on what the code still remembers, so the window property is not *)
(* inductive by itself: Memory says that the grants forgotten so far are   *)
(* older than a window, hence the grants of any window that reaches up to  *)
(* now are among those Allow() counts.                                     *)
(***************************************************************************)
Memory ==
  /\ ExactMemory
  /\ IsFiniteSet(granted)
  /\ \A g \in granted : g.n <= Cardinality(granted) /\ g.at <= clock

LimiterInv == LimiterTypeOK /\ Memory /\ SlidingWindow

\* A fresh ordinal: the grant of this moment is not among the earlier ones.
LEMMA NewGrantIsNew ==
  ASSUME LimiterInv
  PROVE  /\ NewGrant \in Grant
         /\ NewGrant \notin granted
         /\ IsFiniteSet(granted \cup {NewGrant})
         /\ Cardinality(granted) \in Nat
         /\ Cardinality(granted \cup {NewGrant}) = Cardinality(granted) + 1
<1>1. Cardinality(granted) \in Nat
  BY FS_CardinalityType DEF LimiterInv, Memory
<1>2. NewGrant \in Grant
  BY <1>1 DEF NewGrant, Grant, LimiterInv, LimiterTypeOK
<1>3. NewGrant \notin granted
  BY <1>1 DEF NewGrant, LimiterInv, LimiterTypeOK, Memory, Grant
<1>. QED
  BY <1>1, <1>2, <1>3, FS_AddElement DEF LimiterInv, Memory

\* Valid is exactly the grants of the last window, and there are finitely many.
LEMMA ValidIsLastWindow ==
  ASSUME LimiterInv
  PROVE  /\ Valid = {g \in granted : clock - g.at <= Window}
         /\ IsFiniteSet(Valid)
         /\ Cardinality(Valid) \in Nat
<1>1. Valid = {g \in granted : clock - g.at <= Window}
  BY DEF Valid, LimiterInv, Memory, ExactMemory
<1>2. IsFiniteSet(Valid)
  BY <1>1, FS_Subset DEF LimiterInv, Memory
<1>. QED
  BY <1>1, <1>2, FS_CardinalityType

LEMMA WindowIsFinite ==
  ASSUME LimiterInv, NEW t
  PROVE  IsFiniteSet(InWindow(granted, t)) /\ Cardinality(InWindow(granted, t)) \in Nat
BY FS_Subset, FS_CardinalityType DEF InWindow, LimiterInv, Memory

\* The step that matters: a granted restart keeps every window within Limit.
LEMMA AllowedKeepsWindow ==
  ASSUME LimiterInv, Allowed
  PROVE  SlidingWindow'
<1>. USE LimiterAssumption
<1>. SUFFICES ASSUME NEW t \in 0 .. clock
              PROVE  Cardinality(InWindow(granted', t)) <= Limit
  BY DEF SlidingWindow, InWindow, Allowed
<1>1. Cardinality(InWindow(granted, t)) <= Limit
  BY DEF LimiterInv, SlidingWindow
<1>2. CASE clock > t + Window
  <2>1. ~ (NewGrant.at <= t + Window)
    BY <1>2 DEF NewGrant, LimiterInv, LimiterTypeOK
  <2>2. InWindow(granted', t) = InWindow(granted, t)
    BY <2>1 DEF Allowed, InWindow
  <2>. QED  BY <1>1, <2>2
<1>3. CASE clock <= t + Window
  <2>1. InWindow(granted, t) \subseteq Valid
    <3>1. ASSUME NEW g \in granted, t <= g.at
          PROVE  clock - g.at <= Window
      BY <3>1, <1>3 DEF LimiterInv, LimiterTypeOK, Grant
    <3>. QED  BY <3>1, ValidIsLastWindow DEF InWindow
  <2>2. Cardinality(InWindow(granted, t)) <= Cardinality(Valid)
    BY <2>1, ValidIsLastWindow, FS_Subset
  <2>3. Cardinality(InWindow(granted, t)) + 1 <= Limit
    BY <2>2, ValidIsLastWindow, WindowIsFinite DEF Allowed
  <2>4. InWindow(granted', t) = InWindow(granted, t) \cup {NewGrant}
    BY <1>3 DEF Allowed, InWindow, NewGrant, LimiterInv, LimiterTypeOK
  <2>5. NewGrant \notin InWindow(granted, t)
    BY NewGrantIsNew DEF InWindow
  <2>6. Cardinality(InWindow(granted', t)) = Cardinality(InWindow(granted, t)) + 1
    BY <2>4, <2>5, WindowIsFinite, FS_AddElement
  <2>. QED  BY <2>3, <2>6
<1>. QED
  BY <1>2, <1>3 DEF LimiterInv, LimiterTypeOK

LEMMA AllowedStep ==
  ASSUME LimiterInv, Allowed
  PROVE  LimiterInv'
<1>1. LimiterTypeOK'
  BY NewGrantIsNew DEF Allowed, LimiterInv, LimiterTypeOK, Valid
<1>2. ExactMemory'
  BY DEF Allowed, LimiterInv, Memory, ExactMemory, Valid
<1>3. \A g \in granted' : g.n <= Cardinality(granted') /\ g.at <= clock'
  <2>1. NewGrant.n = Cardinality(granted) + 1 /\ NewGrant.at = clock
    BY DEF NewGrant
  <2>2. \A g \in granted : g.n <= Cardinality(granted) + 1 /\ g.at <= clock
    BY NewGrantIsNew DEF LimiterInv, LimiterTypeOK, Memory, Grant
  <2>. QED
    BY <2>1, <2>2, NewGrantIsNew DEF Allowed, LimiterInv, LimiterTypeOK
<1>. QED
  BY <1>1, <1>2, <1>3, NewGrantIsNew, AllowedKeepsWindow DEF LimiterInv, Memory, Allowed

LEMMA DeniedStep ==
  ASSUME LimiterInv, Denied
  PROVE  LimiterInv'
<1>1. LimiterTypeOK'
  BY DEF Denied, LimiterInv, LimiterTypeOK, Valid
<1>2. ExactMemory'
  BY DEF Denied, LimiterInv, Memory, ExactMemory, Valid
<1>. QED
  BY <1>1, <1>2 DEF Denied, LimiterInv, Memory, SlidingWindow, InWindow

LEMMA TickStep ==
  ASSUME LimiterInv, Tick
  PROVE  LimiterInv'
<1>. USE LimiterAssumption
<1>1. LimiterTypeOK'
  BY DEF Tick, LimiterInv, LimiterTypeOK
<1>2. Memory'
  BY DEF Tick, LimiterInv, LimiterTypeOK, Memory, ExactMemory, Grant
<1>3. SlidingWindow'
  <2>. SUFFICES ASSUME NEW t \in 0 .. clock + 1
                PROVE  Cardinality(InWindow(granted, t)) <= Limit
    BY DEF SlidingWindow, InWindow, Tick
  <2>1. CASE t \in 0 .. clock
    BY <2>1 DEF LimiterInv, SlidingWindow
  <2>2. CASE t = clock + 1
    <3>1. InWindow(granted, t) = {}
      BY <2>2 DEF InWindow, LimiterInv, LimiterTypeOK, Memory, Grant
    <3>. QED  BY <3>1, FS_EmptySet
  <2>. QED  BY <2>1, <2>2 DEF LimiterInv, LimiterTypeOK
<1>. QED
  BY <1>1, <1>2, <1>3 DEF LimiterInv

LEMMA LimiterInvInit == LimiterInit => LimiterInv
<1>. SUFFICES ASSUME LimiterInit PROVE LimiterInv
  OBVIOUS
<1>. USE LimiterAssumption DEF LimiterInit
<1>1. LimiterTypeOK /\ Memory
  BY FS_EmptySet DEF LimiterTypeOK, Memory, ExactMemory
<1>2. \A t : InWindow(granted, t) = {}
  BY DEF InWindow
<1>. QED
  BY <1>1, <1>2, FS_EmptySet DEF LimiterInv, SlidingWindow

LEMMA LimiterInvStep == LimiterInv /\ [LimiterNext]_limiterVars => LimiterInv'
<1>1. CASE UNCHANGED limiterVars
  BY <1>1 DEF limiterVars, LimiterInv, LimiterTypeOK, Memory, ExactMemory, SlidingWindow, InWindow
<1>. QED
  BY <1>1, AllowedStep, DeniedStep, TickStep DEF LimiterNext

LEMMA LimiterInvariant == LimiterSpec => []LimiterInv
BY LimiterInvInit, LimiterInvStep, PTL DEF LimiterSpec

\* No stretch of time as long as the window holds more than Limit grants.
THEOREM WindowHolds == LimiterSpec => []SlidingWindow
<1>1. LimiterInv => SlidingWindow  BY DEF LimiterInv
<1>. QED  BY <1>1, LimiterInvariant, PTL

\* The slice holds exactly what a decision needs.
THEOREM MemoryHolds == LimiterSpec => []ExactMemory
<1>1. LimiterInv => ExactMemory  BY DEF LimiterInv, Memory
<1>. QED  BY <1>1, LimiterInvariant, PTL
-----------------------------------------------------------------------------
(***************************************************************************)
(* Books.                                                                  *)
(***************************************************************************)

\* The daemon's books match the kernel's: a child that has not been reaped is
\* the one recorded for its service, and a service recorded as running has one.
Supervised ==
  /\ \A p \in Pid : p > lastPid => proc[p].st = "unborn" /\ waiter[p] = "none"
  /\ \A p \in Pid : proc[p].st = "alive" => waiter[p] = "wait"
  /\ \A p \in Pid : waiter[p] = "wait" =>
        svc[proc[p].owner].running /\ svc[proc[p].owner].pid = p
  /\ \A s \in Service : svc[s].running =>
        /\ svc[s].pid \in Pid
        /\ waiter[svc[s].pid] = "wait"
        /\ proc[svc[s].pid].owner = s

\* main always has a service to start or stop, as long as it runs.
HasWork == Up => Len(todo) > 0

\* The conjuncts of TypeOK that the daemon's own steps can disturb.
SvcOK == svc \in [Service -> ServiceInfo]
ShutOK == shuttingDown \in BOOLEAN
ProcOK == proc \in [Pid -> Process]
LastPidOK == lastPid \in 0 .. MaxPid
WaiterOK == waiter \in [Pid -> WaiterLabel]
PcOK == pc \in [Actor -> Label]
JobOK == job \in [Actor -> Job]
ToRestartOK == toRestart \in SUBSET (Service \X Pid)
TodoOK == todo \in Seq(Service)
ExcusedOK == excused \in SUBSET Service
ShutAtOK == shutAt \in 0 .. MaxPid
StreakOK == streak \in [Service -> Nat]

DaemonTypeOK ==
  /\ SvcOK /\ ShutOK /\ ProcOK /\ LastPidOK /\ WaiterOK /\ PcOK /\ JobOK
  /\ ToRestartOK /\ TodoOK /\ ExcusedOK /\ ShutAtOK /\ StreakOK

DaemonBooks == DaemonTypeOK /\ Supervised /\ HasWork

Books == LimiterInv /\ TypeOK /\ Supervised /\ HasWork
-----------------------------------------------------------------------------
(***************************************************************************)
(* Every step of the daemon is a step of its rate limiter or leaves it     *)
(* alone, so what is proved of the limiter holds inside the daemon.        *)
(***************************************************************************)
LEMMA StepIsLimiterStep == [Next]_vars => [LimiterNext]_limiterVars
<1>. USE DEF limiterVars
<1>1. CASE UNCHANGED vars
  BY <1>1 DEF vars
<1>2. ASSUME NEW p \in Pid, ProcessExit(p) \/ WaiterStep(p) \/ Heartbeat(p)
      PROVE  [LimiterNext]_limiterVars
  BY <1>2 DEF ProcessExit, WaiterStep, WaiterReap, WaiterAllow, WaiterStart, Heartbeat, LimiterNext
<1>3. ASSUME NEW r \in Requester,
             (\E p \in Pid : Receive(r, p)) \/ CheckSender(r) \/ RestartDocker(r)
      PROVE  [LimiterNext]_limiterVars
  BY <1>3 DEF Receive, CheckSender, RestartDocker, LimiterNext
<1>4. ASSUME NEW a, RestartStep(a) \/ StopStep(a)
      PROVE  [LimiterNext]_limiterVars
  BY <1>4 DEF RestartStep, AllowRestart, CheckPid, Branch, StartAgain,
              StopStep, Stop, ExitSeen, TermTimeout, KillTimeout, LimiterNext
<1>5. CASE WatchdogStep
  BY <1>5 DEF WatchdogStep, HeartbeatCheck, PickSilent, Attempt, After, GiveUp
<1>6. CASE Boot \/ BeginShutdown \/ Pass
  BY <1>6 DEF Boot, BeginShutdown, Pass, LimiterNext
<1>. QED
  BY <1>1, <1>2, <1>3, <1>4, <1>5, <1>6 DEF Next

\* The daemon with all its goroutines implements the rate limiter on its own.
THEOREM DaemonImplementsLimiter == Spec => LimiterSpec
<1>1. Init => LimiterInit
  BY DEF Init
<1>. QED
  BY <1>1, StepIsLimiterStep, PTL DEF Spec, LimiterSpec

\* So no restart path of the daemon gets round the restart-storm guard.
THEOREM DaemonKeepsWindow == Spec => []SlidingWindow
BY DaemonImplementsLimiter, WindowHolds, PTL
-----------------------------------------------------------------------------
(***************************************************************************)
(* Books is inductive: type correctness needs Supervised, because the      *)
(* heartbeat monitor lists the pid of every running service, and HasWork,  *)
(* because main takes the head of its list.                                *)
(***************************************************************************)
LEMMA BooksInit == Init => Books
<1>1. Order[1] \in Service
  BY DaemonAssumption, ElementOfSeq DEF DaemonAssumption
<1>. SUFFICES ASSUME Init PROVE Books
  OBVIOUS
<1>. USE DaemonAssumption, LimiterAssumption DEF Init, DaemonAssumption, LimiterAssumption
<1>2. TypeOK
  <2>1. LimiterTypeOK
    BY DEF LimiterInit, LimiterTypeOK
  <2>2. svc \in [Service -> ServiceInfo]
    BY DEF ServiceInfo, NoPid
  <2>3. proc \in [Pid -> Process] /\ waiter \in [Pid -> WaiterLabel]
    BY <1>1 DEF Process, WaiterLabel
  <2>4. job \in [Actor -> Job]
    BY <1>1 DEF Job, NoJob, NoPid
  <2>5. pc \in [Actor -> Label]
    BY DEF Label
  <2>6. lastPid \in 0 .. MaxPid /\ shutAt \in 0 .. MaxPid
    OBVIOUS
  <2>9. shuttingDown \in BOOLEAN
    OBVIOUS
  <2>7. toRestart \in SUBSET (Service \X Pid) /\ todo \in Seq(Service) /\ excused \in SUBSET Service
    OBVIOUS
  <2>8. streak \in [Service -> Nat]
    OBVIOUS
  <2>. QED
    BY <2>1, <2>2, <2>3, <2>4, <2>5, <2>6, <2>7, <2>8, <2>9 DEF TypeOK
<1>3. Supervised
  BY DEF Supervised
<1>4. HasWork
  BY DEF HasWork
<1>. QED  BY <1>2, <1>3, <1>4, LimiterInvInit DEF Books

LEMMA TypeOKSplit == TypeOK <=> LimiterTypeOK /\ DaemonTypeOK
BY Zenon DEF TypeOK, DaemonTypeOK, SvcOK, ShutOK, ProcOK, LastPidOK, WaiterOK, PcOK, JobOK,
   ToRestartOK, TodoOK, ExcusedOK, ShutAtOK, StreakOK

\* What is not touched stays well typed.
LEMMA TypeFrame ==
  ASSUME TypeOK
  PROVE  /\ svc' = svc => SvcOK'
         /\ shuttingDown' = shuttingDown => ShutOK'
         /\ proc' = proc => ProcOK'
         /\ lastPid' = lastPid => LastPidOK'
         /\ waiter' = waiter => WaiterOK'
         /\ pc' = pc => PcOK'
         /\ job' = job => JobOK'
         /\ toRestart' = toRestart => ToRestartOK'
         /\ todo' = todo => TodoOK'
         /\ excused' = excused => ExcusedOK'
         /\ shutAt' = shutAt => ShutAtOK'
         /\ streak' = streak => StreakOK'
<1>. USE DEF TypeOK
<1>1. svc' = svc => SvcOK'                       BY DEF SvcOK
<1>2. shuttingDown' = shuttingDown => ShutOK'    BY DEF ShutOK
<1>3. proc' = proc => ProcOK'                    BY DEF ProcOK
<1>4. lastPid' = lastPid => LastPidOK'           BY DEF LastPidOK
<1>5. waiter' = waiter => WaiterOK'              BY DEF WaiterOK
<1>6. pc' = pc => PcOK'                          BY DEF PcOK
<1>7. job' = job => JobOK'                       BY DEF JobOK
<1>8. toRestart' = toRestart => ToRestartOK'     BY DEF ToRestartOK
<1>9. todo' = todo => TodoOK'                    BY DEF TodoOK
<1>10. excused' = excused => ExcusedOK'          BY DEF ExcusedOK
<1>11. shutAt' = shutAt => ShutAtOK'             BY DEF ShutAtOK
<1>12. streak' = streak => StreakOK'             BY DEF StreakOK
<1>. QED
  BY <1>1, <1>2, <1>3, <1>4, <1>5, <1>6, <1>7, <1>8, <1>9, <1>10, <1>11, <1>12

\* A step that starts and reaps nobody leaves the books in order.
SameBooks ==
  /\ lastPid' = lastPid
  /\ \A s \in Service : svc'[s].running = svc[s].running /\ svc'[s].pid = svc[s].pid
  /\ \A p \in Pid :
       /\ proc'[p].owner = proc[p].owner
       /\ proc'[p].st = "alive" => proc[p].st = "alive"
       /\ proc'[p].st = "unborn" <=> proc[p].st = "unborn"
       /\ waiter'[p] = "wait" <=> waiter[p] = "wait"
       /\ waiter'[p] = "none" <=> waiter[p] = "none"

LEMMA SameBooksSupervised ==
  ASSUME TypeOK, Supervised, SameBooks
  PROVE  Supervised'
<1>1. \A p \in Pid : proc[p].owner \in Service
  BY DEF TypeOK, Process
<1>2. (\A p \in Pid : p > lastPid => proc[p].st = "unborn" /\ waiter[p] = "none")'
  BY DEF Supervised, SameBooks
<1>3. (\A p \in Pid : proc[p].st = "alive" => waiter[p] = "wait")'
  BY DEF Supervised, SameBooks
<1>4. (\A p \in Pid : waiter[p] = "wait" =>
         svc[proc[p].owner].running /\ svc[proc[p].owner].pid = p)'
  BY <1>1 DEF Supervised, SameBooks
<1>5. (\A s \in Service : svc[s].running =>
         svc[s].pid \in Pid /\ waiter[svc[s].pid] = "wait" /\ proc[svc[s].pid].owner = s)'
  BY DEF Supervised, SameBooks
<1>. QED
  BY <1>2, <1>3, <1>4, <1>5 DEF Supervised

\* So does main's list, when main does not move.
LEMMA SameWork ==
  ASSUME HasWork, todo' = todo, pc'[Main] = pc[Main]
  PROVE  HasWork'
BY DEF HasWork, Up

\* What the model's moves do to the program counters.
LEMMA GotoStep ==
  ASSUME TypeOK, NEW a \in Actor, NEW l \in Label, Goto(a, l)
  PROVE  PcOK' /\ pc'[a] = l /\ \A b \in Actor \ {a} : pc'[b] = pc[b]
BY DEF TypeOK, PcOK, Goto

LEMMA FirstService == Order[1] \in Service
BY DaemonAssumption, ElementOfSeq DEF DaemonAssumption

LEMMA FinishStep ==
  ASSUME TypeOK, NEW a \in Actor, Finish(a)
  PROVE  PcOK' /\ JobOK' /\ pc'[a] = "idle" /\ \A b \in Actor \ {a} : pc'[b] = pc[b]
<1>1. NoJob \in Job
  BY FirstService DEF NoJob, Job, NoPid
<1>2. job \in [Actor -> Job] /\ job' = [job EXCEPT ![a] = NoJob]
  BY DEF TypeOK, Finish
<1>3. JobOK'
  BY <1>1, <1>2 DEF JobOK
<1>4. "idle" \in Label
  BY DEF Label
<1>. QED  BY <1>3, <1>4, GotoStep DEF Finish

LEMMA Workers == \A a \in Requester \cup {Watchdog} : a \in Actor /\ a # Main
BY DaemonAssumption DEF DaemonAssumption, Actor

LEMMA ReturnStep ==
  ASSUME TypeOK, NEW a \in Requester \cup {Watchdog}, Return(a)
  PROVE  PcOK' /\ JobOK' /\ pc'[Main] = pc[Main]
<1>0. a \in Actor /\ a # Main /\ Main \in Actor
  BY Workers DEF Actor
<1>1. CASE a = Watchdog
  <2>1. "after" \in Label
    BY DEF Label
  <2>2. Goto(a, "after") /\ job' = job
    BY <1>1 DEF Return
  <2>. QED  BY <1>0, <2>1, <2>2, GotoStep, TypeFrame
<1>2. CASE a # Watchdog
  BY <1>0, <1>2, FinishStep DEF Return
<1>. QED  BY <1>1, <1>2
-----------------------------------------------------------------------------
(***************************************************************************)
(* One lemma per action: it keeps the books.                               *)
(***************************************************************************)
LEMMA ProcessExitStep ==
  ASSUME Books, NEW p \in Pid, ProcessExit(p)
  PROVE  DaemonBooks'
<1>1. proc \in [Pid -> Process]
  BY DEF Books, TypeOK
<1>2. proc' = [proc EXCEPT ![p].st = "dead", ![p].sig = "none"] /\ proc[p].st = "alive"
  BY DEF ProcessExit
<1>3. ProcOK'
  BY <1>1, <1>2 DEF ProcOK, Process
<1>4. SameBooks
  BY <1>1, <1>2 DEF ProcessExit, SameBooks, Process
<1>. QED
  BY <1>3, <1>4, SameBooksSupervised, TypeFrame, SameWork
     DEF Books, DaemonBooks, DaemonTypeOK, ProcessExit, limiterVars, history

LEMMA WaiterReapStep ==
  ASSUME Books, NEW p \in Pid, WaiterReap(p)
  PROVE  DaemonBooks'
<1>. DEFINE s == proc[p].owner
<1>1. svc \in [Service -> ServiceInfo] /\ proc \in [Pid -> Process] /\ s \in Service
  BY DEF Books, TypeOK, Process
<1>2. svc' = [svc EXCEPT ![s].running = FALSE, ![s].pid = NoPid]
  BY DEF WaiterReap
<1>3. SvcOK'
  BY <1>1, <1>2 DEF SvcOK, ServiceInfo, NoPid
<1>4. WaiterOK'
  BY DEF WaiterOK, WaiterReap, Books, TypeOK, WaiterLabel
<1>5. /\ waiter[p] = "wait" /\ proc[p].st = "dead" /\ proc' = proc /\ lastPid' = lastPid
      /\ waiter'[p] \in {"done", "allow"}
      /\ \A q \in Pid \ {p} : waiter'[q] = waiter[q]
  <2>. waiter \in [Pid -> WaiterLabel]
    BY DEF Books, TypeOK
  <2>. QED  BY DEF WaiterReap
<1>6. svc[s].running /\ svc[s].pid = p
  BY <1>5 DEF Books, Supervised
<1>7. /\ ~ svc'[s].running
      /\ \A t \in Service \ {s} : svc'[t] = svc[t]
  BY <1>1, <1>2 DEF ServiceInfo
<1>8. Supervised'
  <2>1. (\A q \in Pid : q > lastPid => proc[q].st = "unborn" /\ waiter[q] = "none")'
    BY <1>5 DEF Books, Supervised
  <2>2. (\A q \in Pid : proc[q].st = "alive" => waiter[q] = "wait")'
    BY <1>5 DEF Books, Supervised
  <2>3. ASSUME NEW q \in Pid, waiter'[q] = "wait"
        PROVE  svc'[proc'[q].owner].running /\ svc'[proc'[q].owner].pid = q
    <3>1. q # p /\ waiter[q] = "wait"
      BY <1>5, <2>3
    <3>2. svc[proc[q].owner].pid = q /\ svc[proc[q].owner].running /\ proc[q].owner \in Service
      BY <1>1, <3>1 DEF Books, Supervised, Process
    <3>3. proc[q].owner # s
      BY <1>6, <3>1, <3>2
    <3>. QED  BY <1>5, <1>7, <3>2, <3>3
  <2>4. ASSUME NEW t \in Service, svc'[t].running
        PROVE  svc'[t].pid \in Pid /\ waiter'[svc'[t].pid] = "wait" /\ proc'[svc'[t].pid].owner = t
    <3>1. t # s /\ svc'[t] = svc[t]
      BY <1>7, <2>4
    <3>2. svc[t].pid \in Pid /\ waiter[svc[t].pid] = "wait" /\ proc[svc[t].pid].owner = t
      BY <2>4, <3>1 DEF Books, Supervised
    <3>. QED  BY <1>5, <3>1, <3>2
  <2>. QED  BY <2>1, <2>2, <2>3, <2>4 DEF Supervised
<1>. QED
  BY <1>3, <1>4, <1>8, TypeFrame, SameWork
     DEF Books, DaemonBooks, DaemonTypeOK, WaiterReap, history

LEMMA WaiterAllowStep ==
  ASSUME Books, NEW p \in Pid, WaiterAllow(p)
  PROVE  DaemonBooks'
<1>1. waiter \in [Pid -> WaiterLabel] /\ proc \in [Pid -> Process] /\ excused \in SUBSET Service
  BY DEF Books, TypeOK
<1>2. PICK l \in {"start", "done"} : waiter' = [waiter EXCEPT ![p] = l]
  BY DEF WaiterAllow
<1>3. WaiterOK'
  BY <1>1, <1>2 DEF WaiterOK, WaiterLabel
<1>4. ExcusedOK'
  BY <1>1 DEF WaiterAllow, ExcusedOK, Process
<1>5. waiter[p] = "allow"
  BY DEF WaiterAllow
<1>6. SameBooks
  BY <1>1, <1>2, <1>5 DEF WaiterAllow, SameBooks
<1>. QED
  BY <1>3, <1>4, <1>6, SameBooksSupervised, TypeFrame, SameWork
     DEF Books, DaemonBooks, DaemonTypeOK, WaiterAllow

LEMMA HeartbeatStep ==
  ASSUME Books, NEW p \in Pid, Heartbeat(p)
  PROVE  DaemonBooks'
<1>1. svc \in [Service -> ServiceInfo] /\ streak \in [Service -> Nat] /\ clock \in Nat
  BY DEF Books, TypeOK, LimiterTypeOK
<1>2. PICK s \in Service :
        /\ svc' = [svc EXCEPT ![s].lastHeart = clock, ![s].nhCount = 0, ![s].nhDisabled = FALSE]
        /\ streak' = [streak EXCEPT ![s] = 0]
  BY DEF Heartbeat
<1>3. SvcOK'
  <2>. DEFINE new == [svc[s] EXCEPT !.lastHeart = clock, !.nhCount = 0, !.nhDisabled = FALSE]
  <2>1. svc' = [svc EXCEPT ![s] = new]
    BY <1>1, <1>2
  <2>2. new \in ServiceInfo
    <3>1. svc[s] \in ServiceInfo
      BY <1>1
    <3>. QED  BY <1>1, <3>1 DEF ServiceInfo
  <2>. HIDE DEF new
  <2>. QED  BY <1>1, <2>1, <2>2 DEF SvcOK
<1>4. StreakOK'
  BY <1>1, <1>2 DEF StreakOK
<1>5. SameBooks
  BY <1>1, <1>2 DEF Heartbeat, SameBooks, ServiceInfo, children
<1>. QED
  BY <1>3, <1>4, <1>5, SameBooksSupervised, TypeFrame, SameWork
     DEF Books, DaemonBooks, DaemonTypeOK, Heartbeat, children

\* Steps that move actors only.
MovesOnly ==
  /\ UNCHANGED <<svc, shuttingDown, children, toRestart, todo, history>>
  /\ PcOK' /\ JobOK' /\ pc'[Main] = pc[Main]

LEMMA MovesOnlyStep ==
  ASSUME Books, MovesOnly
  PROVE  DaemonBooks'
<1>1. SameBooks
  BY DEF MovesOnly, SameBooks, children
<1>. QED
  BY <1>1, SameBooksSupervised, TypeFrame, SameWork
     DEF Books, DaemonBooks, DaemonTypeOK, MovesOnly, children, history

LEMMA RequestStep ==
  ASSUME Books, NEW r \in Requester,
         (\E p \in Pid : Receive(r, p)) \/ CheckSender(r) \/ RestartDocker(r)
  PROVE  DaemonBooks'
<1>1. r \in Actor /\ r # Main /\ Main \in Actor /\ TypeOK
  BY Workers DEF Actor, Books
<1>2. ASSUME NEW p \in Pid, Receive(r, p) PROVE MovesOnly
  <2>1. job' = [job EXCEPT ![r].svc = proc[p].owner, ![r].pid = p]
    BY <1>2 DEF Receive
  <2>2. job \in [Actor -> Job] /\ proc[p].owner \in Service
    BY <1>1 DEF TypeOK, Process
  <2>3. JobOK'
    BY <1>1, <2>1, <2>2 DEF JobOK, Job
  <2>4. PICK l \in {"allow", "sender"} : Goto(r, l)
    BY <1>2 DEF Receive
  <2>5. l \in Label
    BY DEF Label, RestartPC
  <2>. QED  BY <1>1, <1>2, <2>3, <2>4, <2>5, GotoStep DEF Receive, MovesOnly
<1>3. CASE CheckSender(r)
  <2>1. "docker" \in Label
    BY DEF Label
  <2>2. CASE Goto(r, "docker") /\ UNCHANGED job
    BY <1>1, <1>3, <2>1, <2>2, GotoStep, TypeFrame, MovesOnlyStep DEF CheckSender, MovesOnly
  <2>3. CASE Finish(r)
    BY <1>1, <1>3, <2>3, FinishStep, MovesOnlyStep DEF CheckSender, MovesOnly
  <2>. QED  BY <1>3, <2>2, <2>3 DEF CheckSender
<1>4. CASE RestartDocker(r)
  BY <1>1, <1>4, FinishStep, MovesOnlyStep DEF RestartDocker, MovesOnly
<1>. QED  BY <1>2, <1>3, <1>4, MovesOnlyStep

LEMMA RestartRequestStep ==
  ASSUME Books, NEW a \in Requester \cup {Watchdog},
         AllowRestart(a) \/ CheckPid(a) \/ Branch(a)
  PROVE  DaemonBooks'
<1>1. a \in Actor /\ a # Main /\ Main \in Actor /\ TypeOK
  BY Workers DEF Actor, Books
<1>2. ASSUME NEW l \in RestartPC, Goto(a, l), job' = job
      PROVE  PcOK' /\ JobOK' /\ pc'[Main] = pc[Main]
  BY <1>1, <1>2, GotoStep, TypeFrame DEF Label
<1>3. {"check", "branch", "stop", "start"} \subseteq RestartPC
  BY DEF RestartPC
<1>4. CASE AllowRestart(a)
  BY <1>1, <1>2, <1>3, <1>4, ReturnStep, MovesOnlyStep DEF AllowRestart, MovesOnly
<1>5. CASE CheckPid(a)
  BY <1>1, <1>2, <1>3, <1>5, ReturnStep, MovesOnlyStep DEF CheckPid, MovesOnly
<1>6. CASE Branch(a)
  BY <1>1, <1>2, <1>3, <1>6, MovesOnlyStep DEF Branch, MovesOnly
<1>. QED  BY <1>4, <1>5, <1>6

LEMMA WatchdogMoves ==
  ASSUME Books, PickSilent \/ After
  PROVE  DaemonBooks'
<1>1. Watchdog \in Actor /\ Watchdog # Main /\ Main \in Actor /\ TypeOK
  BY Workers DEF Actor, Books
<1>2. job \in [Actor -> Job] /\ toRestart \subseteq Service \X Pid
  BY <1>1 DEF TypeOK
<1>3. CASE PickSilent
  <2>1. PICK item \in toRestart :
          /\ toRestart' = toRestart \ {item}
          /\ job' = [job EXCEPT ![Watchdog] =
                      [@ EXCEPT !.svc = item[1], !.pid = item[2], !.attempt = 1]]
    BY <1>3 DEF PickSilent
  <2>2. item[1] \in Service /\ item[2] \in Pid
    BY <1>2
  <2>3. JobOK'
    BY <1>1, <1>2, <2>1, <2>2 DEF JobOK, Job
  <2>4. ToRestartOK'
    BY <1>2, <2>1 DEF ToRestartOK
  <2>5. "attempt" \in Label /\ Goto(Watchdog, "attempt")
    BY <1>3 DEF Label, PickSilent
  <2>6. PcOK' /\ pc'[Main] = pc[Main]
    BY <1>1, <2>5, GotoStep
  <2>7. SameBooks
    BY <1>3 DEF PickSilent, SameBooks, children
  <2>. QED
    BY <1>3, <2>3, <2>4, <2>6, <2>7, SameBooksSupervised, TypeFrame, SameWork
       DEF Books, DaemonBooks, DaemonTypeOK, PickSilent, children, history
<1>4. CASE After
  <2>1. CASE Finish(Watchdog)
    BY <1>1, <1>4, <2>1, FinishStep, MovesOnlyStep DEF After, MovesOnly
  <2>2. CASE ~ Finish(Watchdog)
    <3>1. job' = [job EXCEPT ![Watchdog].attempt = @ + 1]
      BY <1>4, <2>2 DEF After
    <3>2. JobOK'
      BY <1>1, <1>2, <3>1 DEF JobOK, Job
    <3>3. PICK l \in {"attempt", "giveup"} : Goto(Watchdog, l)
      BY <1>4, <2>2 DEF After
    <3>4. l \in Label
      BY DEF Label
    <3>. QED
      BY <1>1, <1>4, <3>2, <3>3, <3>4, GotoStep, MovesOnlyStep DEF After, MovesOnly
  <2>. QED  BY <2>1, <2>2
<1>. QED  BY <1>3, <1>4

\* The monitor's notes about a service are not part of the books.
LEMMA NotesStep ==
  ASSUME Books, HeartbeatCheck \/ Attempt \/ GiveUp
  PROVE  DaemonBooks'
<1>1. Watchdog \in Actor /\ Watchdog # Main /\ Main \in Actor /\ TypeOK
  BY Workers DEF Actor, Books
<1>2. /\ svc \in [Service -> ServiceInfo] /\ job \in [Actor -> Job]
      /\ job[Watchdog].svc \in Service /\ job[Watchdog].attempt \in Nat
  BY <1>1 DEF TypeOK, Job
<1>3. CASE HeartbeatCheck
  <2>1. svc' = [s \in Service |->
                 IF Silent(s) /\ svc[s].nhCount >= MaxNoHeartbeatRestart
                   THEN [svc[s] EXCEPT !.nhDisabled = TRUE] ELSE svc[s]]
    BY <1>3 DEF HeartbeatCheck
  <2>2. ASSUME NEW s \in Service
        PROVE  /\ svc'[s] \in ServiceInfo
               /\ svc'[s].running = svc[s].running /\ svc'[s].pid = svc[s].pid
    <3>1. svc[s] \in ServiceInfo
      BY <1>2
    <3>2. svc'[s] \in {svc[s], [svc[s] EXCEPT !.nhDisabled = TRUE]}
      BY <2>1
    <3>. QED  BY <3>1, <3>2 DEF ServiceInfo
  <2>3. SvcOK'
    BY <2>1, <2>2 DEF SvcOK
  <2>4. ToRestartOK'
    <3>1. \A s \in Service : Silent(s) => svc[s].pid \in Pid
      BY DEF Silent, Books, Supervised
    <3>2. toRestart' = {<<s, svc[s].pid>> : s \in {t \in Service :
                          Silent(t) /\ svc[t].nhCount < MaxNoHeartbeatRestart}}
      BY <1>3 DEF HeartbeatCheck
    <3>. QED  BY <3>1, <3>2 DEF ToRestartOK
  <2>5. SameBooks
    BY <1>3, <2>2 DEF HeartbeatCheck, SameBooks, children
  <2>. QED
    BY <1>3, <2>3, <2>4, <2>5, SameBooksSupervised, TypeFrame, SameWork
       DEF Books, DaemonBooks, DaemonTypeOK, HeartbeatCheck, children, history
<1>4. CASE Attempt \/ GiveUp
  <2>1. \/ svc' = svc
        \/ svc' = [svc EXCEPT ![job[Watchdog].svc].nhCount = job[Watchdog].attempt]
        \/ svc' = [svc EXCEPT ![job[Watchdog].svc].nhDisabled = TRUE]
    BY <1>4 DEF Attempt, GiveUp
  <2>2. SvcOK'
    <3>1. ASSUME NEW s \in Service, NEW n \in Nat, svc' = [svc EXCEPT ![s].nhCount = n]
          PROVE  SvcOK'
      BY <1>2, <3>1 DEF SvcOK, ServiceInfo
    <3>2. ASSUME NEW s \in Service, svc' = [svc EXCEPT ![s].nhDisabled = TRUE]
          PROVE  SvcOK'
      BY <1>2, <3>2 DEF SvcOK, ServiceInfo
    <3>. QED  BY <1>1, <1>2, <2>1, <3>1, <3>2, TypeFrame
  <2>3. \A s \in Service : svc'[s].running = svc[s].running /\ svc'[s].pid = svc[s].pid
    BY <1>2, <2>1 DEF ServiceInfo
  <2>4. SameBooks
    BY <1>4, <2>3 DEF Attempt, GiveUp, SameBooks, children
  <2>5. Finish(Watchdog) \/ (Goto(Watchdog, "allow") /\ job' = job)
    <3>1. CASE Attempt  BY <3>1 DEF Attempt
    <3>2. CASE GiveUp   BY <3>2 DEF GiveUp
    <3>. QED  BY <1>4, <3>1, <3>2
  <2>6. "allow" \in Label
    BY DEF Label, RestartPC
  <2>7. PcOK' /\ JobOK' /\ pc'[Main] = pc[Main]
    BY <1>1, <2>5, <2>6, FinishStep, GotoStep, TypeFrame
  <2>. QED
    BY <1>4, <2>2, <2>4, <2>7, SameBooksSupervised, TypeFrame, SameWork
       DEF Books, DaemonBooks, DaemonTypeOK, Attempt, GiveUp, children, history
<1>. QED  BY <1>3, <1>4

LEMMA TargetIsService ==
  ASSUME Books, Up, NEW a \in Actor
  PROVE  Target(a) \in Service
<1>1. todo \in Seq(Service) /\ todo # << >> /\ job[a].svc \in Service
  BY EmptySeq DEF Books, TypeOK, HasWork, Job
<1>. QED  BY <1>1, HeadTailProperties DEF Target

\* The end of stopService, for both of its callers.
LEMMA StoppedStep ==
  ASSUME Books, Up, NEW a \in Actor, Stopped(a)
  PROVE  PcOK' /\ JobOK' /\ TodoOK' /\ HasWork'
<1>1. Main \in Actor /\ TypeOK
  BY DEF Actor, Books
<1>2. job \in [Actor -> Job] /\ job' = [job EXCEPT ![a].proc = NoPid]
  BY <1>1 DEF TypeOK, Stopped
<1>3. JobOK'
  BY <1>2 DEF JobOK, Job
<1>4. todo \in Seq(Service) /\ Len(todo) > 0
  BY <1>1 DEF Books, TypeOK, HasWork
<1>5. {"exited", "stop", "start"} \subseteq Label
  BY DEF Label, RestartPC
<1>6. CASE a = Main
  <2>1. todo' = Tail(todo)
    BY <1>6 DEF Stopped
  <2>2. Tail(todo) \in Seq(Service) /\ Len(Tail(todo)) = Len(todo) - 1
    BY <1>4, HeadTailProperties, EmptySeq
  <2>3. Goto(Main, IF Len(todo) = 1 THEN "exited" ELSE "stop")
    BY <1>6 DEF Stopped
  <2>4. PcOK' /\ (Len(todo) = 1 => pc'[Main] = "exited")
    BY <1>1, <1>5, <2>3, GotoStep
  <2>5. HasWork'
    <3>1. Len(todo) \in Nat
      BY <1>4, LenProperties
    <3>. QED  BY <1>4, <2>1, <2>2, <2>4, <3>1 DEF HasWork, Up
  <2>. QED  BY <1>3, <2>1, <2>2, <2>4, <2>5 DEF TodoOK
<1>7. CASE a # Main
  <2>1. Goto(a, "start") /\ todo' = todo
    BY <1>7 DEF Stopped
  <2>2. PcOK' /\ pc'[Main] = pc[Main]
    BY <1>1, <1>5, <1>7, <2>1, GotoStep
  <2>. QED  BY <1>1, <1>3, <2>1, <2>2, TypeFrame, SameWork DEF Books
<1>. QED  BY <1>6, <1>7

LEMMA SignalStep ==
  ASSUME TypeOK, NEW p, NEW sig \in {"term", "kill"}, Signal(p, sig)
  PROVE  /\ ProcOK'
         /\ \A q \in Pid : proc'[q].owner = proc[q].owner /\ proc'[q].st = proc[q].st
<1>1. proc \in [Pid -> Process]
  BY DEF TypeOK
<1>2. PICK x \in {"none", "term", "kill"} : proc' = [proc EXCEPT ![p].sig = x] \/ proc' = proc
  <2>1. CASE p \notin Pid
    BY <1>1, <2>1 DEF Signal
  <2>2. CASE p \in Pid
    BY <1>1, <2>2 DEF Signal, Process
  <2>. QED  BY <2>1, <2>2
<1>. QED  BY <1>1, <1>2 DEF ProcOK, Process

LEMMA StopStepKeepsBooks ==
  ASSUME Books, NEW a \in Actor, StopStep(a)
  PROVE  DaemonBooks'
<1>. DEFINE s == Target(a)
<1>1. Up /\ TypeOK /\ Main \in Actor
  BY DEF StopStep, Stop, ExitSeen, TermTimeout, KillTimeout, Books, Actor
<1>2. s \in Service
  BY <1>1, TargetIsService
<1>3. ASSUME Stopped(a), lastPid' = lastPid, svc' = svc, proc' = proc, waiter' = waiter,
             toRestart' = toRestart, shuttingDown' = shuttingDown, shutAt' = shutAt,
             streak' = streak, ExcusedOK'
      PROVE  DaemonBooks'
  <2>1. SameBooks
    BY <1>3 DEF SameBooks
  <2>. QED
    BY <1>1, <1>3, <2>1, StoppedStep, SameBooksSupervised, TypeFrame
       DEF Books, DaemonBooks, DaemonTypeOK
<1>4. CASE ExitSeen(a)
  BY <1>1, <1>3, <1>4, TypeFrame DEF ExitSeen, children, history
<1>5. CASE KillTimeout(a)
  <2>1. ExcusedOK'
    BY <1>1, <1>2, <1>5 DEF KillTimeout, ExcusedOK, TypeOK
  <2>. QED  BY <1>3, <1>5, <2>1 DEF KillTimeout, children
<1>6. ASSUME NEW p, NEW sig \in {"term", "kill"}, Signal(p, sig), Goto(a, sig), todo' = todo,
             a = Main => pc[Main] # "exited",
             lastPid' = lastPid, waiter' = waiter, SvcOK', JobOK',
             \A t \in Service : svc'[t].running = svc[t].running /\ svc'[t].pid = svc[t].pid,
             toRestart' = toRestart, shuttingDown' = shuttingDown,
             excused' = excused, shutAt' = shutAt, StreakOK'
      PROVE  DaemonBooks'
  <2>1. sig \in Label
    BY DEF Label, RestartPC
  <2>2. PcOK'
    BY <1>1, <1>6, <2>1, GotoStep
  <2>3. HasWork'
    BY <1>1, <1>6 DEF HasWork, Up, Books
  <2>4. ProcOK' /\ SameBooks
    BY <1>1, <1>6, SignalStep DEF SameBooks
  <2>. QED
    BY <1>1, <1>6, <2>2, <2>3, <2>4, SameBooksSupervised, TypeFrame
       DEF Books, DaemonBooks, DaemonTypeOK
<1>7. CASE TermTimeout(a)
  <2>1. Signal(job[a].proc, "kill") /\ Goto(a, "kill")
    BY <1>7 DEF TermTimeout
  <2>. QED
    BY <1>1, <1>6, <1>7, <2>1, TypeFrame DEF TermTimeout, Up, history
<1>8. CASE Stop(a)
  <2>1. CASE ~ svc[s].running
    BY <1>1, <1>3, <1>8, <2>1, TypeFrame DEF Stop
  <2>2. CASE svc[s].running
    <3>1. /\ svc' = [svc EXCEPT ![s].stopping = TRUE]
          /\ job' = [job EXCEPT ![a].proc = svc[s].pid]
          /\ streak' = [streak EXCEPT ![s] = IF a = Watchdog THEN @ + 1 ELSE @]
          /\ Signal(svc[s].pid, "term") /\ Goto(a, "term") /\ todo' = todo
      BY <1>8, <2>2 DEF Stop
    <3>2. svc \in [Service -> ServiceInfo] /\ job \in [Actor -> Job] /\ streak \in [Service -> Nat]
      BY <1>1 DEF TypeOK
    <3>3. SvcOK' /\ \A t \in Service : svc'[t].running = svc[t].running /\ svc'[t].pid = svc[t].pid
      BY <3>1, <3>2 DEF SvcOK, ServiceInfo
    <3>4. svc[s].pid \in Pid \cup {NoPid}
      BY <1>2, <3>2 DEF ServiceInfo
    <3>5. JobOK'
      BY <3>1, <3>2, <3>4 DEF JobOK, Job
    <3>6. StreakOK'
      <4>1. \E n \in Nat : streak' = [streak EXCEPT ![s] = n]
        <5>1. streak[s] \in Nat
          BY <1>2, <3>2
        <5>2. (IF a = Watchdog THEN streak[s] + 1 ELSE streak[s]) \in Nat
          BY <5>1
        <5>. QED  BY <3>1, <5>2
      <4>. QED  BY <3>2, <4>1 DEF StreakOK
    <3>. QED  BY <1>1, <1>6, <1>8, <3>1, <3>3, <3>5, <3>6 DEF Stop, Up
  <2>. QED  BY <2>1, <2>2
<1>. QED  BY <1>4, <1>5, <1>7, <1>8 DEF StopStep

\* StartService keeps the books, whoever calls it: w differs from waiter at
\* most in that the calling waiter has ended.
LEMMA StartServiceStep ==
  ASSUME Books, NEW s \in Service, NEW w \in [Pid -> WaiterLabel], StartService(s, w),
         \A p \in Pid : /\ w[p] = "wait" <=> waiter[p] = "wait"
                        /\ w[p] = "none" <=> waiter[p] = "none"
  PROVE  SvcOK' /\ ProcOK' /\ LastPidOK' /\ WaiterOK' /\ ExcusedOK' /\ Supervised'
<1>1. TypeOK /\ Supervised
  BY DEF Books
<1>2. /\ svc \in [Service -> ServiceInfo] /\ proc \in [Pid -> Process]
      /\ waiter \in [Pid -> WaiterLabel] /\ lastPid \in 0 .. MaxPid /\ clock \in Nat
      /\ excused \in SUBSET Service /\ MaxPid \in Nat
  BY <1>1, DaemonAssumption DEF TypeOK, LimiterTypeOK, DaemonAssumption
<1>3. CASE svc[s].running
  <2>1. waiter' = w /\ svc' = svc /\ proc' = proc /\ lastPid' = lastPid /\ excused' = excused
    BY <1>3 DEF StartService
  <2>2. WaiterOK'
    BY <2>1 DEF WaiterOK
  <2>3. SameBooks
    BY <2>1 DEF SameBooks
  <2>. QED  BY <1>1, <2>1, <2>2, <2>3, TypeFrame, SameBooksSupervised
<1>4. CASE ~ svc[s].running /\ StartFails(s) /\ waiter' = w
  <2>1. svc' = [svc EXCEPT ![s].stopping = FALSE] /\ proc' = proc /\ lastPid' = lastPid
    BY <1>4 DEF StartFails
  <2>2. SvcOK' /\ \A t \in Service : svc'[t].running = svc[t].running /\ svc'[t].pid = svc[t].pid
    BY <1>2, <2>1 DEF SvcOK, ServiceInfo
  <2>3. SameBooks
    BY <1>4, <2>1, <2>2 DEF SameBooks
  <2>4. ExcusedOK'
    BY <1>2, <1>4 DEF StartFails, ExcusedOK
  <2>5. WaiterOK'
    BY <1>4 DEF WaiterOK
  <2>. QED  BY <1>1, <2>1, <2>2, <2>3, <2>4, <2>5, TypeFrame, SameBooksSupervised
<1>5. CASE ~ svc[s].running /\ Launch(s) /\ waiter' = [w EXCEPT ![lastPid + 1] = "wait"]
  <2>. DEFINE n == lastPid + 1
  <2>1. /\ lastPid < MaxPid /\ lastPid' = n
        /\ svc' = [svc EXCEPT ![s].running = TRUE, ![s].stopping = FALSE,
                              ![s].pid = n, ![s].lastHeart = clock]
        /\ proc' = [proc EXCEPT ![n] = [owner |-> s, st |-> "alive", sig |-> "none"]]
        /\ excused' = excused \ {s}
    BY <1>5 DEF Launch
  <2>2. n \in Pid /\ lastPid' \in 0 .. MaxPid
    BY <1>2, <2>1 DEF Pid
  <2>3. LastPidOK'
    BY <2>2 DEF LastPidOK
  <2>4. SvcOK'
    <3>. DEFINE r == [svc[s] EXCEPT !.running = TRUE, !.stopping = FALSE,
                                    !.pid = n, !.lastHeart = clock]
    <3>1. svc[s] \in ServiceInfo
      BY <1>2
    <3>2. r \in ServiceInfo
      BY <1>2, <2>2, <3>1 DEF ServiceInfo
    <3>3. svc' = [svc EXCEPT ![s] = r]
      BY <1>2, <2>1, <3>1 DEF ServiceInfo
    <3>. QED  BY <1>2, <3>2, <3>3 DEF SvcOK
  <2>5. ProcOK'
    BY <1>2, <2>1 DEF ProcOK, Process
  <2>6. WaiterOK'
    BY <1>5 DEF WaiterOK, WaiterLabel
  <2>7. ExcusedOK'
    BY <1>2, <2>1 DEF ExcusedOK
  <2>8. /\ svc'[s].running /\ svc'[s].pid = n
        /\ \A t \in Service \ {s} : svc'[t] = svc[t]
    BY <1>2, <2>1 DEF ServiceInfo
  <2>9. /\ proc'[n].owner = s /\ waiter'[n] = "wait"
        /\ \A p \in Pid \ {n} : proc'[p] = proc[p] /\ waiter'[p] = w[p]
    BY <1>2, <1>5, <2>1, <2>2
  <2>10. Supervised'
    <3>1. ASSUME NEW p \in Pid, p > lastPid'
          PROVE  proc'[p].st = "unborn" /\ waiter'[p] = "none"
      <4>1. p # n /\ p > lastPid
        BY <1>2, <2>1, <3>1 DEF Pid
      <4>. QED  BY <1>1, <2>9, <4>1 DEF Supervised
    <3>2. ASSUME NEW p \in Pid, proc'[p].st = "alive"
          PROVE  waiter'[p] = "wait"
      BY <1>1, <2>9, <3>2 DEF Supervised
    <3>3. ASSUME NEW p \in Pid, waiter'[p] = "wait"
          PROVE  svc'[proc'[p].owner].running /\ svc'[proc'[p].owner].pid = p
      <4>1. CASE p # n
        <5>1. waiter[p] = "wait" /\ proc'[p].owner = proc[p].owner /\ proc[p].owner \in Service
          BY <1>2, <2>9, <3>3, <4>1 DEF Process
        <5>2. svc[proc[p].owner].running /\ svc[proc[p].owner].pid = p
          BY <1>1, <5>1 DEF Supervised
        <5>. QED  BY <1>5, <2>8, <5>1, <5>2
      <4>. QED  BY <2>8, <2>9, <4>1
    <3>4. ASSUME NEW t \in Service, svc'[t].running
          PROVE  svc'[t].pid \in Pid /\ waiter'[svc'[t].pid] = "wait" /\ proc'[svc'[t].pid].owner = t
      <4>1. CASE t # s
        <5>1. svc'[t].pid = svc[t].pid /\ svc[t].pid \in Pid /\ waiter[svc[t].pid] = "wait"
              /\ proc[svc[t].pid].owner = t
          BY <1>1, <2>8, <3>4, <4>1 DEF Supervised
        <5>2. waiter[n] = "none"
          BY <1>1, <1>2, <2>2 DEF Supervised
        <5>. QED  BY <2>9, <4>1, <5>1, <5>2
      <4>. QED  BY <2>2, <2>8, <2>9, <4>1
    <3>. QED  BY <3>1, <3>2, <3>3, <3>4 DEF Supervised
  <2>. QED  BY <2>3, <2>4, <2>5, <2>6, <2>7, <2>10
<1>. QED  BY <1>3, <1>4, <1>5 DEF StartService

LEMMA LaunchingStep ==
  ASSUME Books, (\E p \in Pid : WaiterStart(p))
                  \/ (\E a \in Requester \cup {Watchdog} : StartAgain(a)) \/ Boot
  PROVE  DaemonBooks'
<1>1. /\ TypeOK /\ Main \in Actor /\ waiter \in [Pid -> WaiterLabel]
      /\ job \in [Actor -> Job] /\ proc \in [Pid -> Process]
  BY DEF Books, Actor, TypeOK
<1>2. ASSUME NEW p \in Pid, WaiterStart(p) PROVE DaemonBooks'
  <2>. DEFINE w == [waiter EXCEPT ![p] = "done"]
  <2>1. waiter[p] = "start" /\ StartService(proc[p].owner, w) /\ proc[p].owner \in Service
    BY <1>1, <1>2 DEF WaiterStart, Process
  <2>2. w \in [Pid -> WaiterLabel]
    BY <1>1 DEF WaiterLabel
  <2>3. \A q \in Pid : (w[q] = "wait" <=> waiter[q] = "wait")
                       /\ (w[q] = "none" <=> waiter[q] = "none")
    BY <1>1, <2>1
  <2>4. SvcOK' /\ ProcOK' /\ LastPidOK' /\ WaiterOK' /\ ExcusedOK' /\ Supervised'
    BY <2>1, <2>2, <2>3, StartServiceStep
  <2>. QED
    BY <1>1, <1>2, <2>4, TypeFrame, SameWork DEF Books, DaemonBooks, DaemonTypeOK, WaiterStart
<1>3. ASSUME NEW a \in Requester \cup {Watchdog}, StartAgain(a) PROVE DaemonBooks'
  <2>1. StartService(job[a].svc, waiter) /\ job[a].svc \in Service /\ Return(a)
    BY <1>1, <1>3, Workers DEF StartAgain, Job
  <2>2. SvcOK' /\ ProcOK' /\ LastPidOK' /\ WaiterOK' /\ ExcusedOK' /\ Supervised'
    BY <1>1, <2>1, StartServiceStep
  <2>. QED
    BY <1>1, <1>3, <2>1, <2>2, ReturnStep, TypeFrame, SameWork
       DEF Books, DaemonBooks, DaemonTypeOK, StartAgain
<1>4. CASE Boot
  <2>1. todo \in Seq(Service) /\ Len(todo) > 0 /\ Len(todo) \in Nat /\ todo # << >>
    BY <1>1, <1>4, LenProperties, EmptySeq DEF Books, HasWork, Up, Boot, TypeOK
  <2>2. Head(todo) \in Service /\ Tail(todo) \in Seq(Service) /\ Len(Tail(todo)) = Len(todo) - 1
    BY <2>1, HeadTailProperties
  <2>3. SvcOK' /\ ProcOK' /\ LastPidOK' /\ WaiterOK' /\ ExcusedOK' /\ Supervised'
    BY <1>1, <1>4, <2>2, StartServiceStep DEF Boot
  <2>4. TodoOK' /\ HasWork' /\ PcOK'
    <3>1. CASE Len(todo) = 1
      <4>1. todo' = Order /\ Goto(Main, "serve") /\ "serve" \in Label
        BY <1>4, <3>1 DEF Boot, Label
      <4>. QED  BY <1>1, <4>1, GotoStep, DaemonAssumption DEF DaemonAssumption, TodoOK, HasWork
    <3>2. CASE Len(todo) # 1
      <4>1. todo' = Tail(todo) /\ pc' = pc
        BY <1>4, <3>2 DEF Boot
      <4>2. TodoOK' /\ PcOK'
        BY <1>1, <2>2, <4>1, TypeFrame DEF TodoOK
      <4>3. Len(todo') > 0
        BY <2>1, <2>2, <3>2, <4>1
      <4>. QED  BY <4>2, <4>3 DEF HasWork
    <3>. QED  BY <3>1, <3>2
  <2>. QED
    BY <1>1, <1>4, <2>3, <2>4, TypeFrame DEF DaemonBooks, DaemonTypeOK, Boot
<1>. QED  BY <1>2, <1>3, <1>4

LEMMA ShutdownOrPassStep ==
  ASSUME Books, BeginShutdown \/ Pass
  PROVE  DaemonBooks'
<1>1. TypeOK /\ Main \in Actor
  BY DEF Books, Actor
<1>2. SameBooks
  BY DEF BeginShutdown, Pass, SameBooks, children
<1>3. CASE BeginShutdown
  <2>1. ShutOK'
    BY <1>3 DEF BeginShutdown, ShutOK
  <2>2. ShutAtOK'
    BY <1>1, <1>3 DEF BeginShutdown, ShutAtOK, TypeOK
  <2>3. PcOK' /\ HasWork'
    <3>1. "stop" \in Label
      BY DEF Label, RestartPC
    <3>2. PcOK'
      BY <1>1, <1>3, <3>1, GotoStep DEF BeginShutdown
    <3>. QED  BY <1>3, <3>2 DEF BeginShutdown, HasWork, Up, Books
  <2>. QED
    BY <1>1, <1>2, <1>3, <2>1, <2>2, <2>3, SameBooksSupervised, TypeFrame
       DEF Books, DaemonBooks, DaemonTypeOK, BeginShutdown, children
<1>4. CASE Pass
  BY <1>1, <1>2, <1>4, SameBooksSupervised, TypeFrame, SameWork
     DEF Books, DaemonBooks, DaemonTypeOK, Pass, children, history
<1>. QED  BY <1>3, <1>4
-----------------------------------------------------------------------------
LEMMA BooksStep == Books /\ [Next]_vars => Books'
<1>. SUFFICES ASSUME Books, [Next]_vars PROVE Books'
  OBVIOUS
<1>1. LimiterInv'
  BY StepIsLimiterStep, LimiterInvStep DEF Books
<1>2. DaemonBooks'
  <2>1. CASE UNCHANGED vars
    <3>1. SameBooks
      BY <2>1 DEF vars, children, SameBooks
    <3>. QED
      BY <2>1, <3>1, SameBooksSupervised, TypeFrame, SameWork
         DEF Books, DaemonBooks, DaemonTypeOK, vars, children, history
  <2>2. ASSUME NEW p \in Pid, ProcessExit(p) \/ WaiterStep(p) \/ Heartbeat(p)
        PROVE  DaemonBooks'
    BY <2>2, ProcessExitStep, WaiterReapStep, WaiterAllowStep, LaunchingStep, HeartbeatStep
       DEF WaiterStep
  <2>3. ASSUME NEW r \in Requester,
               (\E p \in Pid : Receive(r, p)) \/ CheckSender(r) \/ RestartDocker(r)
        PROVE  DaemonBooks'
    BY <2>3, RequestStep
  <2>4. ASSUME NEW a \in Requester \cup {Watchdog}, RestartStep(a)
        PROVE  DaemonBooks'
    BY <2>4, RestartRequestStep, LaunchingStep DEF RestartStep
  <2>5. ASSUME NEW a \in Actor, StopStep(a)
        PROVE  DaemonBooks'
    BY <2>5, StopStepKeepsBooks
  <2>6. CASE WatchdogStep \/ Boot \/ BeginShutdown \/ Pass
    BY <2>6, WatchdogMoves, NotesStep, LaunchingStep, ShutdownOrPassStep DEF WatchdogStep
  <2>. QED  BY <2>1, <2>2, <2>3, <2>4, <2>5, <2>6 DEF Next
<1>3. TypeOK'
  <2>1. (TypeOK <=> LimiterTypeOK /\ DaemonTypeOK)'
    BY TypeOKSplit, PTL
  <2>. QED  BY <1>1, <1>2, <2>1 DEF LimiterInv, DaemonBooks
<1>. QED  BY <1>1, <1>2, <1>3 DEF Books, DaemonBooks

\* The tables of the daemon and of the kernel always agree.
THEOREM BooksHold == Spec => []Books
BY BooksInit, BooksStep, PTL DEF Spec

\* The daemon's state always has its type, although it indexes tables with
\* pids and service names it has remembered from earlier.
THEOREM TypeCorrect == Spec => []TypeOK
<1>1. Books => TypeOK
  BY DEF Books
<1>. QED  BY <1>1, BooksHold, PTL

\* Never two live instances of one service, for any number of services and of
\* restart requests in flight: every launch is made under the mutex, and a live
\* child is always the one its service's entry names.
THEOREM OneInstance == Spec => []OneLiveProcess
<1>1. Books => OneLiveProcess
  BY DEF Books, Supervised, OneLiveProcess
<1>. QED  BY <1>1, BooksHold, PTL
-----------------------------------------------------------------------------
(***************************************************************************)
(* StopAllMissesNone.  While main stops the services one by one, a child   *)
(* that ran when the shutdown began and has not been sent SIGKILL belongs  *)
(* to a service still on main's list; the one that belongs to the service  *)
(* at its head is the process main waits for.                              *)
(***************************************************************************)
MainInv ==
  /\ pc[Main] \in {"boot", "serve", "stop", "term", "kill", "exited"}
  /\ (pc[Main] \in {"stop", "term", "kill", "exited"}) <=> shuttingDown
  /\ pc[Main] = "serve" => todo = Order

Old(p) == proc[p].st = "alive" /\ p <= shutAt /\ proc[p].sig # "kill"

Listed == pc[Main] \in {"stop", "term", "kill"} =>
            \A p \in Pid : Old(p) => \E i \in DOMAIN todo : todo[i] = proc[p].owner

Awaited == pc[Main] \in {"term", "kill"} =>
  /\ job[Main].proc \in Pid
  /\ \A p \in Pid : Old(p) /\ proc[p].owner = Head(todo) => p = job[Main].proc

Killed == pc[Main] = "kill" => ~ Old(job[Main].proc)

StopAllInv ==
  MainInv /\ shutAt <= lastPid /\ Listed /\ Awaited /\ Killed /\ StopAllMissesNone

LEMMA StopAllInvInit == Init => StopAllInv
<1>. SUFFICES ASSUME Init PROVE StopAllInv
  OBVIOUS
<1>1. pc[Main] = "boot" /\ ~ shuttingDown /\ shutAt = 0 /\ lastPid = 0
  BY DEF Init, Actor
<1>. QED
  BY <1>1 DEF StopAllInv, MainInv, Listed, Awaited, Killed, StopAllMissesNone

\* What a step may do to the processes that exist already.
Ageing ==
  /\ lastPid <= lastPid'
  /\ \A p \in Pid : p <= lastPid /\ proc'[p].st = "alive" =>
       /\ proc[p].st = "alive" /\ proc'[p].owner = proc[p].owner
       /\ proc[p].sig = "kill" => proc'[p].sig = "kill"

LEMMA SignalAges ==
  ASSUME TypeOK, NEW p, NEW sig, Signal(p, sig), lastPid' = lastPid
  PROVE  Ageing
<1>1. proc \in [Pid -> Process] /\ lastPid \in Int
  BY DEF TypeOK
<1>2. \A q \in Pid \ {p} : proc'[q] = proc[q]
  BY <1>1 DEF Signal
<1>3. p \in Pid => /\ proc'[p].st = proc[p].st /\ proc'[p].owner = proc[p].owner
                   /\ proc[p].sig = "kill" => proc'[p].sig = "kill"
  BY <1>1 DEF Signal, Process
<1>. QED  BY <1>1, <1>2, <1>3 DEF Ageing

LEMMA StartAges ==
  ASSUME TypeOK, NEW s, NEW w, StartService(s, w)
  PROVE  Ageing
<1>1. proc \in [Pid -> Process] /\ lastPid \in Int
  BY DEF TypeOK
<1>2. CASE proc' = proc /\ lastPid' = lastPid
  BY <1>1, <1>2 DEF Ageing
<1>3. CASE Launch(s)
  <2>1. \A p \in Pid : p <= lastPid => proc'[p] = proc[p]
    BY <1>1, <1>3 DEF Launch
  <2>. QED  BY <1>1, <1>3, <2>1 DEF Launch, Ageing
<1>. QED  BY <1>2, <1>3 DEF StartService, StartFails

LEMMA StepAges ==
  ASSUME TypeOK, [Next]_vars
  PROVE  Ageing
<1>1. lastPid \in Int /\ proc \in [Pid -> Process]
  BY DEF TypeOK
<1>2. CASE proc' = proc /\ lastPid' = lastPid
  BY <1>1, <1>2 DEF Ageing
<1>3. ASSUME NEW p \in Pid, ProcessExit(p) \/ WaiterStep(p) \/ Heartbeat(p)
      PROVE  Ageing
  <2>1. CASE ProcessExit(p)
    <3>1. proc'[p].st = "dead" /\ \A q \in Pid \ {p} : proc'[q] = proc[q]
      BY <1>1, <2>1 DEF ProcessExit, Process
    <3>. QED  BY <1>1, <2>1, <3>1 DEF ProcessExit, Ageing
  <2>2. CASE WaiterStart(p)
    BY <2>2, StartAges DEF WaiterStart
  <2>. QED
    BY <1>2, <1>3, <2>1, <2>2 DEF WaiterStep, WaiterReap, WaiterAllow, Heartbeat, children
<1>4. ASSUME NEW r \in Requester,
             (\E p \in Pid : Receive(r, p)) \/ CheckSender(r) \/ RestartDocker(r)
      PROVE  Ageing
  BY <1>2, <1>4 DEF Receive, CheckSender, RestartDocker, children
<1>5. ASSUME NEW a \in Requester \cup {Watchdog}, RestartStep(a)
      PROVE  Ageing
  <2>1. CASE StartAgain(a)
    BY <2>1, StartAges DEF StartAgain
  <2>. QED  BY <1>2, <1>5, <2>1 DEF RestartStep, AllowRestart, CheckPid, Branch, children
<1>6. ASSUME NEW a \in Actor, StopStep(a)
      PROVE  Ageing
  <2>1. CASE Stop(a)
    BY <1>2, <2>1, SignalAges DEF Stop
  <2>2. CASE TermTimeout(a)
    BY <2>2, SignalAges DEF TermTimeout
  <2>. QED  BY <1>2, <1>6, <2>1, <2>2 DEF StopStep, ExitSeen, KillTimeout, children
<1>7. CASE WatchdogStep
  BY <1>2, <1>7 DEF WatchdogStep, HeartbeatCheck, PickSilent, Attempt, After, GiveUp, children
<1>8. CASE Boot
  BY <1>8, StartAges DEF Boot
<1>9. CASE BeginShutdown \/ Pass \/ UNCHANGED vars
  BY <1>2, <1>9 DEF BeginShutdown, Pass, vars, children
<1>. QED
  BY <1>3, <1>4, <1>5, <1>6, <1>7, <1>8, <1>9 DEF Next

\* The steps of every goroutine but main's.
MainRests ==
  /\ UNCHANGED <<shuttingDown, todo, shutAt>>
  /\ pc'[Main] = pc[Main] /\ job'[Main] = job[Main]

LEMMA OthersLeaveMain ==
  ASSUME TypeOK, [Next]_vars
  PROVE  MainRests \/ StopStep(Main) \/ Boot \/ BeginShutdown
<1>1. pc \in [Actor -> Label] /\ job \in [Actor -> Job] /\ Main \in Actor
  BY DEF TypeOK, Actor
<1>2. ASSUME NEW a \in Actor \ {Main}, NEW l, Goto(a, l)
      PROVE  pc'[Main] = pc[Main]
  BY <1>1, <1>2 DEF Goto
<1>3. ASSUME NEW a \in Actor \ {Main}, Finish(a)
      PROVE  pc'[Main] = pc[Main] /\ job'[Main] = job[Main]
  BY <1>1, <1>3 DEF Finish, Goto
<1>4. ASSUME NEW a \in Actor \ {Main}, Return(a)
      PROVE  pc'[Main] = pc[Main] /\ job'[Main] = job[Main]
  BY <1>2, <1>3, <1>4 DEF Return
<1>5. CASE UNCHANGED vars
  BY <1>5 DEF vars, history, MainRests
<1>6. ASSUME NEW p \in Pid, ProcessExit(p) \/ WaiterStep(p) \/ Heartbeat(p)
      PROVE  MainRests
  BY <1>6 DEF ProcessExit, WaiterStep, WaiterReap, WaiterAllow, WaiterStart, Heartbeat,
              history, MainRests
<1>7. ASSUME NEW r \in Requester,
             (\E p \in Pid : Receive(r, p)) \/ CheckSender(r) \/ RestartDocker(r)
      PROVE  MainRests
  <2>1. r \in Actor \ {Main}
    BY Workers
  <2>2. ASSUME NEW p \in Pid, Receive(r, p) PROVE MainRests
    <3>1. job' = [job EXCEPT ![r].svc = proc[p].owner, ![r].pid = p]
      BY <2>2 DEF Receive
    <3>2. job'[Main] = job[Main]
      BY <1>1, <2>1, <3>1
    <3>. QED  BY <1>2, <2>1, <2>2, <3>2 DEF Receive, history, MainRests
  <2>. QED
    BY <1>2, <1>3, <1>7, <2>1, <2>2 DEF CheckSender, RestartDocker, history, MainRests
<1>8. ASSUME NEW a \in Requester \cup {Watchdog}, RestartStep(a)
      PROVE  MainRests
  <2>1. a \in Actor \ {Main}
    BY Workers
  <2>. QED
    BY <1>2, <1>4, <1>8, <2>1
       DEF RestartStep, AllowRestart, CheckPid, Branch, StartAgain, history, MainRests
<1>9. ASSUME NEW a \in Actor \ {Main}, StopStep(a)
      PROVE  MainRests
  <2>1. ASSUME NEW x, job' = [job EXCEPT ![a].proc = x] PROVE job'[Main] = job[Main]
    BY <1>1, <2>1
  <2>2. Stopped(a) => pc'[Main] = pc[Main] /\ job'[Main] = job[Main] /\ todo' = todo
    BY <1>2, <2>1 DEF Stopped
  <2>. QED
    BY <1>2, <1>9, <2>1, <2>2
       DEF StopStep, Stop, ExitSeen, TermTimeout, KillTimeout, history, MainRests
<1>10. CASE WatchdogStep
  <2>1. Watchdog \in Actor \ {Main}
    BY Workers
  <2>2. CASE PickSilent
    <3>1. job'[Main] = job[Main]
      BY <1>1, <2>1, <2>2 DEF PickSilent
    <3>. QED  BY <1>2, <2>1, <2>2, <3>1 DEF PickSilent, history, MainRests
  <2>3. CASE After
    <3>1. job' = [job EXCEPT ![Watchdog].attempt = @ + 1] => job'[Main] = job[Main]
      BY <1>1, <2>1
    <3>. QED  BY <1>2, <1>3, <2>1, <2>3, <3>1 DEF After, history, MainRests
  <2>4. CASE HeartbeatCheck
    BY <2>4 DEF HeartbeatCheck, history, MainRests
  <2>. QED
    BY <1>2, <1>3, <1>10, <2>1, <2>2, <2>3, <2>4
       DEF WatchdogStep, Attempt, GiveUp, history, MainRests
<1>11. CASE Pass
  BY <1>11 DEF Pass, history, MainRests
<1>. QED
  BY <1>5, <1>6, <1>7, <1>8, <1>9, <1>10, <1>11 DEF Next

\* No step makes a process old.
LEMMA OldStaysOld ==
  ASSUME TypeOK, StopAllInv, Ageing, shutAt' = shutAt, NEW p \in Pid, Old(p)'
  PROVE  Old(p) /\ proc'[p].owner = proc[p].owner
BY DEF TypeOK, StopAllInv, Ageing, Old, Pid

LEMMA MainRestsKeepsStopAll ==
  ASSUME TypeOK, StopAllInv, Ageing, MainRests, lastPid' \in Int
  PROVE  StopAllInv'
<1>1. \A p \in Pid : Old(p)' => Old(p) /\ proc'[p].owner = proc[p].owner
  BY OldStaysOld DEF MainRests
<1>0. lastPid \in Int /\ shutAt \in Int /\ \A p \in Pid : p \in Int
  BY DEF TypeOK, Pid
<1>2. MainInv' /\ (shutAt <= lastPid)'
  BY <1>0 DEF StopAllInv, MainInv, MainRests, Ageing
<1>3. Listed'
  BY <1>1 DEF StopAllInv, Listed, MainRests
<1>4. Awaited'
  BY <1>1 DEF StopAllInv, Awaited, MainRests
<1>5. Killed'
  BY <1>1 DEF StopAllInv, Killed, Awaited, MainRests
<1>6. StopAllMissesNone'
  <2>. SUFFICES ASSUME pc[Main] = "exited", NEW p \in Pid, proc'[p].st = "alive", p <= shutAt
                PROVE  proc'[p].sig = "kill"
    BY <1>0 DEF StopAllMissesNone, MainRests
  <2>1. p <= lastPid
    BY <1>0 DEF StopAllInv
  <2>2. proc[p].sig = "kill"
    BY <1>0, <2>1 DEF StopAllInv, StopAllMissesNone, Ageing
  <2>. QED  BY <2>1, <2>2 DEF Ageing
<1>. QED  BY <1>2, <1>3, <1>4, <1>5, <1>6 DEF StopAllInv

\* The service at the head is done with, so the next one comes up.
LEMMA DoneWithHead ==
  ASSUME Books, StopAllInv, Stopped(Main), pc[Main] \in {"stop", "term", "kill"},
         UNCHANGED <<proc, lastPid, shutAt, shuttingDown>>,
         \A p \in Pid : Old(p) => proc[p].owner # Head(todo)
  PROVE  StopAllInv'
<1>1. TypeOK /\ Main \in Actor /\ todo \in Seq(Service) /\ Len(todo) > 0 /\ shuttingDown
  BY DEF Books, TypeOK, Actor, HasWork, Up, StopAllInv, MainInv
<1>2. Goto(Main, IF Len(todo) = 1 THEN "exited" ELSE "stop") /\ todo' = Tail(todo)
  BY DEF Stopped
<1>3. {"exited", "stop"} \subseteq Label
  BY DEF Label, RestartPC
<1>4. pc'[Main] = IF Len(todo) = 1 THEN "exited" ELSE "stop"
  BY <1>1, <1>2, <1>3, GotoStep
<1>5. ASSUME NEW p \in Pid, Old(p)
      PROVE  \E i \in DOMAIN todo' : todo'[i] = proc[p].owner
  <2>1. PICK i \in DOMAIN todo : todo[i] = proc[p].owner
    BY <1>5 DEF StopAllInv, Listed
  <2>2. i \in 1 .. Len(todo) /\ i # 1 /\ Len(todo) \in Nat
    <3>1. Head(todo) # proc[p].owner /\ Head(todo) = todo[1]
      BY <1>1, <1>5, HeadTailProperties, EmptySeq
    <3>. QED  BY <1>1, <2>1, <3>1, LenProperties
  <2>3. /\ Tail(todo) \in Seq(Service) /\ Len(Tail(todo)) = Len(todo) - 1
        /\ Tail(todo)[i - 1] = todo[i]
    BY <1>1, <2>2, HeadTailProperties, EmptySeq
  <2>4. i - 1 \in DOMAIN Tail(todo)
    BY <2>2, <2>3, LenProperties
  <2>. QED  BY <1>2, <2>1, <2>3, <2>4
<1>6. Len(todo) = 1 => \A p \in Pid : ~ Old(p)
  <2>1. Tail(todo) \in Seq(Service) /\ Len(Tail(todo)) = Len(todo) - 1
    BY <1>1, HeadTailProperties, EmptySeq
  <2>2. DOMAIN Tail(todo) = 1 .. Len(Tail(todo))
    BY <2>1, LenProperties
  <2>3. Len(todo) = 1 => Len(Tail(todo)) = 0
    BY <2>1
  <2>4. 1 .. 0 = {}
    OBVIOUS
  <2>. QED  BY <1>2, <1>5, <2>2, <2>3, <2>4
<1>7. MainInv'
  BY <1>1, <1>4 DEF StopAllInv, MainInv
<1>8. Listed' /\ Awaited' /\ Killed'
  BY <1>4, <1>5 DEF Listed, Awaited, Killed, Old
<1>9. StopAllMissesNone'
  BY <1>1, <1>4, <1>6 DEF StopAllMissesNone, Old, TypeOK, Pid
<1>. QED  BY <1>7, <1>8, <1>9 DEF StopAllInv

\* A child of a service, as the books have it.
LEMMA LiveChild ==
  ASSUME Books, NEW p \in Pid, proc[p].st = "alive"
  PROVE  /\ waiter[p] = "wait" /\ p <= lastPid /\ proc[p].owner \in Service
         /\ svc[proc[p].owner].running /\ svc[proc[p].owner].pid = p
BY DEF Books, TypeOK, Supervised, Process, Pid

LEMMA StopAllMainStep ==
  ASSUME Books, StopAllInv, StopStep(Main), Ageing
  PROVE  StopAllInv'
<1>. DEFINE s == Head(todo)
<1>1. /\ TypeOK /\ Main \in Actor /\ Up /\ Target(Main) = s
      /\ pc[Main] \in {"stop", "term", "kill"} /\ s \in Service
  <2>1. Main \in Actor /\ Up /\ Target(Main) = s /\ pc[Main] \in {"stop", "term", "kill"}
    BY DEF StopStep, Stop, ExitSeen, TermTimeout, KillTimeout, Actor, Target
  <2>. QED  BY <2>1, TargetIsService DEF Books
<1>2. job \in [Actor -> Job] /\ proc \in [Pid -> Process] /\ lastPid \in Int
      /\ svc \in [Service -> ServiceInfo] /\ shuttingDown
  BY <1>1 DEF TypeOK, StopAllInv, MainInv
<1>3. CASE ExitSeen(Main)
  <2>1. \A p \in Pid : Old(p) => proc[p].owner # s
    BY <1>1, <1>3, LiveChild DEF ExitSeen, StopAllInv, Awaited, Old
  <2>. QED  BY <1>1, <1>3, <2>1, DoneWithHead DEF ExitSeen, children, history
<1>4. CASE KillTimeout(Main)
  <2>1. \A p \in Pid : Old(p) => proc[p].owner # s
    BY <1>1, <1>4 DEF KillTimeout, StopAllInv, Awaited, Killed
  <2>. QED  BY <1>1, <1>4, <2>1, DoneWithHead DEF KillTimeout, children
<1>5. CASE TermTimeout(Main)
  <2>1. /\ Goto(Main, "kill") /\ "kill" \in Label /\ pc[Main] = "term"
        /\ Signal(job[Main].proc, "kill")
        /\ UNCHANGED <<shuttingDown, job, todo, shutAt, lastPid>>
    BY <1>5 DEF TermTimeout, Label, RestartPC, history
  <2>2. pc'[Main] = "kill"
    BY <1>1, <2>1, GotoStep
  <2>3. \A p \in Pid : Old(p)' => Old(p) /\ proc'[p].owner = proc[p].owner
    BY <1>1, <2>1, OldStaysOld
  <2>4. job[Main].proc \in Pid
    BY <2>1 DEF StopAllInv, Awaited
  <2>5. Killed'
    <3>1. proc'[job[Main].proc].st = "alive" => proc'[job[Main].proc].sig = "kill"
      BY <1>2, <2>1, <2>4 DEF Signal, Process
    <3>. QED  BY <2>1, <3>1 DEF Killed, Old
  <2>6. Listed' /\ Awaited'
    BY <2>1, <2>2, <2>3, <2>4 DEF StopAllInv, Listed, Awaited
  <2>. QED
    BY <1>2, <2>1, <2>2, <2>5, <2>6 DEF StopAllInv, MainInv, StopAllMissesNone
<1>6. CASE Stop(Main) /\ ~ svc[s].running
  <2>1. \A p \in Pid : Old(p) => proc[p].owner # s
    BY <1>1, <1>6, LiveChild DEF Old
  <2>. QED  BY <1>1, <1>6, <2>1, DoneWithHead DEF Stop
<1>7. CASE Stop(Main) /\ svc[s].running
  <2>1. /\ Goto(Main, "term") /\ "term" \in Label
        /\ job' = [job EXCEPT ![Main].proc = svc[s].pid]
        /\ UNCHANGED <<shuttingDown, todo, shutAt, lastPid>>
    BY <1>1, <1>7 DEF Stop, Label, RestartPC
  <2>2. pc'[Main] = "term"
    BY <1>1, <2>1, GotoStep
  <2>3. \A p \in Pid : Old(p)' => Old(p) /\ proc'[p].owner = proc[p].owner
    BY <1>1, <2>1, OldStaysOld
  <2>4. job'[Main].proc = svc[s].pid /\ svc[s].pid \in Pid
    BY <1>1, <1>2, <1>7, <2>1 DEF Job, Books, Supervised
  <2>5. \A p \in Pid : Old(p) /\ proc[p].owner = s => p = svc[s].pid
    BY LiveChild DEF Old
  <2>6. Awaited'
    BY <2>1, <2>3, <2>4, <2>5 DEF Awaited
  <2>7. Listed'
    BY <1>1, <2>1, <2>3 DEF StopAllInv, Listed
  <2>. QED
    BY <1>2, <2>1, <2>2, <2>6, <2>7 DEF StopAllInv, MainInv, Killed, StopAllMissesNone
<1>. QED
  BY <1>1, <1>3, <1>4, <1>5, <1>6, <1>7 DEF StopStep

LEMMA StopAllStep == Books /\ StopAllInv /\ [Next]_vars => StopAllInv'
<1>. SUFFICES ASSUME Books, StopAllInv, [Next]_vars PROVE StopAllInv'
  OBVIOUS
<1>1. TypeOK /\ Ageing /\ Main \in Actor
  BY StepAges DEF Books, Actor
<1>2. lastPid \in Int /\ lastPid' \in Int /\ shutAt \in Int
  <2>1. TypeOK'
    BY BooksStep DEF Books
  <2>. QED  BY <1>1, <2>1 DEF TypeOK
<1>3. CASE Boot
  <2>1. pc[Main] = "boot" /\ ~ shuttingDown /\ UNCHANGED <<shuttingDown, shutAt>>
    BY <1>3 DEF Boot, StopAllInv, MainInv
  <2>2. pc'[Main] = "boot" \/ (pc'[Main] = "serve" /\ todo' = Order)
    <3>1. "serve" \in Label
      BY DEF Label
    <3>. QED  BY <1>1, <1>3, <2>1, <3>1, GotoStep DEF Boot
  <2>. QED
    BY <1>1, <1>2, <2>1, <2>2
       DEF StopAllInv, MainInv, Listed, Awaited, Killed, StopAllMissesNone, Ageing
<1>4. CASE BeginShutdown
  <2>1. todo' = Order /\ shuttingDown' /\ shutAt' = lastPid
    BY <1>4 DEF BeginShutdown, StopAllInv, MainInv
  <2>2. pc'[Main] = "stop"
    <3>1. "stop" \in Label
      BY DEF Label, RestartPC
    <3>. QED  BY <1>1, <1>4, <3>1, GotoStep DEF BeginShutdown
  <2>3. \A p \in Pid : proc'[p].owner \in Service
    BY <1>1, <1>4 DEF BeginShutdown, children, TypeOK, Process
  <2>4. Listed'
    BY <2>1, <2>3, DaemonAssumption DEF DaemonAssumption, Listed
  <2>. QED
    BY <1>1, <1>2, <2>1, <2>2, <2>4
       DEF StopAllInv, MainInv, Awaited, Killed, StopAllMissesNone, Ageing
<1>. QED
  BY <1>1, <1>2, <1>3, <1>4, OthersLeaveMain, MainRestsKeepsStopAll, StopAllMainStep

\* When main returns, no child that ran when the shutdown began is left alive,
\* except one that outlived SIGKILL, however many restarts were under way.
THEOREM ShutdownIsThorough == Spec => []StopAllMissesNone
<1>1. Init => Books /\ StopAllInv
  BY BooksInit, StopAllInvInit
<1>2. (Books /\ StopAllInv) /\ [Next]_vars => (Books /\ StopAllInv)'
  BY BooksStep, StopAllStep
<1>3. StopAllInv => StopAllMissesNone
  BY DEF StopAllInv
<1>. QED  BY <1>1, <1>2, <1>3, PTL DEF Spec
-----------------------------------------------------------------------------
(***************************************************************************)
(* NoSilentLoss.  An exit that was asked for restarts nothing, so whoever  *)
(* asked must still be there to start the service: StopsAreHeld says that  *)
(* the mark Stopping of a running service belongs to a restart request     *)
(* that waits for this very process, unless the service was given up.      *)
(***************************************************************************)
Worker == Requester \cup {Watchdog}
Busy == {"term", "kill", "start"}

Held(s) == \E a \in Worker :
  pc[a] \in {"term", "kill"} /\ job[a].svc = s /\ job[a].proc = svc[s].pid

StopHeld(s) == svc[s].running /\ svc[s].stopping => shuttingDown \/ s \in excused \/ Held(s)
Safe(s) == svc[s].running \/ Restarting(s) \/ s \in excused \/ shuttingDown

StopsAreHeld == \A s \in Service : StopHeld(s)

LossInv == StopsAreHeld /\ NoSilentLoss

\* What a step must leave alone to keep the two facts about one service.
HeldFrame(s) == svc'[s].running /\ svc'[s].stopping =>
  /\ svc[s].running /\ svc[s].stopping /\ svc'[s].pid = svc[s].pid
  /\ shuttingDown' = shuttingDown
  /\ s \in excused => s \in excused'
  /\ \A a \in Worker : job[a].svc = s /\ pc[a] \in {"term", "kill"} =>
       \/ pc'[a] \in {"term", "kill"} /\ job'[a].svc = s /\ job'[a].proc = job[a].proc
       \/ waiter[job[a].proc] # "wait"
       \/ s \in excused'

SafeFrame(s) == ~ svc'[s].running =>
  /\ ~ svc[s].running
  /\ shuttingDown' = shuttingDown
  /\ s \in excused => s \in excused'
  /\ pc[Main] = "boot" /\ (\E i \in DOMAIN todo : todo[i] = s) =>
       pc'[Main] = "boot" /\ \E i \in DOMAIN todo' : todo'[i] = s
  /\ \A p \in Pid : proc[p].owner = s /\ waiter[p] \in {"allow", "start"} =>
       \/ proc'[p].owner = s /\ waiter'[p] \in {"allow", "start"}
       \/ s \in excused'
  /\ \A a \in Worker : job[a].svc = s /\ pc[a] \in Busy =>
       pc'[a] \in Busy /\ job'[a].svc = s

LEMMA FramesKeep ==
  ASSUME Books, LossInv, NEW s \in Service
  PROVE  /\ HeldFrame(s) => StopHeld(s)'
         /\ SafeFrame(s) => Safe(s)'
<1>1. ASSUME HeldFrame(s), svc'[s].running, svc'[s].stopping
      PROVE  shuttingDown' \/ s \in excused' \/ Held(s)'
  <2>1. shuttingDown \/ s \in excused \/ Held(s)
    BY <1>1 DEF HeldFrame, LossInv, StopsAreHeld, StopHeld
  <2>2. CASE Held(s)
    <3>1. PICK a \in Worker : pc[a] \in {"term", "kill"} /\ job[a].svc = s /\ job[a].proc = svc[s].pid
      BY <2>2 DEF Held
    <3>2. waiter[svc[s].pid] = "wait"
      BY <1>1 DEF HeldFrame, Books, Supervised
    <3>. QED  BY <1>1, <3>1, <3>2 DEF HeldFrame, Held
  <2>. QED  BY <1>1, <2>1, <2>2 DEF HeldFrame
<1>2. ASSUME SafeFrame(s), ~ svc'[s].running
      PROVE  Restarting(s)' \/ s \in excused' \/ shuttingDown'
  <2>1. Restarting(s) \/ s \in excused \/ shuttingDown
    BY <1>2 DEF SafeFrame, LossInv, NoSilentLoss
  <2>2. CASE Restarting(s)
    BY <1>2, <2>2 DEF SafeFrame, Restarting, Busy, Worker
  <2>. QED  BY <1>2, <2>1, <2>2 DEF SafeFrame
<1>. QED  BY <1>1, <1>2 DEF StopHeld, Safe

\* Most steps disturb neither fact, of any service.
Quiet ==
  /\ \A s \in Service : svc'[s].running = svc[s].running /\ svc'[s].pid = svc[s].pid
                        /\ svc'[s].stopping = svc[s].stopping
  /\ excused' = excused /\ MainRests /\ waiter' = waiter
  /\ \A p \in Pid : proc'[p].owner = proc[p].owner
  /\ \A a \in Worker : pc[a] \in Busy => pc'[a] = pc[a] /\ job'[a] = job[a]

LEMMA QuietKeeps ==
  ASSUME Books, LossInv, Quiet
  PROVE  LossInv'
<1>1. ASSUME NEW s \in Service PROVE StopHeld(s)' /\ Safe(s)'
  <2>1. HeldFrame(s)
    BY DEF Quiet, HeldFrame, MainRests, Busy
  <2>2. SafeFrame(s)
    BY DEF Quiet, SafeFrame, MainRests, Busy
  <2>. QED  BY <2>1, <2>2, FramesKeep
<1>. QED  BY <1>1 DEF LossInv, StopsAreHeld, NoSilentLoss, Safe

\* An actor moves, and nobody else.
LEMMA ActorMoves ==
  ASSUME TypeOK, NEW a \in Actor, NEW l
  PROVE  /\ Goto(a, l) => \A b \in Actor \ {a} : pc'[b] = pc[b]
         /\ Finish(a) => \A b \in Actor \ {a} : pc'[b] = pc[b] /\ job'[b] = job[b]
         /\ Return(a) => \A b \in Actor \ {a} : pc'[b] = pc[b] /\ job'[b] = job[b]
         /\ \A x : job' = [job EXCEPT ![a] = x] => \A b \in Actor \ {a} : job'[b] = job[b]
<1>1. pc \in [Actor -> Label] /\ job \in [Actor -> Job]
  BY DEF TypeOK
<1>2. \A k : Goto(a, k) => \A b \in Actor \ {a} : pc'[b] = pc[b]
  BY <1>1 DEF Goto
<1>3. \A x : job' = [job EXCEPT ![a] = x] => \A b \in Actor \ {a} : job'[b] = job[b]
  BY <1>1
<1>4. Finish(a) => \A b \in Actor \ {a} : pc'[b] = pc[b] /\ job'[b] = job[b]
  BY <1>2, <1>3 DEF Finish
<1>. QED  BY <1>2, <1>3, <1>4 DEF Return

LEMMA QuietMoves ==
  ASSUME Books, NEW a \in Worker, pc[a] \notin Busy, MainRests,
         UNCHANGED <<proc, waiter, excused>>,
         \A s \in Service : svc'[s].running = svc[s].running /\ svc'[s].pid = svc[s].pid
                            /\ svc'[s].stopping = svc[s].stopping,
         \A b \in Actor \ {a} : pc'[b] = pc[b] /\ job'[b] = job[b]
  PROVE  Quiet
<1>1. \A b \in Worker : b \in Actor
  BY Workers DEF Worker
<1>. QED  BY <1>1 DEF Quiet

LEMMA QuietSteps ==
  ASSUME Books, MainRests,
         \/ UNCHANGED vars \/ Pass
         \/ \E p \in Pid : ProcessExit(p) \/ Heartbeat(p)
  PROVE  Quiet
<1>1. svc \in [Service -> ServiceInfo] /\ proc \in [Pid -> Process]
  BY DEF Books, TypeOK
<1>2. CASE UNCHANGED vars \/ Pass
  BY <1>2 DEF vars, Pass, children, history, Quiet
<1>3. ASSUME NEW p \in Pid, ProcessExit(p) PROVE Quiet
  BY <1>1, <1>3 DEF ProcessExit, history, Quiet, Process
<1>4. ASSUME NEW p \in Pid, Heartbeat(p) PROVE Quiet
  <2>1. PICK t \in Service :
          svc' = [svc EXCEPT ![t].lastHeart = clock, ![t].nhCount = 0, ![t].nhDisabled = FALSE]
    BY <1>4 DEF Heartbeat
  <2>2. \A s \in Service : svc'[s].running = svc[s].running /\ svc'[s].pid = svc[s].pid
                           /\ svc'[s].stopping = svc[s].stopping
    BY <1>1, <2>1 DEF ServiceInfo
  <2>. QED  BY <1>4, <2>2 DEF Heartbeat, children, Quiet
<1>. QED  BY <1>2, <1>3, <1>4

LEMMA QuietRequests ==
  ASSUME Books, MainRests,
         \/ \E r \in Requester : \/ \E p \in Pid : Receive(r, p)
                                 \/ CheckSender(r) \/ RestartDocker(r)
         \/ \E a \in Worker : AllowRestart(a) \/ CheckPid(a) \/ Branch(a)
  PROVE  Quiet
<1>1. TypeOK /\ \A a \in Worker : a \in Actor
  BY Workers DEF Books, Worker
<1>2. job \in [Actor -> Job]
  BY <1>1 DEF TypeOK
<1>3. ASSUME NEW r \in Requester, NEW p \in Pid, Receive(r, p) PROVE Quiet
  <2>1. r \in Worker /\ r \in Actor
    BY <1>1 DEF Worker
  <2>2. PICK l : Goto(r, l)
    BY <1>3 DEF Receive
  <2>3. \A b \in Actor \ {r} : job'[b] = job[b]
    BY <1>2, <1>3 DEF Receive
  <2>. QED
    BY <1>1, <1>3, <2>1, <2>2, <2>3, ActorMoves, QuietMoves
       DEF Receive, children, history, Busy
<1>4. ASSUME NEW r \in Requester, CheckSender(r) \/ RestartDocker(r) PROVE Quiet
  <2>1. r \in Worker /\ r \in Actor
    BY <1>1 DEF Worker
  <2>2. \A b \in Actor \ {r} : pc'[b] = pc[b] /\ job'[b] = job[b]
    BY <1>1, <1>4, <2>1, ActorMoves DEF CheckSender, RestartDocker
  <2>. QED
    BY <1>4, <2>1, <2>2, QuietMoves
       DEF CheckSender, RestartDocker, children, history, Busy
<1>5. ASSUME NEW a \in Worker, AllowRestart(a) \/ CheckPid(a) \/ Branch(a) PROVE Quiet
  <2>1. a \in Actor
    BY <1>1
  <2>2. \A b \in Actor \ {a} : pc'[b] = pc[b] /\ job'[b] = job[b]
    BY <1>1, <1>5, <2>1, ActorMoves DEF AllowRestart, CheckPid, Branch
  <2>. QED
    BY <1>5, <2>1, <2>2, QuietMoves
       DEF AllowRestart, CheckPid, Branch, children, history, Busy
<1>. QED  BY <1>3, <1>4, <1>5

LEMMA QuietWatchdog ==
  ASSUME Books, MainRests, WatchdogStep
  PROVE  Quiet
<1>1. TypeOK /\ Watchdog \in Actor /\ Watchdog \in Worker
  BY Workers DEF Books, Worker
<1>2. /\ svc \in [Service -> ServiceInfo] /\ job \in [Actor -> Job]
      /\ pc \in [Actor -> Label]
  BY <1>1 DEF TypeOK
<1>3. /\ UNCHANGED <<proc, waiter, excused>> /\ pc[Watchdog] \notin Busy
      /\ \A b \in Actor \ {Watchdog} : pc'[b] = pc[b] /\ job'[b] = job[b]
  <2>1. CASE HeartbeatCheck
    BY <2>1 DEF HeartbeatCheck, children, history, Busy
  <2>2. CASE PickSilent
    <3>1. \A b \in Actor \ {Watchdog} : job'[b] = job[b]
      BY <1>2, <2>2 DEF PickSilent
    <3>. QED  BY <1>1, <2>2, <3>1, ActorMoves DEF PickSilent, children, history, Busy
  <2>3. CASE Attempt
    BY <1>1, <2>3, ActorMoves DEF Attempt, children, history, Busy
  <2>4. CASE After
    <3>1. job' = [job EXCEPT ![Watchdog].attempt = @ + 1] =>
            \A b \in Actor \ {Watchdog} : job'[b] = job[b]
      BY <1>2
    <3>. QED  BY <1>1, <2>4, <3>1, ActorMoves DEF After, children, history, Busy
  <2>5. CASE GiveUp
    BY <1>1, <2>5, ActorMoves DEF GiveUp, children, history, Busy
  <2>. QED  BY <2>1, <2>2, <2>3, <2>4, <2>5 DEF WatchdogStep
<1>4. \A s \in Service : svc'[s].running = svc[s].running /\ svc'[s].pid = svc[s].pid
                         /\ svc'[s].stopping = svc[s].stopping
  <2>1. CASE HeartbeatCheck
    <3>. SUFFICES ASSUME NEW s \in Service
                  PROVE  /\ svc'[s].running = svc[s].running /\ svc'[s].pid = svc[s].pid
                         /\ svc'[s].stopping = svc[s].stopping
      OBVIOUS
    <3>1. svc[s] \in ServiceInfo
      BY <1>2
    <3>2. svc'[s] \in {svc[s], [svc[s] EXCEPT !.nhDisabled = TRUE]}
      BY <2>1 DEF HeartbeatCheck
    <3>. QED  BY <3>1, <3>2 DEF ServiceInfo
  <2>2. CASE PickSilent \/ After
    BY <2>2 DEF PickSilent, After
  <2>3. CASE Attempt \/ GiveUp
    <3>1. \/ svc' = svc
          \/ svc' = [svc EXCEPT ![job[Watchdog].svc].nhCount = job[Watchdog].attempt]
          \/ svc' = [svc EXCEPT ![job[Watchdog].svc].nhDisabled = TRUE]
      BY <2>3 DEF Attempt, GiveUp
    <3>. QED  BY <1>2, <3>1 DEF ServiceInfo
  <2>. QED  BY <2>1, <2>2, <2>3 DEF WatchdogStep
<1>. QED  BY <1>1, <1>3, <1>4, QuietMoves
-----------------------------------------------------------------------------
\* The exit of a child: unless its waiter restarts the service, whoever asked
\* for the exit will.
LEMMA ReapKeepsLoss ==
  ASSUME Books, LossInv, NEW p \in Pid, WaiterReap(p)
  PROVE  LossInv'
<1>0. PICK s \in Service : s = proc[p].owner
  BY DEF Books, TypeOK, Process
<1>1. svc \in [Service -> ServiceInfo] /\ waiter \in [Pid -> WaiterLabel]
  BY DEF Books, TypeOK
<1>2. /\ svc' = [svc EXCEPT ![s].running = FALSE, ![s].pid = NoPid]
      /\ waiter' = [waiter EXCEPT ![p] =
                      IF shuttingDown \/ svc[s].stopping THEN "done" ELSE "allow"]
      /\ waiter[p] = "wait"
      /\ UNCHANGED <<proc, shuttingDown, pc, job, todo, excused>>
  BY <1>0 DEF WaiterReap, history
<1>3. \A t \in Service \ {s} : svc'[t] = svc[t]
  BY <1>1, <1>2
<1>4. ~ svc'[s].running
  BY <1>1, <1>2 DEF ServiceInfo
<1>5. \A q \in Pid \ {p} : waiter'[q] = waiter[q]
  BY <1>1, <1>2
<1>6. svc[s].running
  BY <1>0, <1>2 DEF Books, Supervised
<1>7. StopHeld(s)' /\ Safe(s)'
  <2>1. StopHeld(s)'
    BY <1>2, <1>4 DEF StopHeld
  <2>2. CASE shuttingDown
    BY <1>2, <2>1, <2>2 DEF Safe
  <2>3. CASE ~ shuttingDown /\ ~ svc[s].stopping
    <3>1. waiter'[p] = "allow"
      BY <1>1, <1>2, <2>3
    <3>. QED  BY <1>0, <1>2, <2>1, <3>1 DEF Safe, Restarting
  <2>4. CASE ~ shuttingDown /\ svc[s].stopping
    <3>1. s \in excused \/ Held(s)
      BY <1>1, <1>6, <2>4 DEF LossInv, StopsAreHeld, StopHeld
    <3>2. Held(s) => Restarting(s)'
      BY <1>2 DEF Held, Restarting, Worker
    <3>. QED  BY <1>2, <2>1, <3>1, <3>2 DEF Safe
  <2>. QED  BY <2>1, <2>2, <2>3, <2>4
<1>8. ASSUME NEW t \in Service \ {s} PROVE StopHeld(t)' /\ Safe(t)'
  <2>1. HeldFrame(t)
    BY <1>2, <1>3 DEF HeldFrame
  <2>2. SafeFrame(t)
    BY <1>0, <1>2, <1>3, <1>5 DEF SafeFrame
  <2>. QED  BY <2>1, <2>2, FramesKeep
<1>. QED  BY <1>7, <1>8 DEF LossInv, StopsAreHeld, NoSilentLoss, Safe

LEMMA AllowKeepsLoss ==
  ASSUME Books, LossInv, NEW p \in Pid, WaiterAllow(p)
  PROVE  LossInv'
<1>1. waiter \in [Pid -> WaiterLabel]
  BY DEF Books, TypeOK
<1>2. /\ UNCHANGED <<proc, svc, shuttingDown, pc, job, todo>>
      /\ excused \subseteq excused'
      /\ \A q \in Pid \ {p} : waiter'[q] = waiter[q]
      /\ waiter'[p] = "start" \/ proc[p].owner \in excused'
  BY <1>1 DEF WaiterAllow
<1>3. ASSUME NEW t \in Service PROVE StopHeld(t)' /\ Safe(t)'
  <2>1. HeldFrame(t)
    BY <1>2 DEF HeldFrame
  <2>2. SafeFrame(t)
    BY <1>2 DEF SafeFrame
  <2>. QED  BY <2>1, <2>2, FramesKeep
<1>. QED  BY <1>3 DEF LossInv, StopsAreHeld, NoSilentLoss, Safe

\* StartService leaves its service running or given up, and not marked.
LEMMA StartServiceOutcome ==
  ASSUME Books, NEW s \in Service, NEW w, StartService(s, w)
  PROVE  /\ \A t \in Service \ {s} : svc'[t] = svc[t] /\ (t \in excused <=> t \in excused')
         /\ svc'[s].running \/ s \in excused'
         /\ svc'[s].running /\ svc'[s].stopping => svc' = svc /\ excused' = excused
         /\ \A p \in Pid : waiter[p] # "none" => proc'[p].owner = proc[p].owner
         /\ \A p \in Pid : waiter[p] # "none" /\ w \in [Pid -> WaiterLabel] => waiter'[p] = w[p]
<1>1. /\ svc \in [Service -> ServiceInfo] /\ proc \in [Pid -> Process]
      /\ lastPid \in Int
  BY DEF Books, TypeOK
<1>2. CASE svc[s].running /\ waiter' = w /\ UNCHANGED <<svc, proc, lastPid, excused>>
  BY <1>2
<1>3. CASE ~ svc[s].running /\ StartFails(s) /\ waiter' = w
  <2>1. ~ svc'[s].running /\ \A t \in Service \ {s} : svc'[t] = svc[t]
    BY <1>1, <1>3 DEF StartFails, ServiceInfo
  <2>. QED  BY <1>3, <2>1 DEF StartFails
<1>4. CASE Launch(s) /\ waiter' = [w EXCEPT ![lastPid + 1] = "wait"]
  <2>1. ~ svc'[s].stopping /\ svc'[s].running /\ \A t \in Service \ {s} : svc'[t] = svc[t]
    BY <1>1, <1>4 DEF Launch, ServiceInfo
  <2>2. \A p \in Pid : waiter[p] # "none" => p # lastPid + 1
    BY <1>1 DEF Books, Supervised
  <2>. QED  BY <1>1, <1>4, <2>1, <2>2 DEF Launch
<1>. QED  BY <1>2, <1>3, <1>4 DEF StartService

LEMMA StartKeepsLoss ==
  ASSUME Books, LossInv, NEW s \in Service, NEW w \in [Pid -> WaiterLabel], StartService(s, w),
         shuttingDown' = shuttingDown,
         \A p \in Pid : waiter[p] \in {"allow", "start"} /\ proc[p].owner # s => w[p] = waiter[p],
         \A a \in Worker : pc[a] \in {"term", "kill"} => pc'[a] = pc[a] /\ job'[a] = job[a],
         \A a \in Worker : pc[a] = "start" /\ job[a].svc # s => pc'[a] = pc[a] /\ job'[a] = job[a],
         \A t \in Service \ {s} : pc[Main] = "boot" /\ (\E i \in DOMAIN todo : todo[i] = t) =>
           pc'[Main] = "boot" /\ \E i \in DOMAIN todo' : todo'[i] = t
  PROVE  LossInv'
<1>1. HeldFrame(s) /\ Safe(s)'
  BY StartServiceOutcome DEF HeldFrame, Safe
<1>2. ASSUME NEW t \in Service \ {s} PROVE HeldFrame(t) /\ SafeFrame(t)
  <2>1. HeldFrame(t)
    BY StartServiceOutcome DEF HeldFrame
  <2>2. SafeFrame(t)
    BY StartServiceOutcome DEF SafeFrame, Busy
  <2>. QED  BY <2>1, <2>2
<1>. QED  BY <1>1, <1>2, FramesKeep DEF LossInv, StopsAreHeld, NoSilentLoss, Safe

LEMMA LaunchesKeepLoss ==
  ASSUME Books, LossInv, StopAllInv,
         (\E p \in Pid : WaiterStart(p)) \/ (\E a \in Worker : StartAgain(a)) \/ Boot
  PROVE  LossInv'
<1>1. /\ TypeOK /\ waiter \in [Pid -> WaiterLabel] /\ job \in [Actor -> Job]
      /\ proc \in [Pid -> Process] /\ Main \in Actor /\ \A a \in Worker : a \in Actor /\ a # Main
  BY Workers DEF Books, TypeOK, Actor, Worker
<1>2. ASSUME NEW p \in Pid, WaiterStart(p) PROVE LossInv'
  <2>. DEFINE w == [waiter EXCEPT ![p] = "done"]
  <2>1. proc[p].owner \in Service /\ w \in [Pid -> WaiterLabel]
    BY <1>1 DEF Process, WaiterLabel
  <2>2. \A q \in Pid : proc[q].owner # proc[p].owner => w[q] = waiter[q]
    BY <1>1
  <2>3. StartService(proc[p].owner, w) /\ UNCHANGED <<shuttingDown, pc, job, todo>>
    BY <1>2 DEF WaiterStart
  <2>. HIDE DEF w
  <2>. QED  BY <2>1, <2>2, <2>3, StartKeepsLoss
<1>3. ASSUME NEW a \in Worker, StartAgain(a) PROVE LossInv'
  <2>1. /\ pc[a] = "start" /\ StartService(job[a].svc, waiter) /\ Return(a)
        /\ UNCHANGED <<shuttingDown, todo>>
    BY <1>3 DEF StartAgain
  <2>2. \A b \in Actor \ {a} : pc'[b] = pc[b] /\ job'[b] = job[b]
    BY <1>1, <2>1, ActorMoves
  <2>3. job[a].svc \in Service
    BY <1>1 DEF Job
  <2>. QED  BY <1>1, <2>1, <2>2, <2>3, StartKeepsLoss
<1>4. CASE Boot
  <2>1. todo \in Seq(Service) /\ Len(todo) > 0 /\ Len(todo) \in Nat /\ todo # << >>
    BY <1>1, <1>4, LenProperties, EmptySeq DEF Books, HasWork, Up, Boot, TypeOK
  <2>2. Head(todo) \in Service /\ Tail(todo) \in Seq(Service) /\ Len(Tail(todo)) = Len(todo) - 1
    BY <2>1, HeadTailProperties
  <2>3. StartService(Head(todo), waiter) /\ UNCHANGED <<shuttingDown, job>> /\ pc[Main] = "boot"
    BY <1>4 DEF Boot
  <2>4. \A a \in Worker : pc'[a] = pc[a]
    BY <1>1, <1>4, ActorMoves DEF Boot
  <2>5. ASSUME NEW t \in Service \ {Head(todo)}, NEW i \in DOMAIN todo, todo[i] = t
        PROVE  pc'[Main] = "boot" /\ \E j \in DOMAIN todo' : todo'[j] = t
    <3>1. i \in 1 .. Len(todo) /\ i # 1
      <4>1. Head(todo) = todo[1]
        BY <2>1, HeadTailProperties
      <4>. QED  BY <2>1, <2>5, <4>1, LenProperties
    <3>2. todo' = Tail(todo) /\ pc' = pc
      BY <1>4, <2>1, <3>1 DEF Boot
    <3>3. Tail(todo)[i - 1] = todo[i]
      BY <2>1, <3>1, HeadTailProperties
    <3>4. i - 1 \in DOMAIN Tail(todo)
      BY <2>1, <2>2, <3>1, LenProperties
    <3>. QED  BY <2>3, <2>5, <3>2, <3>3, <3>4
  <2>. QED  BY <1>1, <2>2, <2>3, <2>4, <2>5, StartKeepsLoss
<1>. QED  BY <1>2, <1>3, <1>4

\* stopService, called by a restart request.
LEMMA StopKeepsLoss ==
  ASSUME Books, LossInv, NEW a \in Worker, StopStep(a)
  PROVE  LossInv'
<1>0. PICK s : s = job[a].svc
  OBVIOUS
<1>1. /\ TypeOK /\ a \in Actor /\ a # Main /\ Main \in Actor /\ Up /\ Target(a) = s
      /\ \A b \in Worker : b \in Actor
  BY <1>0, Workers
  DEF Books, Actor, Worker, Target, StopStep, Stop, ExitSeen, TermTimeout, KillTimeout
<1>2. /\ svc \in [Service -> ServiceInfo] /\ job \in [Actor -> Job] /\ s \in Service
      /\ pc \in [Actor -> Label]
  BY <1>0, <1>1 DEF TypeOK, Job
<1>3. {"start", "term", "kill"} \subseteq Label
  BY DEF Label, RestartPC
<1>4. Stopped(a) =>
        /\ pc'[a] = "start" /\ job'[a].svc = s /\ UNCHANGED todo
        /\ \A b \in Actor \ {a} : pc'[b] = pc[b] /\ job'[b] = job[b]
  <2>. SUFFICES ASSUME Stopped(a)
                PROVE  /\ pc'[a] = "start" /\ job'[a].svc = s /\ UNCHANGED todo
                       /\ \A b \in Actor \ {a} : pc'[b] = pc[b] /\ job'[b] = job[b]
    OBVIOUS
  <2>1. Goto(a, "start") /\ todo' = todo /\ job' = [job EXCEPT ![a].proc = NoPid]
    BY <1>1 DEF Stopped
  <2>2. job'[a].svc = s /\ \A b \in Actor \ {a} : job'[b] = job[b]
    BY <1>0, <1>1, <1>2, <2>1 DEF Job
  <2>. QED  BY <1>1, <1>3, <2>1, <2>2, GotoStep
<1>5. ASSUME Stopped(a), UNCHANGED <<svc, proc, waiter, shuttingDown>>, excused \subseteq excused',
             \/ pc[a] = "stop"
             \/ waiter[job[a].proc] # "wait"
             \/ s \in excused'
      PROVE  LossInv'
  <2>1. ASSUME NEW t \in Service PROVE HeldFrame(t) /\ SafeFrame(t)
    <3>1. HeldFrame(t)
      BY <1>0, <1>1, <1>4, <1>5 DEF HeldFrame
    <3>2. SafeFrame(t)
      BY <1>0, <1>1, <1>4, <1>5 DEF SafeFrame, Busy
    <3>. QED  BY <3>1, <3>2
  <2>. QED  BY <2>1, FramesKeep DEF LossInv, StopsAreHeld, NoSilentLoss, Safe
<1>6. CASE ExitSeen(a)
  BY <1>5, <1>6 DEF ExitSeen, children, history
<1>7. CASE KillTimeout(a)
  BY <1>0, <1>1, <1>5, <1>7 DEF KillTimeout, children
<1>8. CASE TermTimeout(a)
  <2>1. /\ Signal(job[a].proc, "kill") /\ Goto(a, "kill") /\ pc[a] = "term"
        /\ UNCHANGED <<svc, shuttingDown, waiter, job, todo, excused>>
    BY <1>8 DEF TermTimeout, history
  <2>2. pc'[a] = "kill" /\ \A b \in Actor \ {a} : pc'[b] = pc[b]
    BY <1>0, <1>1, <1>3, <2>1, GotoStep
  <2>3. \A p \in Pid : proc'[p].owner = proc[p].owner
    BY <1>0, <1>1, <2>1, SignalStep
  <2>4. ASSUME NEW t \in Service PROVE HeldFrame(t) /\ SafeFrame(t)
    <3>1. HeldFrame(t)
      BY <1>0, <1>1, <2>1, <2>2 DEF HeldFrame
    <3>2. SafeFrame(t)
      BY <1>0, <1>1, <2>1, <2>2, <2>3 DEF SafeFrame, Busy
    <3>. QED  BY <3>1, <3>2
  <2>. QED  BY <2>4, FramesKeep DEF LossInv, StopsAreHeld, NoSilentLoss, Safe
<1>9. CASE Stop(a) /\ ~ svc[s].running
  BY <1>0, <1>1, <1>5, <1>9 DEF Stop
<1>10. CASE Stop(a) /\ svc[s].running
  <2>1. /\ svc' = [svc EXCEPT ![s].stopping = TRUE]
        /\ job' = [job EXCEPT ![a].proc = svc[s].pid]
        /\ Signal(svc[s].pid, "term") /\ Goto(a, "term") /\ pc[a] = "stop"
        /\ UNCHANGED <<shuttingDown, waiter, todo, excused>>
    BY <1>0, <1>1, <1>10 DEF Stop
  <2>2. pc'[a] = "term" /\ \A b \in Actor \ {a} : pc'[b] = pc[b]
    BY <1>0, <1>1, <1>3, <2>1, GotoStep
  <2>3. \A p \in Pid : proc'[p].owner = proc[p].owner
    BY <1>0, <1>1, <2>1, SignalStep
  <2>4. /\ job'[a].svc = s /\ job'[a].proc = svc[s].pid
        /\ \A b \in Actor \ {a} : job'[b] = job[b]
    BY <1>0, <1>1, <1>2, <2>1 DEF Job
  <2>5. /\ svc'[s].running /\ svc'[s].pid = svc[s].pid
        /\ \A t \in Service \ {s} : svc'[t] = svc[t]
    BY <1>2, <1>10, <2>1 DEF ServiceInfo
  <2>6. StopHeld(s)' /\ Safe(s)'
    BY <2>2, <2>4, <2>5 DEF StopHeld, Safe, Held
  <2>7. ASSUME NEW t \in Service \ {s} PROVE HeldFrame(t) /\ SafeFrame(t)
    <3>1. HeldFrame(t)
      BY <1>0, <1>1, <2>1, <2>2, <2>4, <2>5 DEF HeldFrame
    <3>2. SafeFrame(t)
      BY <1>0, <1>1, <2>1, <2>2, <2>3, <2>4, <2>5 DEF SafeFrame, Busy
    <3>. QED  BY <3>1, <3>2
  <2>. QED  BY <2>6, <2>7, FramesKeep DEF LossInv, StopsAreHeld, NoSilentLoss, Safe
<1>. QED  BY <1>0, <1>1, <1>6, <1>7, <1>8, <1>9, <1>10 DEF StopStep

LEMMA ShutdownKeepsLoss == shuttingDown' => LossInv'
BY DEF LossInv, StopsAreHeld, StopHeld, NoSilentLoss

LEMMA LossInvInit == Init => LossInv
<1>. SUFFICES ASSUME Init PROVE LossInv
  OBVIOUS
<1>1. \A s \in Service : \E i \in DOMAIN todo : todo[i] = s
  BY DaemonAssumption DEF Init, DaemonAssumption
<1>2. pc[Main] = "boot" /\ \A s \in Service : ~ svc[s].running
  BY DEF Init, Actor
<1>. QED  BY <1>1, <1>2 DEF LossInv, StopsAreHeld, StopHeld, NoSilentLoss, Restarting

LEMMA LossInvStep == Books /\ StopAllInv /\ LossInv /\ [Next]_vars => LossInv'
<1>. SUFFICES ASSUME Books, StopAllInv, LossInv, [Next]_vars PROVE LossInv'
  OBVIOUS
<1>1. TypeOK
  BY DEF Books
<1>2. CASE StopStep(Main)
  <2>1. shuttingDown' = shuttingDown /\ pc[Main] \in {"stop", "term", "kill"}
    BY <1>2 DEF StopStep, Stop, ExitSeen, TermTimeout, KillTimeout
  <2>. QED  BY <2>1, ShutdownKeepsLoss DEF StopAllInv, MainInv
<1>3. CASE BeginShutdown
  BY <1>3, ShutdownKeepsLoss DEF BeginShutdown
<1>4. CASE Boot
  BY <1>4, LaunchesKeepLoss
<1>5. CASE MainRests
  <2>1. CASE UNCHANGED vars \/ Pass
    BY <1>5, <2>1, QuietSteps, QuietKeeps
  <2>2. ASSUME NEW p \in Pid, ProcessExit(p) \/ WaiterStep(p) \/ Heartbeat(p) PROVE LossInv'
    BY <1>5, <2>2, QuietSteps, QuietKeeps, ReapKeepsLoss, AllowKeepsLoss, LaunchesKeepLoss
       DEF WaiterStep
  <2>3. ASSUME NEW r \in Requester,
               (\E p \in Pid : Receive(r, p)) \/ CheckSender(r) \/ RestartDocker(r)
        PROVE  LossInv'
    BY <1>5, <2>3, QuietRequests, QuietKeeps
  <2>4. ASSUME NEW a \in Worker, RestartStep(a) PROVE LossInv'
    BY <1>5, <2>4, QuietRequests, QuietKeeps, LaunchesKeepLoss DEF RestartStep
  <2>5. ASSUME NEW a \in Worker, StopStep(a) PROVE LossInv'
    BY <2>5, StopKeepsLoss
  <2>6. CASE WatchdogStep
    BY <1>5, <2>6, QuietWatchdog, QuietKeeps
  <2>7. \A a \in Actor : a \in Worker \/ a = Main
    BY DEF Actor, Worker
  <2>. QED
    BY <1>2, <1>3, <1>4, <2>1, <2>2, <2>3, <2>4, <2>5, <2>6, <2>7 DEF Next, Worker
<1>. QED  BY <1>1, <1>2, <1>3, <1>4, <1>5, OthersLeaveMain

\* A service that is down is being started by somebody, unless the daemon gave
\* it up for a reason: no interleaving of exits, requests, timeouts and the
\* heartbeat monitor drops one between two goroutines that each leave it to the other.
THEOREM NoServiceIsForgotten == Spec => []NoSilentLoss
<1>1. Init => Books /\ StopAllInv /\ LossInv
  BY BooksInit, StopAllInvInit, LossInvInit
<1>2. (Books /\ StopAllInv /\ LossInv) /\ [Next]_vars => (Books /\ StopAllInv /\ LossInv)'
  BY BooksStep, StopAllStep, LossInvStep
<1>3. LossInv => NoSilentLoss
  BY DEF LossInv
<1>. QED  BY <1>1, <1>2, <1>3, PTL DEF Spec
-----------------------------------------------------------------------------
(***************************************************************************)
(* LaunchesArePaidFor.  Boot has its first starts for free; besides them a *)
(* launch uses up a grant that a waiter or a restart request still holds.  *)
(***************************************************************************)
Granting == RestartPC \ {"allow"}
Starters == {p \in Pid : waiter[p] = "start"}
Grantees == {a \in Worker : pc[a] \in Granting}
Unstarted == IF pc[Main] = "boot" THEN Len(todo) ELSE 0

Paid == lastPid + Cardinality(Starters) + Cardinality(Grantees) + Unstarted
          <= Len(Order) + Cardinality(granted)

\* Counting in finite sets.
LEMMA Fewer ==
  ASSUME NEW T, IsFiniteSet(T), NEW S
  PROVE  /\ S \subseteq T => Cardinality(S) <= Cardinality(T)
         /\ \A x \in T : S \subseteq T \ {x} => Cardinality(S) + 1 <= Cardinality(T)
         /\ \A x : S \subseteq T \cup {x} => Cardinality(S) <= Cardinality(T) + 1
<1>1. \A U : IsFiniteSet(U) /\ S \subseteq U =>
        Cardinality(S) <= Cardinality(U) /\ Cardinality(S) \in Nat
  BY FS_Subset, FS_CardinalityType
<1>2. ASSUME NEW x \in T, S \subseteq T \ {x} PROVE Cardinality(S) + 1 <= Cardinality(T)
  <2>1. IsFiniteSet(T \ {x}) /\ Cardinality(T \ {x}) = Cardinality(T) - 1
    BY FS_RemoveElement
  <2>2. Cardinality(T) \in Nat
    BY FS_CardinalityType
  <2>. QED  BY <1>1, <1>2, <2>1, <2>2
<1>3. ASSUME NEW x, S \subseteq T \cup {x} PROVE Cardinality(S) <= Cardinality(T) + 1
  <2>1. /\ IsFiniteSet(T \cup {x}) /\ Cardinality(T) \in Nat
        /\ \/ Cardinality(T \cup {x}) = Cardinality(T)
           \/ Cardinality(T \cup {x}) = Cardinality(T) + 1
    BY FS_AddElement, FS_CardinalityType
  <2>. QED  BY <1>1, <1>3, <2>1
<1>. QED  BY <1>1, <1>2, <1>3

LEMMA FinitelyMany ==
  /\ \A S : S \subseteq Pid => IsFiniteSet(S) /\ Cardinality(S) \in Nat
  /\ \A S : S \subseteq Worker => IsFiniteSet(S) /\ Cardinality(S) \in Nat
<1>1. IsFiniteSet(Pid)
  BY FS_Interval, DaemonAssumption DEF DaemonAssumption, Pid
<1>2. IsFiniteSet(Worker)
  BY FS_AddElement, DaemonAssumption DEF DaemonAssumption, Worker
<1>. QED  BY <1>1, <1>2, FS_Subset, FS_CardinalityType

LEMMA GrantsGrow ==
  ASSUME LimiterInv, [LimiterNext]_limiterVars
  PROVE  /\ Cardinality(granted) \in Nat
         /\ Cardinality(granted') \in Nat
         /\ Cardinality(granted) <= Cardinality(granted')
         /\ Allowed => Cardinality(granted') = Cardinality(granted) + 1
<1>1. Cardinality(granted) \in Nat
  BY NewGrantIsNew
<1>2. CASE Allowed
  BY <1>1, <1>2, NewGrantIsNew DEF Allowed
<1>3. CASE ~ Allowed
  <2>1. granted' = granted
    BY <1>3 DEF LimiterNext, limiterVars, Denied, Tick
  <2>. QED  BY <1>1, <1>3, <2>1
<1>. QED  BY <1>2, <1>3

\* The numbers of the balance.
LEMMA Numbers ==
  ASSUME Books, [Next]_vars
  PROVE  /\ lastPid \in Nat /\ lastPid' \in Nat /\ Len(Order) \in Nat
         /\ Cardinality(granted) \in Nat /\ Cardinality(granted') \in Nat
         /\ Cardinality(granted) <= Cardinality(granted')
         /\ Allowed => Cardinality(granted') = Cardinality(granted) + 1
         /\ IsFiniteSet(Starters) /\ IsFiniteSet(Grantees)
         /\ Cardinality(Starters) \in Nat /\ Cardinality(Grantees) \in Nat
         /\ Cardinality(Starters') \in Nat /\ Cardinality(Grantees') \in Nat
         /\ Len(todo) \in Nat /\ Len(todo') \in Nat
<1>1. TypeOK /\ TypeOK' /\ LimiterInv
  BY BooksStep DEF Books
<1>2. lastPid \in Nat /\ lastPid' \in Nat
  BY <1>1 DEF TypeOK
<1>3. Len(Order) \in Nat /\ Len(todo) \in Nat /\ Len(todo') \in Nat
  <2>1. Order \in Seq(Service) /\ todo \in Seq(Service) /\ todo' \in Seq(Service)
    BY <1>1, DaemonAssumption DEF TypeOK, DaemonAssumption
  <2>. QED  BY <2>1, LenProperties
<1>4. /\ IsFiniteSet(Starters) /\ Cardinality(Starters) \in Nat
      /\ IsFiniteSet(Grantees) /\ Cardinality(Grantees) \in Nat
  BY FinitelyMany DEF Starters, Grantees
<1>5. Cardinality(Starters') \in Nat /\ Cardinality(Grantees') \in Nat
  <2>1. Starters' \subseteq Pid /\ Grantees' \subseteq Worker
    BY DEF Starters, Grantees
  <2>. QED  BY <2>1, FinitelyMany
<1>. QED  BY <1>1, <1>2, <1>3, <1>4, <1>5, GrantsGrow, StepIsLimiterStep

\* A step that neither grants nor launches.
LEMMA NothingSpent ==
  ASSUME Books, Paid, [Next]_vars, lastPid' = lastPid,
         MainRests \/ pc'[Main] # "boot",
         \A p \in Pid : waiter'[p] = "start" => waiter[p] = "start",
         \A a \in Worker : pc'[a] \in Granting => pc[a] \in Granting
  PROVE  Paid'
<1>1. Starters' \subseteq Starters /\ Grantees' \subseteq Grantees
  BY DEF Starters, Grantees
<1>2. /\ Cardinality(Starters') <= Cardinality(Starters)
      /\ Cardinality(Grantees') <= Cardinality(Grantees)
  BY <1>1, Fewer, Numbers
<1>3. Unstarted' <= Unstarted /\ Unstarted \in Nat /\ Unstarted' \in Nat
  BY Numbers DEF Unstarted, MainRests
<1>4. /\ lastPid' \in Nat /\ Len(Order) \in Nat
      /\ Cardinality(granted) \in Nat /\ Cardinality(granted') \in Nat
      /\ Cardinality(granted) <= Cardinality(granted')
      /\ Cardinality(Starters) \in Nat /\ Cardinality(Grantees) \in Nat
      /\ Cardinality(Starters') \in Nat /\ Cardinality(Grantees') \in Nat
  BY Numbers
<1>5. lastPid + Cardinality(Starters) + Cardinality(Grantees) + Unstarted
          <= Len(Order) + Cardinality(granted)
  BY DEF Paid
<1>6. lastPid' + Cardinality(Starters') + Cardinality(Grantees') + Unstarted'
          <= Len(Order) + Cardinality(granted')
  BY <1>2, <1>3, <1>4, <1>5
<1>. QED  BY <1>6 DEF Paid

\* A grant, and one more who holds it.
LEMMA GrantTaken ==
  ASSUME Books, Paid, [Next]_vars, Allowed, MainRests, lastPid' = lastPid,
         \/ /\ \E p \in Pid : \A q \in Pid \ {p} : waiter'[q] = waiter[q]
            /\ \A a \in Worker : pc'[a] = pc[a]
         \/ /\ \E a \in Worker : \A b \in Worker \ {a} : pc'[b] = pc[b]
            /\ waiter' = waiter
  PROVE  Paid'
<1>1. Unstarted' <= Unstarted /\ Unstarted \in Nat /\ Unstarted' \in Nat
  BY Numbers DEF Unstarted, MainRests
<1>7. /\ lastPid \in Nat /\ lastPid' \in Nat /\ Len(Order) \in Nat
      /\ Cardinality(granted) \in Nat /\ Cardinality(granted') \in Nat
      /\ Cardinality(granted) <= Cardinality(granted')
      /\ Cardinality(Starters) \in Nat /\ Cardinality(Grantees) \in Nat
      /\ Cardinality(Starters') \in Nat /\ Cardinality(Grantees') \in Nat
  BY Numbers
<1>8. lastPid + Cardinality(Starters) + Cardinality(Grantees) + Unstarted
        <= Len(Order) + Cardinality(granted)
  BY DEF Paid
<1>9. Cardinality(granted') = Cardinality(granted) + 1
  BY Numbers
<1>2. CASE /\ \E p \in Pid : \A q \in Pid \ {p} : waiter'[q] = waiter[q]
           /\ \A a \in Worker : pc'[a] = pc[a]
  <2>1. PICK p \in Pid : Starters' \subseteq Starters \cup {p}
    BY <1>2 DEF Starters
  <2>2. Cardinality(Grantees') = Cardinality(Grantees)
    BY <1>2 DEF Grantees
  <2>3. Cardinality(Starters') <= Cardinality(Starters) + 1
    BY <2>1, Fewer, Numbers
  <2>4. lastPid' + Cardinality(Starters') + Cardinality(Grantees') + Unstarted'
          <= Len(Order) + Cardinality(granted')
    BY <1>1, <1>7, <1>8, <1>9, <2>2, <2>3, SMTT(60)
  <2>. QED  BY <2>4 DEF Paid
<1>3. CASE /\ \E a \in Worker : \A b \in Worker \ {a} : pc'[b] = pc[b]
           /\ waiter' = waiter
  <2>1. PICK a \in Worker : Grantees' \subseteq Grantees \cup {a}
    BY <1>3 DEF Grantees
  <2>2. Cardinality(Starters') = Cardinality(Starters)
    BY <1>3 DEF Starters
  <2>3. Cardinality(Grantees') <= Cardinality(Grantees) + 1
    BY <2>1, Fewer, Numbers
  <2>4. lastPid' + Cardinality(Starters') + Cardinality(Grantees') + Unstarted'
          <= Len(Order) + Cardinality(granted')
    BY <1>1, <1>7, <1>8, <1>9, <2>2, <2>3, SMTT(60)
  <2>. QED  BY <2>4 DEF Paid
<1>. QED  BY <1>2, <1>3

\* A launch, and one less who holds a grant.
LEMMA GrantSpent ==
  ASSUME Books, Paid, [Next]_vars, MainRests, lastPid' <= lastPid + 1,
         \A p \in Pid : waiter'[p] = "start" => waiter[p] = "start",
         \A a \in Worker : pc'[a] \in Granting => pc[a] \in Granting,
         \/ \E p \in Pid : waiter[p] = "start" /\ waiter'[p] # "start"
         \/ \E a \in Worker : pc[a] \in Granting /\ pc'[a] \notin Granting
  PROVE  Paid'
<1>1. Unstarted' <= Unstarted /\ Unstarted \in Nat /\ Unstarted' \in Nat
  BY Numbers DEF Unstarted, MainRests
<1>2. Starters' \subseteq Starters /\ Grantees' \subseteq Grantees
  BY DEF Starters, Grantees
<1>3. /\ Cardinality(Starters') <= Cardinality(Starters)
      /\ Cardinality(Grantees') <= Cardinality(Grantees)
  BY <1>2, Fewer, Numbers
<1>7. /\ lastPid \in Nat /\ lastPid' \in Nat /\ Len(Order) \in Nat
      /\ Cardinality(granted) \in Nat /\ Cardinality(granted') \in Nat
      /\ Cardinality(granted) <= Cardinality(granted')
      /\ Cardinality(Starters) \in Nat /\ Cardinality(Grantees) \in Nat
      /\ Cardinality(Starters') \in Nat /\ Cardinality(Grantees') \in Nat
  BY Numbers
<1>8. lastPid + Cardinality(Starters) + Cardinality(Grantees) + Unstarted
        <= Len(Order) + Cardinality(granted)
  BY DEF Paid
<1>4. CASE \E p \in Pid : waiter[p] = "start" /\ waiter'[p] # "start"
  <2>1. PICK p \in Starters : Starters' \subseteq Starters \ {p}
    BY <1>2, <1>4 DEF Starters
  <2>2. Cardinality(Starters') + 1 <= Cardinality(Starters)
    BY <2>1, Fewer, Numbers
  <2>4. lastPid' + Cardinality(Starters') + Cardinality(Grantees') + Unstarted'
          <= Len(Order) + Cardinality(granted')
    BY <1>1, <1>3, <1>7, <1>8, <2>2, SMTT(60)
  <2>. QED  BY <2>4 DEF Paid
<1>5. CASE \E a \in Worker : pc[a] \in Granting /\ pc'[a] \notin Granting
  <2>1. PICK a \in Grantees : Grantees' \subseteq Grantees \ {a}
    BY <1>2, <1>5 DEF Grantees
  <2>2. Cardinality(Grantees') + 1 <= Cardinality(Grantees)
    BY <2>1, Fewer, Numbers
  <2>4. lastPid' + Cardinality(Starters') + Cardinality(Grantees') + Unstarted'
          <= Len(Order) + Cardinality(granted')
    BY <1>1, <1>3, <1>7, <1>8, <2>2, SMTT(60)
  <2>. QED  BY <2>4 DEF Paid
<1>. QED  BY <1>4, <1>5

\* StartService gives nobody a grant, and launches at most one process.
LEMMA StartServiceCost ==
  ASSUME Books, NEW s, NEW w \in [Pid -> WaiterLabel], StartService(s, w)
  PROVE  /\ lastPid' <= lastPid + 1
         /\ \A p \in Pid : waiter'[p] = "start" => w[p] = "start"
<1>1. lastPid \in Int
  BY DEF Books, TypeOK
<1>2. CASE waiter' = w /\ lastPid' = lastPid
  BY <1>1, <1>2
<1>3. CASE Launch(s) /\ waiter' = [w EXCEPT ![lastPid + 1] = "wait"]
  BY <1>1, <1>3 DEF Launch
<1>. QED  BY <1>2, <1>3 DEF StartService, StartFails

\* Who moves to a place outside Granting holds no grant afterwards.
LEMMA MovesFree ==
  ASSUME TypeOK, NEW a \in Worker
  PROVE  /\ \A b \in Worker : b \in Actor
         /\ Return(a) => pc'[a] \notin Granting /\ \A b \in Worker \ {a} : pc'[b] = pc[b]
         /\ Finish(a) => pc'[a] \notin Granting /\ \A b \in Worker \ {a} : pc'[b] = pc[b]
         /\ \A l \in Label : Goto(a, l) => pc'[a] = l /\ \A b \in Worker \ {a} : pc'[b] = pc[b]
<1>1. \A b \in Worker : b \in Actor
  BY Workers DEF Worker
<1>2. \A l \in Label : Goto(a, l) => pc'[a] = l /\ \A b \in Worker \ {a} : pc'[b] = pc[b]
  BY <1>1, GotoStep
<1>3. "idle" \in Label \ Granting /\ "after" \in Label \ Granting
  BY DEF Label, RestartPC, Granting
<1>4. Finish(a) => pc'[a] \notin Granting /\ \A b \in Worker \ {a} : pc'[b] = pc[b]
  BY <1>2, <1>3 DEF Finish
<1>. QED  BY <1>1, <1>2, <1>3, <1>4 DEF Return

LEMMA RequestsArePaid ==
  ASSUME Books, Paid, [Next]_vars, MainRests,
         \/ \E r \in Requester : \/ \E p \in Pid : Receive(r, p)
                                 \/ CheckSender(r) \/ RestartDocker(r)
         \/ \E a \in Worker : CheckPid(a) \/ Branch(a)
         \/ WatchdogStep
  PROVE  Paid'
<1>1. TypeOK /\ Watchdog \in Worker
  BY DEF Books, Worker
<1>2. {"allow", "sender", "docker", "attempt", "giveup"} \subseteq Label \ Granting
  BY DEF Label, RestartPC, Granting
<1>3. {"check", "branch", "stop", "start"} \subseteq Granting /\ Granting \subseteq Label
  BY DEF Label, RestartPC, Granting
<1>4. ASSUME NEW a \in Worker, waiter' = waiter, lastPid' = lastPid,
             pc[a] \in Granting \/ pc'[a] \notin Granting,
             \A b \in Worker \ {a} : pc'[b] = pc[b]
      PROVE  Paid'
  BY <1>4, NothingSpent
<1>5. ASSUME NEW r \in Requester, NEW p \in Pid, Receive(r, p) PROVE Paid'
  <2>1. r \in Worker
    BY DEF Worker
  <2>2. PICK l \in {"allow", "sender"} : Goto(r, l)
    BY <1>5 DEF Receive
  <2>. QED  BY <1>1, <1>2, <1>4, <1>5, <2>1, <2>2, MovesFree DEF Receive, children
<1>6. ASSUME NEW r \in Requester, CheckSender(r) \/ RestartDocker(r) PROVE Paid'
  <2>1. r \in Worker
    BY DEF Worker
  <2>2. Goto(r, "docker") \/ Finish(r)
    BY <1>6 DEF CheckSender, RestartDocker
  <2>3. UNCHANGED children
    BY <1>6 DEF CheckSender, RestartDocker
  <2>. QED  BY <1>1, <1>2, <1>4, <2>1, <2>2, <2>3, MovesFree DEF children
<1>7. ASSUME NEW a \in Worker, CheckPid(a) \/ Branch(a) PROVE Paid'
  <2>1. pc[a] \in Granting /\ UNCHANGED children
    BY <1>3, <1>7 DEF CheckPid, Branch
  <2>2. Return(a) \/ \E l \in Granting : Goto(a, l)
    BY <1>3, <1>7 DEF CheckPid, Branch
  <2>. QED  BY <1>1, <1>3, <1>4, <2>1, <2>2, MovesFree DEF children
<1>8. CASE WatchdogStep
  <2>1. waiter' = waiter /\ lastPid' = lastPid
    BY <1>8 DEF WatchdogStep, HeartbeatCheck, PickSilent, Attempt, After, GiveUp, children
  <2>2. \/ pc' = pc
        \/ Finish(Watchdog)
        \/ \E l \in {"allow", "attempt", "giveup"} : Goto(Watchdog, l)
    BY <1>8 DEF WatchdogStep, HeartbeatCheck, PickSilent, Attempt, After, GiveUp
  <2>3. CASE pc' = pc
    BY <2>1, <2>3, NothingSpent
  <2>. QED  BY <1>1, <1>2, <1>4, <2>1, <2>2, <2>3, MovesFree
<1>. QED  BY <1>5, <1>6, <1>7, <1>8

LEMMA AllowIsPaid ==
  ASSUME Books, Paid, [Next]_vars, MainRests, NEW a \in Worker, AllowRestart(a)
  PROVE  Paid'
<1>1. TypeOK /\ "check" \in Label
  BY DEF Books, Label, RestartPC
<1>2. waiter' = waiter /\ lastPid' = lastPid
  BY DEF AllowRestart, children
<1>3. CASE Allowed /\ Goto(a, "check")
  <2>1. \A b \in Worker \ {a} : pc'[b] = pc[b]
    BY <1>1, <1>3, MovesFree
  <2>. QED  BY <1>2, <1>3, <2>1, GrantTaken
<1>4. CASE Return(a)
  <2>1. pc'[a] \notin Granting /\ \A b \in Worker \ {a} : pc'[b] = pc[b]
    BY <1>1, <1>4, MovesFree
  <2>. QED  BY <1>2, <2>1, NothingSpent
<1>. QED  BY <1>3, <1>4 DEF AllowRestart

LEMMA ChildrenArePaid ==
  ASSUME Books, Paid, [Next]_vars, MainRests, NEW p \in Pid,
         ProcessExit(p) \/ WaiterReap(p) \/ WaiterAllow(p) \/ Heartbeat(p)
  PROVE  Paid'
<1>1. waiter \in [Pid -> WaiterLabel]
  BY DEF Books, TypeOK
<1>2. pc' = pc /\ lastPid' = lastPid
  BY DEF ProcessExit, WaiterReap, WaiterAllow, Heartbeat, children
<1>3. \A q \in Pid \ {p} : waiter'[q] = waiter[q]
  BY <1>1 DEF ProcessExit, WaiterReap, WaiterAllow, Heartbeat, children
<1>4. CASE WaiterAllow(p) /\ Allowed
  BY <1>2, <1>3, <1>4, GrantTaken
<1>5. CASE ~ (WaiterAllow(p) /\ Allowed)
  <2>1. waiter'[p] = "start" => waiter[p] = "start"
    BY <1>1, <1>5 DEF ProcessExit, WaiterReap, WaiterAllow, Heartbeat, children
  <2>. QED  BY <1>2, <1>3, <2>1, NothingSpent
<1>. QED  BY <1>4, <1>5

LEMMA StopIsPaid ==
  ASSUME Books, Paid, [Next]_vars, NEW a \in Actor, StopStep(a)
  PROVE  Paid'
<1>1. TypeOK /\ Main \in Actor /\ \A b \in Worker : b \in Actor /\ b # Main
  BY Workers DEF Books, Actor, Worker
<1>2. pc[a] \in {"stop", "term", "kill"} /\ UNCHANGED <<waiter, lastPid>>
  BY DEF StopStep, Stop, ExitSeen, TermTimeout, KillTimeout, children
<1>3. {"start", "stop", "term", "kill", "exited"} \subseteq Label \ {"boot"}
  BY DEF Label, RestartPC
<1>4. PICK l \in {"start", "stop", "term", "kill", "exited"} : Goto(a, l)
  BY DEF StopStep, Stop, ExitSeen, TermTimeout, KillTimeout, Stopped
<1>5. pc'[a] = l /\ \A b \in Actor \ {a} : pc'[b] = pc[b]
  BY <1>1, <1>3, <1>4, GotoStep
<1>6. CASE a = Main
  BY <1>1, <1>2, <1>3, <1>5, <1>6, NothingSpent
<1>7. CASE a # Main
  <2>1. MainRests
    <3>1. ASSUME NEW x, job' = [job EXCEPT ![a].proc = x] PROVE job'[Main] = job[Main]
      BY <1>1, <1>7, <3>1 DEF TypeOK
    <3>2. job'[Main] = job[Main] /\ todo' = todo
      BY <1>7, <3>1 DEF StopStep, Stop, ExitSeen, TermTimeout, KillTimeout, Stopped
    <3>. QED
      BY <1>1, <1>5, <1>7, <3>2
         DEF MainRests, StopStep, Stop, ExitSeen, TermTimeout, KillTimeout, history
  <2>2. pc[a] \in Granting
    BY <1>2 DEF Granting, RestartPC
  <2>. QED  BY <1>1, <1>2, <1>5, <2>1, <2>2, NothingSpent
<1>. QED  BY <1>6, <1>7

LEMMA LaunchesArePaid ==
  ASSUME Books, Paid, [Next]_vars, MainRests,
         (\E p \in Pid : WaiterStart(p)) \/ (\E a \in Worker : StartAgain(a))
  PROVE  Paid'
<1>1. TypeOK /\ waiter \in [Pid -> WaiterLabel]
  BY DEF Books, TypeOK
<1>2. ASSUME NEW p \in Pid, WaiterStart(p) PROVE Paid'
  <2>. DEFINE w == [waiter EXCEPT ![p] = "done"]
  <2>1. /\ w \in [Pid -> WaiterLabel] /\ w[p] = "done"
        /\ \A q \in Pid : w[q] = "start" => waiter[q] = "start"
    BY <1>1 DEF WaiterLabel
  <2>2. StartService(proc[p].owner, w) /\ pc' = pc /\ waiter[p] = "start"
    BY <1>2 DEF WaiterStart
  <2>. HIDE DEF w
  <2>3. /\ lastPid' <= lastPid + 1 /\ waiter'[p] # "start"
        /\ \A q \in Pid : waiter'[q] = "start" => waiter[q] = "start"
    BY <2>1, <2>2, StartServiceCost
  <2>. QED  BY <2>2, <2>3, GrantSpent
<1>3. ASSUME NEW a \in Worker, StartAgain(a) PROVE Paid'
  <2>1. StartService(job[a].svc, waiter) /\ Return(a) /\ pc[a] = "start"
    BY <1>3 DEF StartAgain
  <2>2. /\ lastPid' <= lastPid + 1
        /\ \A q \in Pid : waiter'[q] = "start" => waiter[q] = "start"
    BY <1>1, <2>1, StartServiceCost
  <2>3. pc'[a] \notin Granting /\ \A b \in Worker \ {a} : pc'[b] = pc[b]
    BY <1>1, <2>1, MovesFree
  <2>4. "start" \in Granting
    BY DEF Granting, RestartPC
  <2>. QED  BY <2>1, <2>2, <2>3, <2>4, GrantSpent
<1>. QED  BY <1>2, <1>3

\* main's own starts are the ones every service has for free.
LEMMA BootIsPaid ==
  ASSUME Books, Paid, [Next]_vars, Boot
  PROVE  Paid'
<1>1. TypeOK /\ Main \in Actor /\ waiter \in [Pid -> WaiterLabel] /\ \A a \in Worker : a # Main
  BY Workers DEF Books, TypeOK, Actor, Worker
<1>2. todo \in Seq(Service) /\ Len(todo) > 0 /\ Len(todo) \in Nat /\ todo # << >>
  BY <1>1, LenProperties, EmptySeq DEF Books, HasWork, Up, Boot, TypeOK
<1>3. StartService(Head(todo), waiter) /\ granted' = granted /\ pc[Main] = "boot"
  BY DEF Boot, limiterVars
<1>4. lastPid' <= lastPid + 1 /\ \A q \in Pid : waiter'[q] = "start" => waiter[q] = "start"
  BY <1>1, <1>3, StartServiceCost
<1>5. Unstarted = Len(todo) /\ Unstarted' \in Nat /\ Unstarted' <= Len(todo) - 1
  <2>1. CASE Len(todo) = 1
    <3>1. Goto(Main, "serve") /\ "serve" \in Label
      BY <2>1 DEF Boot, Label
    <3>2. pc'[Main] = "serve"
      BY <1>1, <3>1, GotoStep
    <3>. QED  BY <1>2, <1>3, <2>1, <3>2 DEF Unstarted
  <2>2. CASE Len(todo) # 1
    <3>1. todo' = Tail(todo) /\ pc' = pc
      BY <2>2 DEF Boot
    <3>2. Len(todo') = Len(todo) - 1
      BY <1>2, <3>1, HeadTailProperties
    <3>. QED  BY <1>2, <1>3, <3>1, <3>2 DEF Unstarted
  <2>. QED  BY <2>1, <2>2
<1>6. \A a \in Worker : pc'[a] \in Granting => pc[a] \in Granting
  <2>1. pc \in [Actor -> Label] /\ \A a \in Worker : a \in Actor
    BY <1>1, Workers DEF TypeOK, Worker
  <2>. QED  BY <1>1, <2>1 DEF Boot, Goto
<1>7. Starters' \subseteq Starters /\ Grantees' \subseteq Grantees
  BY <1>4, <1>6 DEF Starters, Grantees
<1>8. /\ Cardinality(Starters') <= Cardinality(Starters)
      /\ Cardinality(Grantees') <= Cardinality(Grantees)
  BY <1>7, Fewer, Numbers
<1>9. /\ lastPid \in Nat /\ lastPid' \in Nat /\ Len(Order) \in Nat
      /\ Cardinality(granted) \in Nat
      /\ Cardinality(Starters) \in Nat /\ Cardinality(Grantees) \in Nat
      /\ Cardinality(Starters') \in Nat /\ Cardinality(Grantees') \in Nat
  BY Numbers
<1>10. lastPid + Cardinality(Starters) + Cardinality(Grantees) + Len(todo)
         <= Len(Order) + Cardinality(granted)
  BY <1>5 DEF Paid
<1>11. lastPid' + Cardinality(Starters') + Cardinality(Grantees') + Unstarted'
         <= Len(Order) + Cardinality(granted)
  BY <1>2, <1>4, <1>5, <1>8, <1>9, <1>10, SMTT(60)
<1>. QED  BY <1>3, <1>11 DEF Paid

LEMMA PaidInit == Init => Paid
<1>. SUFFICES ASSUME Init PROVE Paid
  OBVIOUS
<1>1. Starters = {} /\ Grantees = {}
  BY Workers DEF Init, Starters, Grantees, Granting, RestartPC, Worker, Actor
<1>2. Cardinality(Starters) = 0 /\ Cardinality(Grantees) = 0 /\ Cardinality(granted) = 0
  BY <1>1, FS_EmptySet DEF Init, LimiterInit
<1>3. lastPid = 0 /\ Unstarted = Len(Order) /\ Len(Order) \in Nat
  BY DaemonAssumption, LenProperties DEF Init, Unstarted, Actor, DaemonAssumption
<1>. QED  BY <1>2, <1>3 DEF Paid

LEMMA PaidStep == Books /\ Paid /\ [Next]_vars => Paid'
<1>. SUFFICES ASSUME Books, Paid, [Next]_vars PROVE Paid'
  OBVIOUS
<1>1. TypeOK /\ Main \in Actor /\ \A a \in Worker : a \in Actor /\ a # Main
  BY Workers DEF Books, Actor, Worker
<1>2. CASE StopStep(Main)
  BY <1>1, <1>2, StopIsPaid
<1>3. CASE BeginShutdown
  <2>1. Goto(Main, "stop") /\ "stop" \in Label /\ UNCHANGED <<waiter, lastPid>>
    BY <1>3 DEF BeginShutdown, Label, RestartPC, children
  <2>2. pc'[Main] = "stop" /\ \A a \in Worker : pc'[a] = pc[a]
    BY <1>1, <2>1, GotoStep
  <2>. QED  BY <2>1, <2>2, NothingSpent
<1>4. CASE Boot
  BY <1>4, BootIsPaid
<1>5. CASE MainRests
  <2>1. CASE UNCHANGED vars \/ Pass
    <3>1. UNCHANGED <<waiter, lastPid, pc>>
      BY <2>1 DEF vars, Pass, children
    <3>. QED  BY <1>5, <3>1, NothingSpent
  <2>2. ASSUME NEW p \in Pid, ProcessExit(p) \/ WaiterStep(p) \/ Heartbeat(p) PROVE Paid'
    BY <1>5, <2>2, ChildrenArePaid, LaunchesArePaid DEF WaiterStep
  <2>3. ASSUME NEW r \in Requester,
               (\E p \in Pid : Receive(r, p)) \/ CheckSender(r) \/ RestartDocker(r)
        PROVE  Paid'
    BY <1>5, <2>3, RequestsArePaid
  <2>4. ASSUME NEW a \in Worker, RestartStep(a) PROVE Paid'
    BY <1>5, <2>4, RequestsArePaid, AllowIsPaid, LaunchesArePaid DEF RestartStep
  <2>5. ASSUME NEW a \in Actor, StopStep(a) PROVE Paid'
    BY <2>5, StopIsPaid
  <2>6. CASE WatchdogStep
    BY <1>5, <2>6, RequestsArePaid
  <2>. QED
    BY <1>3, <1>4, <2>1, <2>2, <2>3, <2>4, <2>5, <2>6 DEF Next, Worker
<1>. QED  BY <1>1, <1>2, <1>3, <1>4, <1>5, OthersLeaveMain

\* Every process beyond the first of each service costs a grant of the rate
\* limiter, and no grant is spent twice, whichever path restarts.
THEOREM EveryRestartIsPaid == Spec => []LaunchesArePaidFor
<1>1. Init => Books /\ Paid
  BY BooksInit, PaidInit
<1>2. (Books /\ Paid) /\ [Next]_vars => (Books /\ Paid)'
  BY BooksStep, PaidStep
<1>3. Books /\ Paid => LaunchesArePaidFor
  <2>. SUFFICES ASSUME Books, Paid PROVE LaunchesArePaidFor
    OBVIOUS
  <2>1. Holders = Cardinality(Starters) + Cardinality(Grantees)
    BY DEF Holders, Starters, Grantees, Worker, Granting
  <2>2. /\ lastPid \in Nat /\ Len(Order) \in Nat /\ Cardinality(granted) \in Nat
        /\ Len(todo) \in Nat
    <3>1. lastPid \in Nat /\ todo \in Seq(Service) /\ Order \in Seq(Service)
      BY DaemonAssumption DEF Books, TypeOK, DaemonAssumption
    <3>. QED  BY <3>1, LenProperties, NewGrantIsNew DEF Books
  <2>3. Cardinality(Starters) \in Nat /\ Cardinality(Grantees) \in Nat
    BY FinitelyMany DEF Starters, Grantees
  <2>4. Unstarted \in Nat
    BY <2>2 DEF Unstarted
  <2>5. lastPid + (Cardinality(Starters) + Cardinality(Grantees)) <= Len(Order) + Cardinality(granted)
    BY <2>2, <2>3, <2>4, SMTT(60) DEF Paid
  <2>. QED  BY <2>1, <2>5 DEF LaunchesArePaidFor
<1>. QED  BY <1>1, <1>2, <1>3, PTL DEF Spec
=============================================================================
