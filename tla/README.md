# Verification of XMP (xmp-v1-v2)

XMP is a server panel.  The administrator's side is an API server (`api/`, with
`electron/` as a desktop client) and a web interface (`vue/`).  On every managed
machine a supervisor daemon (`守护进程/`) keeps an agent (`node/`) and a
monitoring probe (`监控探针/`) running; `xcc-lite/` is an optional reverse proxy
with protection against request floods.

This directory holds TLA+ modules translated from that code, TLC runs that check
them on small instances, and proofs that TLAPS checks for every value of the
constants.  `PROJECT.json` lists components, runs, mutants, hazards, findings and
theorems, and maps every definition to the lines it models.

Contents: 1 inventory, 2 plan, 3 modules, 4 runs, 5 fairness, 6 proofs,
7 disagreements found, 8 limits.

## 1. Inventory

### Parts, state, operations

| part | source | state | operations |
|---|---|---|---|
| supervisor daemon | `守护进程/main.go` | table of services (running, stopping, pid, last heartbeat), restart budget, shutdown flag; one goroutine per child, per request, a heartbeat monitor, main | start, restart on exit, restart on request, restart on silence, restart Docker, stop all on a signal |
| agent: tasks | `node/function/basic/task-manager.js` | a map, one JSON file per task, the running functions | create, execute, report, end, delete, expire, reload at start |
| agent: schedule | `node/function/schedule/runner.js` | `runner.lock`, local variables of every run, alignment timer | tick, run by hand, back up, wait, upload, ask for a restart |
| agent: backups | `node/function/backup/`, `mysql/backup.js`, `s3oss/` | archives on disk, objects in a bucket | create, list, delete, local and remote retention, restore |
| agent: container upgrades | `node/function/docker/core/container-upgrader.js` | containers of the Docker engine, tasks | stop, create, start, remove, rename, roll back |
| agent: other containers | `node/function/docker/` | containers, images, networks | create, force delete, clean up, pull |
| agent: sites | `node/function/website/` | `sites.json`, nginx configurations, certificates, the running OpenResty | create, update, delete, refresh, reload, issue |
| agent: databases, PHP | `node/function/mysql`, `redis`, `php` | configuration files, servers in containers | command lines, SQL |
| agent: files, terminal | `node/function/file`, `node/router/ws.js` | chunks of uploads, sockets | upload, merge, move, compress; open, pause, close |
| API: login | `api/function/basic/login`, `robot` | one session token, one captcha, attempts | log in, check, expire |
| API: stores | `api/function/node`, `setpanel`, `matters`, `ssh-templates`, `xcc` | one JSON file each, the certificate authority of the nodes | read, change, write |
| API: forwarding | `api/function/forward` | none besides the streams | forward a request to a node over mTLS |
| xcc-lite: gates | `xcc-lite/cc`, `acl` | counters per address and domain, holds, sessions, verifications, lists | count, challenge, verify, ban |
| xcc-lite: cache, statistics | `xcc-lite/proxy`, `stats` | files named by key and expiry; sharded counters, SQLite | look up, store, clean; add, flush |
| probe | `监控探针/` | one row per five minutes | sample, keep the maximum, delete after seven days |
| web interface, scripts | `vue/`, `软件商店相关/`, `其余内容/` | presentation; installation | |

### How they meet

- The daemon starts agent and probe as children; they send one-line JSON requests
  (`heartbeat`, `restart-self`, `restart-docker`) over `daemon.sock`.  A restart of
  the agent is a SIGTERM, and SIGKILL 30 s later, so every other part of the agent
  can be cut off at any await.
- Everything long in the agent (backups, uploads, upgrades, pulls, restores) is a
  function run by the task manager; routers and the schedule poll its status.
- The schedule calls backup managers and the uploader, and asks the daemon for a
  restart when it finds an old lock.  What a backup is called is decided in the
  managers and read again by listings, sorting and the retention of the uploader.
- Upgrades, backups and forced deletions share the containers of one engine
  without a common lock.
- The API server talks to agents by forwarding requests; it shares no state with them.

### What is hard, and what makes each part correct

- **Daemon**: exits, requests, the watchdog and shutdown race, and `pm.mu` is
  released between deciding and acting.  Correct: never two instances of a
  service; none lost without a reason; no restart outside the budget; shutdown
  ends and misses no child.
- **Tasks**: functions outlive the deletion of their task, writes fail silently,
  the process dies.  Correct: what is shown as running runs, what is shown as
  completed completed, a deleted task stays deleted, an ended one stays ended.
- **Schedule**: lock, timer and runs are asynchronous and cut off by restarts.
  Correct: success is logged for real successes, locks do not leak, runs end, a
  stale lock does not stop the schedule, runs do not overlap.
- **Retention**: three writers and three readers of one naming scheme.  Correct:
  copies stay bounded, the newest survive, each folder of the store keeps its newest
  uploads.
- **Upgrades**: six calls that may each fail, with a roll-back; restarts in between.
  Correct: the application always has a container, one upgrade at a time, no
  second container stays, the name survives, the interruption is brief.
- **Sites, JSON stores**: read, await, write.  Correct: no change undone by a request
  that did not overlap it; list, configurations and the running server agree.
- **Certificates of the nodes**: four files, emptied and filled one by one, read at
  any time.  Correct: they belong together, a connection fails only for a cause, the
  certificate does not run out, what went wrong in a renewal is made good.
- **Uploads**: chunks, a merge, lost answers, repeats.  Correct: what the dialogue
  calls uploaded is the file; it fails only for a cause; nothing is left behind.
- **Cache**: writers, readers and a clean-up share files.  Correct: a client accepts
  only complete and fresh answers of the origin; a hit breaks off only for a cause.
- **Gates**: fixed windows, expiring records.  Correct: banned only after a challenge
  was ignored.  **Statistics, probe**: what is counted is written once.

Hazards are listed in `PROJECT.json`, each at its line.  Noted in parts that have no
module: the timer that resumes a paused terminal stream and survives its session
(`ws.js:79`); the map from download requests to tasks (`folder-download-helper.js:46`);
one captcha for all pages (`robot/storage.js:6`); sessions of a domain's hold that are
never removed and count again in the next one (`cc/domainmw.go:71`); verification
records taken by either gate (`cc/domainmw.go:59`); counters lost by a failed flush
(`stats/aggregator.go:157`); configuration files removed before new ones are written
(`admin/server.go:179`); unsigned differences of interface counters that restart
(`monitor.go:95`); a restore whose archiver's exit status nobody reads
(`website-restore-manager.js:85`).

## 2. Plan

| step | modules | abstract specification or composition | state |
|---|---|---|---|
| 1 | `RateLimiter`, `Daemon` | the daemon implements `LimiterSpec` | modelled; safety and refinement proved |
| 2 | `TaskManager`, `ScheduleRunner`, `BackupRetention` | the schedule runs on top of the tasks (EXTENDS) | modelled; safety proved |
| 3 | `ContainerUpgrade` | upgrades on top of the tasks (EXTENDS) | modelled; safety proved |
| 4 | `Sites` | list, configurations and the running OpenResty | modelled; safety proved |
| 5 | `NodeList` | the list as the answered changes make it | modelled; safety proved |
| 6 | `FreshCache`, `DiskCache` | `DiskCache` implements `FreshCache` | modelled; safety and refinement proved |
| 7 | `ControllerCA` | writers, readers and the process that lives in between | modelled; safety proved |
| 8 | `ChunkUpload` | browser, panel and agent | modelled; safety proved |

"Safety proved" means that every invariant and every action property of the component's
runs is a theorem for all values of the constants, or, for three of the retention's, for
the kinds of target of which it is true (section 6).  What the runs check beyond that is
the liveness of `daemon_live`, `schedule_live` and `ca`.

## 3. Modules

Names follow the source.  A definition whose name says what is wrong with it
(`LaunchStillStopping`, `UndoRemoveNot`, ...) stands before the definition it is a
plausible mistake of; it is not part of the specification.  Variables marked
"history" record what the code forgets, for the properties alone.

### RateLimiter (main.go 130-167)

`counts` is the slice of granted instants, with an ordinal because a slice may
hold one instant twice.  `Allowed` and `Denied` are the two outcomes of
`Allow()`, each with the pruning that comes first.  `clock` is `time.Now()`.

### Daemon (main.go 169-544, 643-745)

One action is one critical section of `pm.mu`, one `Allow()`, or one wait.

| code | model |
|---|---|
| `pm.services`, `pm.shuttingDown` | `svc`, `shuttingDown` |
| a child, its `exitCh` and its waiting goroutine | `proc[p]`, `waiter[p]`; pids are given out in order |
| goroutine of a request, monitor, main | `pc[a]`, `job[a]` |
| `StartService`, `HandleExit` | `StartService`, `WaiterReap`, `WaiterAllow`, `WaiterStart` |
| `RestartRequest`, `stopService` | `AllowRestart`, `CheckPid`, `Branch`, `Stop`, `ExitSeen`, `TermTimeout`, `KillTimeout`, `StartAgain` |
| `StartHeartbeatMonitor`, `restartIfNoHeartbeat` | `HeartbeatCheck`, `PickSilent`, `Attempt`, `After`, `GiveUp` |
| `main` | `Boot`, `BeginShutdown`, and `Stop` ... with `a = Main` for `StopAll` |

A timeout may fire whenever its wait goes on: 30 s and 5 s are long or short
depending on the child.  `MaySurviveKill = FALSE` says SIGKILL works in time.

### TaskManager, ContainerUpgrade

JavaScript runs one segment at a time, so an action is one segment and only a
crash comes between.  In `TaskManager` `tasks`, `disk` and `fn` are the map, the
files and the functions; `Quiet` says that `createTask` and `executeTask` are one
segment.  A failing write leaves the old file, the new one or a torn one.

`ContainerUpgrade` EXTENDS it.  `step[t]` is the await the function of upgrade
`t` is at, `con` what the engine holds, `name` who has the application's name.
The container an upgrade creates is called like its task.  Each call of the
engine and what the code does with its answer is one action; the roll-back is
`UndoStop`, `UndoRemove`, `UndoStart`.  Upgrades may be asked for on any
container there is, their tasks deleted, the agent killed at every point.

### ScheduleRunner, BackupRetention

`ScheduleRunner` EXTENDS `TaskManager`: `runs[r]` holds the local variables of
one invocation of `runScheduleSlot`, `lock` is `runner.lock`, `timer` the
alignment of `startScheduleRunner`.  A run finds any number of blocks in the plan,
since the user may edit it at any time.

`BackupRetention` is about names.  It takes one target, the blocks for it (`Blocks`) and
blocks for other targets of its kind (`Others`).  A backup has an owner, `by`, and what
its name says behind `sched-`, `name`: a block's id, or what a user typed (`Typed`, where
`Plain` stands for names that begin otherwise).  The code sees only the name; the
properties compare it with the owner.  `Scheduled`, `Before`, `ObjectKey` and `TimeOf`
say what filter, sort, upload and remote retention make of the names of each kind of
backup.  `Folder` is the bucket and the prefix of a block's uploads: the code builds the
prefix from the sanitised, shortened name of the block (runner.js:114-116), so blocks
may share one, also with blocks of other targets (`BeginElsewhere`), and `Trim` lists
all that is in it.

### Sites

`rec` is `sites.json`, `conf` the configuration files, `loaded` what OpenResty read last.
A request keeps the list it read from its first action to its last; `Create`, `Delete`
write it back; `RefreshFromConfigs` keeps the records there are and adds the missing ones.
A restart may fall between the two writes of a creation, a deletion or an update.  `raced`
remembers the sites whose changes overlapped or were cut in two.

### NodeList

`disk` holds `nodes.json` and its `.tmp`; a request goes through `ensureStore`,
`readStore` and `writeStore` call by call.  Opening a file for writing empties it, a
descriptor follows its file through a rename, and a write through an older descriptor
may leave the end of a longer text behind it (`Laid`).  `kept` is the list the answered
changes should have made.

### ControllerCA

A key is a number and a certificate the pair of the key it is for and the key it was
signed with (`Pem`).  `files` are the four files, `left` the hours of the client's
certificate on disk and `caLeft` those of the authority (`Threshold` stands for more too),
`jobs` the requests and the hourly watcher, `nodes` what the nodes were given and whether
it has come to its end (`NodeCertEnds`).  An action is one read, one emptying or one
filling; a request begins with its first read, and `Hour` is the only one that takes
time.  `ShouldRenew` compares the hours left, as `getCertExpiry` does; `RenewReadsCert`
replaces an authority that has less than `Threshold` hours.  `calm` and `broken` remember
who was disturbed.

### FreshCache, DiskCache

An entry is `body[e]`, the pieces in the file that expires at `e`, and `meta[e]`, the
length beside it.  `Put`, `WriteMeta`, `Tee`, `Close` are a store; `Find`, `ReadMeta`,
`Copy` a look-up; `RemoveBody` and `RemoveMeta` the clean-up and the clearing of a
domain.  A request may carry a Range header (`ranged`), to which the origin may answer with
a `Part`; a part is stored and found like any answer, since the key has no range.
`FreshCache` says what the cache promises in three sentences; `DiskCache`
implements it with the versions of the accepted pieces for `got`.

### ChunkUpload

`client[f]` is the dialogue of a file, `text[f]` what the file holds, `job[j]` a request
the agent works on, `target` what the merge writes.  The agent receives every chunk as one
file (`Slot`), because the form sends the chunk before the fields that name its place, and
keeps it under the hash of the whole content: dialogues on one text share their chunks, and
`Clear`, `UnlinkOne` remove them whoever sent them.  `Lose` is the panel's timeout: the
browser is told of an error while the agent goes on.  `StoreFails` and `MergeFails` are
the file calls that may fail.  `lost` remembers who met such a failure, and of which kind;
`met` who shared the slot with another upload or was at work on one text with it.

### MC modules

Each `MC` module EXTENDS its specification and adds only values for sequence- and
function-valued constants, and symmetry sets.

### Proof modules

| module | proves about |
|---|---|
| `DaemonProofs` | `RateLimiter` and `Daemon` |
| `TaskManagerProofs`, `ScheduleProofs`, `UpgradeProofs` | `TaskManager` and the two modules on top of it, whose proofs use its step lemma |
| `SitesAndBackupsProofs` | `Sites` and `BackupRetention` |
| `ControllerProofs` | `NodeList` and `ControllerCA` |
| `CacheProofs` | `DiskCache` and its refinement of `FreshCache` |
| `UploadProofs` | `ChunkUpload` |

Two of them hold the proofs about two specifications, which is why `Sites` and `NodeList`
name their parts `SitesInit`, `SitesNext`, `SitesSpec` and `NodesInit`, `NodesNext`,
`NodesSpec`.

## 4. Runs

Every property of a passing run has a mutant in `PROJECT.json`: a plausible bug
in a mapped definition under which the same run finds the property violated.

| run | asks | instance and why it is enough |
|---|---|---|
| `daemon_live` | `OneLiveProcess`, `LaunchesArePaidFor`; shutdown and requests end, a service that is down is repaired | one service (services share only the budget) with every goroutine at work: one request, three processes (first, replaced, relaunched), a child that may outlive SIGKILL, two instants so that heartbeats time out |
| `daemon_two` | `NoSilentLoss`, `StopAllMissesNone`; `Daemon` implements `LimiterSpec` | both services, one grant in two instants, three instants: a grant is seen at both edges of the window and outside it; three processes, so each service can be the one that finds the budget spent |
| `upgrade` | tasks: `TasksAreTrue`; upgrades: `AppSurvives`, `OneUpgrade`, `EndsClean`, `NameKept` | two upgrades: of one container, or the second of the container the first has made; engine and file system may refuse anything, any number of restarts |
| `schedule` | `NoLeakedLock`, `SuccessIsReal`, `FunctionsAreWatched` | two runs, two tasks in all, plans of up to two blocks, one crash beside the restarts the schedule asks for: a run can abandon a task, another find its lock |
| `schedule_live` | `RunsEnd`, `StaleLockGoes` | one run, two tasks, one crash |
| `retain_site` | `LocalBounded`, `NewestLocalKept`, `FolderHistoryKept` for sites | two blocks that keep two copies and one on disk, two and three in the store, and a block of another site, all with one folder; the user types names like a block's; six backups: more than fit, of every owner |
| `sites` | `RecordsMatchConfs`, `LoadedIsCurrent` | two sites, so that a request can damage the other one; two configurations; two requests at a time; restarts and failing reloads without bound |
| `nodes` | `ListIsSerial` | two requests, so that any call of one falls between any two of the other; two identifiers, so that a list can be longer or shorter than another; crashes without bound |
| `cache` | `AnswersAreComplete`, `BreaksHaveCauses`; `DiskCache` implements `FreshCache` | two requests with or without a range, a part of one piece and a whole of two, two instants with a time to live of one: an entry is stored, hit, expires and is stored again while the clean-up is at work |
| `ca` | `FilesBelongTogether`, `FailuresHaveCauses`, `RenewalHeals` | one node, one request beside the watcher, a certificate of three hours renewed below two: a pass may find it fresh or due, and an authority of two hours that is kept at a renewal ends before the next; five keys in use at a time, enough for the files, one writer's new ones and a node's old ones |
| `upload` | `CompletedIsWhole`, `FailuresHaveCauses`, `NothingLeft` | two files of one text or of two, of two chunks each, two requests at a time, one failure, of any kind: the repeat overlaps what it repeats |

A type invariant is checked beside these in `upgrade`, `sites`, `nodes`, `cache`, `ca` and
`upload`; those of the others are part of their inductive invariants.  One run,
`daemon_orphan`, ends in a violation; section 7 explains it.

Bounds, all named constants: `MaxTime` (clock), `MaxPid` (processes ever), `Requester`
(requests at a time), `TaskId` (tasks ever), `Run` (invocations at a time), `MaxBlocks`,
`MaxCrashes`, `MaxStamp` (backups ever), `Request`, `Caller`, `Job`, `Client` (requests
at a time), `MaxLength` (pieces of a cached answer), `Keys` (keys in use at a time),
`MaxLost` (files and kinds of failures that befall them), `MaxNow` (the cache's
clock). The models of the daemon and the retention end when these are used up and that
of the uploads when all are done, hence CHECK_DEADLOCK FALSE there; the others are
checked for deadlock. In `ControllerCA` what the watcher does and what is being written
ends within its hour. Symmetry is
used only for requests, tasks, runs, sites, nodes and the like, which the specifications
never compare or order, and never together with a liveness property.

## 5. Fairness

`daemon_live` uses `FairSpec` of `Daemon`: weak fairness of every goroutine's
own steps (the Go scheduler runs what can run; timers fire, so `TermTimeout` and
`KillTimeout` are among them) and none of children, requests, signals or heartbeats.
`schedule_live` uses `FairSpec` of `ScheduleRunner`: the interval timer goes on
firing, the event loop serves what is pending, a wait for a task ends after two
hours at the latest (`Abandon` is an alternative of `BackupOver` and `UploadOver`),
a process that was sent a signal dies, and the daemon starts it again.  No task
function need ever end.  Deaths that nobody asked for are bounded by `MaxCrashes`,
since an agent that dies forever keeps no promise.

`ca` uses `FairSpec` of `ControllerCA`: weak fairness of `Watch`, which is to say that hours
pass (the interval timer, node-ca.js:328) and that the watcher goes on with what it has
begun (the event loop serves what is pending).  Nothing is assumed of requests,
regenerations, crashes or starts, nor that a request ever ends; `RenewalHeals` speaks of
behaviours in which these leave the process and the authority alone in the end.

## 6. Proofs

Each theorem holds for all values of the constants that satisfy the module's
named ASSUME; TLC evaluates those on the runs' values.  Apart from types and ranges they
say that model values differ from each other, and that the daemon handles finitely many
requests at a time (`IsFiniteSet(Requester)`, needed to count them).  The bounds of the
runs (`MaxTime`, `MaxCrashes`, `Keys`, ...) are arbitrary numbers in the theorems.

Where an inductive invariant is more than the properties themselves, it follows one
pattern: it says of every point at which a request, a goroutine or a process may stand
what is then true of the shared state, so that any step of another one can be checked
against it.

- **The limiter** (`WindowHolds`, `MemoryHolds`).  That the slice is bounded says
  nothing about windows that begin at any instant.  The inductive invariant
  `LimiterInv` says that the slice holds exactly the grants of the last window
  and that every window so far is within the limit; a new grant counts only in
  windows that end now.
- **The daemon** (`TypeCorrect`, `OneInstance`).  `OneLiveProcess` is not inductive:
  the mutex is released between stopping and starting.  `Supervised` strengthens it:
  a live child still has its waiter, a child with its waiter is the one its
  service records, and a service recorded as running has such a child.  A service is
  therefore launched only when its last child was reaped.  `HasWork` keeps main's
  list non-empty while it runs.  `BooksStep` has one lemma per group of actions.
- **Its shutdown** (`ShutdownIsThorough`).  `StopAllInv`: a child that ran when the
  shutdown began and was not sent SIGKILL belongs to a service still on main's list, and
  the one that belongs to the head of the list is the process main waits for.
- **No service is forgotten** (`NoServiceIsForgotten`).  An exit that was asked for
  restarts nothing, so whoever asked must still be there.  `StopsAreHeld`: the mark
  `stopping` of a running service belongs to a request that waits for this very
  process, unless the service was given up.
- **Every restart is paid for** (`EveryRestartIsPaid`).  `Paid` balances the accounts:
  processes started, waiters and requests that hold a grant, and first starts to come
  are together no more than the services and the grants.
- **Refinement** (`DaemonImplementsLimiter`, `DaemonKeepsWindow`): every step of
  the daemon is a step of `LimiterNext` or leaves its variables alone, so the
  theorems about the limiter carry over to the daemon.
- **Tasks** (`TasksAreSafe`, `TasksTellTheTruth` for the run's `TasksAreTrue`, and four
  more corollaries).  `Opened`, `Ours` and `Halted`
  say how map, functions and histories belong together; they make the effect of a
  late callback visible in the state.  Schedule and upgrades implement `TasksSpec`
  (`ScheduleImplementsTasks`, `UpgradesImplementTasks`), so what is proved of tasks holds
  for theirs.
- **Schedule** (`SuccessesAreReal`, `LocksAreOwned`, `FunctionsHaveWaiters`), for any
  number of runs, tasks, blocks and crashes, and for file systems that fail
  (`SaveMayFail = TRUE`), which no run of the schedule covers.  The tasks' step lemma is
  used as it is: every step of the schedule is a step of the tasks or none.  `WatchInv`
  adds that a run holds only the tasks it waits for and that those were used, so that a
  task just created is nobody else's.
- **Retention** (`RetentionKeepsNewest`, `LocalCopiesAreFew`, `NewestUploadsStay` for the
  run's `FolderHistoryKept`).  `Ordered` says that seconds increase and that the backup a
  block prunes for was made; only names with `sched-` written since can come before it in
  the sorted list.  Of a folder it is shown that no trimming takes an upload which is among
  the newest for every block that trims there, whichever blocks and targets share it.  The
  three name the kinds of target in their hypotheses, and the code is the reason: the names of a container's backups sort by the block's id first, so the newest
  may go; the names of a database's are not recognised, so none ever goes; only the
  objects of a site carry a time that is read back.  Section 7 lists the violations for the
  other kinds.  `LocalCopiesAreFew` also needs that files can be deleted.
- **Upgrades** (`ApplicationSurvives`, `OneUpgradeAtATime`, `UpgradesEndClean`,
  `NamesAreKept`).  Upgrades form chains: the container one has made may be replaced by
  the next.  That the application has a container is therefore stated for every set
  that contains, with a container, all that was made to replace it (`Closed`): a
  set with the first container in it holds one which exists and which no upgrade will
  take back (`Survivor`), and before a container is removed there is an heir in every such
  set (`Heirs`).  `NoCycle` says that nothing descends from its own replacement.
- **Sites** (`RecordsAndConfsAgree`, `ServedIsConfigured`).  `SitesInv`: for the sites
  nobody raced for, the list every request holds is the one on disk, the configuration is
  the record's except between the two halves of a deletion, and what OpenResty has loaded
  differs from the configurations only where a reload is still to come.
- **Node list** (`NodesAreSerial`).  While no two changes overlapped there is at most one
  request that changes the list; what it is about to write is its change of the list as
  it stands, and only it has `.tmp` open (`ChangeFollows`).  All other requests that have a
  file open write an empty list where there was none (`StartsFromNothing`).
- **Node certificates** (`CAFilesBelong`, `CAFailuresHaveCauses`).  `CAInv` says of a job
  that writes that the files would belong together once its remaining ones are filled
  (`Whole`), that a writer nobody disturbed is the only one, and unless `broken` all are
  such (`Alone`), that a job nobody disturbed has read what the files hold (`JobReads`),
  that the authority a node knows, if it was not replaced since, is the one on disk
  (`NodesKnow`), and that the certificate has time to spare until the next pass
  (`Lasting`).  That new keys are fresh is not needed for safety.  The end of a node's
  certificate and of the authority are causes in the property, since the code prevents
  neither (section 7); that the client's own lasts is proved.
- **Cache** (`HitsAreComplete`, `BreaksAreExplained`, and the refinement `CacheIsFresh`).
  `CacheInv` speaks of a file by the number of stores that ever opened it: with none it is
  not there; with one it holds a beginning of the version stored, which was seen at most
  `Ttl` before its expiry; with more nothing is said, and the properties say nothing
  either.  A look-up asked before the expiry of the file it found (`LookupsOK`), so
  every step that accepts an answer is the step `FreshCache` allows.  A part is a version
  like the others here; that it may answer a request for the whole is in section 7.
- **Uploads** (`UploadedIsWhole`, `UploadsFailForCauses`, `UploadsCleanUp`).  `UploadInv`
  has five layers, each proved with the ones before: which request a dialogue waits for
  (`Books`); that of the dialogues on one text at most one is at work undisturbed
  (`Alone`); what lies in the slot and in the places of the chunks (`Stored`); how far a
  merge has come (`Mergeable`); that an undisturbed upload has the chunks it has sent, and
  only those (`Present`).

Only model-checked: the liveness properties, since fairness and ENABLED are beyond the
prover: `ShutdownCompletes`, `RequestsEnd`, `DownIsRepaired` (`daemon_live`), `RunsEnd`,
`StaleLockGoes` (`schedule_live`) and `RenewalHeals` (`ca`); and the violations of section 7.
No module of the project declares a recursive operator.

## 7. Where the code and what is said of it part

Listed as a finding, with the run `daemon_orphan`: a restart granted before the signal
launches a child after `StopAll` has passed its service; the comment at main.go:363
exists to rule that out.

Stated in the modules, violated by the code, and left out of the runs.  To
see one, check the invariant named (`PartsAreAskedFor` is a PROPERTY) with the constants
given, others as in the run of that component.  The rows about the retention all take
`Others = {}`, `Folders = {"name"}`, `Folder <- OneFolder`, `RemoteCopies <- SendTwo`,
`LocalCopies <- KeepTwo` and `Typed = {0}` unless they say otherwise:

| property | instance | code | what is said |
|---|---|---|---|
| `RestartHitsSender` | `daemon_orphan`'s, `MaxPid = 3` | main.go:412-424: the process may be replaced between the check and the stop | `node/function/basic/daemon-client.js:117` the daemon checks that service and pid match (守护进程会校验service与pid匹配) |
| `SilentRestartsBounded` | `Requester = {}`, `Limit = 1`, `MaxTime = 3`, `MaxPid = 4` | main.go:227, 265: the attempt counter begins again on every pass | main.go:229: the log says restarts for silence stop after so many attempts |
| `OneRunAtATime` | `schedule`'s, without crashes | runner.js:189: the lock is tested and written with an await in between | runner.js:20 the lock is the mark of an unfinished slot |
| `BriefInterruption` | `TaskId = {t1}`, `SaveMayFail`, `EngineMayFail` and `MayDie` all FALSE | container-upgrader.js:204: a busy port or a missing network ends an upgrade after the application was stopped and outside of the try that would start it again | AppUpgradeModal.vue:69 升级会导致业务短暂中断 |
| `BlocksInTurn` | `Run = {r1}`, `MaxBlocks = 2`, no crash | runner.js:80: the wait may end before the backup does, which goes on beside the next block | runner.js:22 按当前槽位依次执行任务块; ScheduledTasks.vue:27 每个时间槽最长执行 2 小时，超时的任务块会被强制终止 |
| `OneSlotMissed` | `Run = {r1}`, `MaxBlocks = 1` | runner.js:460-465: alignment costs two slots | runner.js:457 only the alignment runs no plan |
| `LocalBounded` | `Kind = "database"`, `OneBlock` | mysql/backup.js:71 writes `sched_db_`, runner.js:376 looks for `sched-`: nothing is ever pruned | TaskEditorModal.vue:52 本地保留份数 |
| `NewestLocalKept` | `Kind = "container"`, `TwoBlocks`, `KeepTwoOne` | runner.js:335 sorts names, which begin with the block's id | TaskEditorModal.vue:52 |
| `OwnCopiesKept` | `Kind = "website"`, `TwoBlocks`, `KeepTwoOne` | runner.js:278 prunes the copies of all blocks with the number of one | TaskEditorModal.vue:52 |
| `ManualKept` | `Kind = "website"` or `"container"`, `OneBlock`, `Typed = {0, 1}` | runner.js:278, 335: a backup made by hand under a name that begins with `sched-` (router/backup.js:130 takes any) is pruned with the block's | the retention is the schedule's: TaskEditorModal.vue:52 |
| `RemoteHistoryKept`, `FolderHistoryKept` | `Kind = "database"`, `OneBlock` | s3-upload-task.js:75 reads the time of a dump as zero: the oldest dumps are kept | TaskEditorModal.vue:64 远端保留份数 |
| `RemoteHistoryKept`, `FolderHistoryKept` | `Kind = "container"`, `OneBlock` | runner.js:348: every object is called `data.tgz` | TaskEditorModal.vue:64 |
| `RemoteHistoryKept` | `Kind = "website"`, `TwoBlocks` | runner.js:114-116: blocks of one name, or whose names are cut to one, share a folder and trim each other's uploads | TaskEditorModal.vue:64 |
| `SuccessIsComplete` | `Kind = "website"`, `OneBlock`, `MaxStamp = 4` | website-backup-manager.js:122, 157, container-backup-manager.js:165, mysql/backup.js:143: an archiver's failure half-way is not noticed | runner.js:436 备份完成 |
| `RoomForNext` | `Kind = "website"`, `OneBlock`, `Limit = 2` | website-backup-manager.js:144: the limit of 30 is checked before pruning | TaskEditorModal.vue:53 up to 99 copies |
| `PartsAreAskedFor` | `cache`'s | cache.go:99, 194, 253: the 206 of a request with a range is kept without its Content-Range under the key of the whole, which a request without one then hits | xcc-lite keeps answers to give them to later requests for the same |

Two weaker observations: `NoSilentLoss` counts as reasons what the code does
(`excused`), among them a program that does not start, which nobody tries again;
and the unit installed by `其余内容/sh2/install.sh:344` restarts the daemon itself.

The newer modules state what holds and name in the property what is excused.  What
the excuses stand for, seen while modelling:

- Sites.  Two overlapping creations or deletions write back the list each has read, and
  one record is lost or comes back (manager.js:165, 206; `raced`).  A refresh forgets
  disabled sites, which have no configuration to be found by.  A deletion answered with
  404 has removed files and configuration without a reload (manager.js:207).  A reload
  reads all configurations at once, so one that names a deleted certificate makes every
  later reload fail (`synced`).  An agent that ends between the two writes of an update
  leaves a configuration its record does not know (manager.js:245, 266; `raced`).
- Nodes.  Two overlapping changes lose one another's change and share `nodes.json.tmp`:
  one may rename the file the other has just emptied, the next reader finds it
  unreadable and writes `[]` (dataTool.js:59), and the whole list is lost, though
  routes/node.js:52 answered 节点添加成功; the other's rename then fails although its
  data has landed (`raced`).  xcc/dataTool.js, matters/index.js and ssh-templates/index.js
  follow the same pattern.
- Node certificates.  Two regenerations, or one beside a renewal, mix two authorities
  (`broken`).  A crash while `client.crt` is emptied makes every later pass throw, so
  that nothing is renewed until somebody regenerates.  The renewal regenerates an
  authority near its end, and all nodes lose their trust, of which
  SecuritySetting.vue:12 warns only for the manual action.  A node's
  certificate ends after five years and nothing renews it (node-ca.js:12, 136; `ended`).  An
  authority with little more than the threshold of four hours left signs another
  certificate of twelve, and ends before that is renewed (260-267; `caLeft = 0`), from
  when on no connection succeeds.  After twelve hours down, the
  server listens with an expired certificate until the first pass ends
  (`status = "first"`).
- Cache.  A transfer that breaks off leaves a short entry, and every hit of it breaks off
  until it expires (`torn`).  Two stores of one second share a file (`stores`).  Parts are kept as
  wholes (`PartsAreAskedFor`, above).
- Uploads.  Every chunk is received as `temp/unknown/chunk_0`, so concurrent uploads may
  mix their contents (`met`).  Dialogues that send the same content keep their chunks
  in one directory (upload.js:39), which the first chunk of either clears and the merge of
  either empties, so the other fails (`met`).  A failing file call ends the request with an
  error; a request nobody waits for any more, whose copy of a chunk fails half-way, leaves a
  part in the place of the chunk that the repeat has stored (`lost`).  The comment at forward/index.js:148 announces 504 where
  the code answers 502.  Chunks of an abandoned upload stay for ever (`lost`).

## 8. Limits

- Not modelled in the daemon: log rotation, creation of users and directories, the
  repair of file permissions; reuse of pids; its own crash; signals during start.
- The engine's answers are reliable: a call that is reported as failed did
  nothing.  If the answer to a successful removal were lost, the roll-back of an
  upgrade would remove the new container too and `AppSurvives` would fail.
- Texts, progress values, log lines, formats of plans and configurations are left
  out where no property is about them.
- Blocks of one slot take turns in `BackupRetention`; that they may overlap is the
  subject of `ScheduleRunner` (`FunctionsAreWatched`, `BlocksInTurn`).
- In `BackupRetention` all blocks that share a folder are for targets of one kind: a block
  for another kind adds objects whose names carry no time and sort as the oldest.  The
  name of a dump never begins with `sched-`: buildBackupFileName leaves no hyphen in it.
- In `ChunkUpload` a removal that fails is ignored, as in the code (upload.js:45, 54, 107),
  but always succeeds; uploads have targets of their own, though two dialogues may name
  one; the agent does not restart.
- In `ControllerCA` the clocks of the controller and the nodes agree.
- Left out of the newer modules: failing calls of the file system in `Sites` and
  `NodeList`; the contents of configurations and the certificates of sites; answers of
  unknown length in the cache (kept only without a size limit, and then a short entry is
  not noticed) and HEAD requests, which have a key of their own and never hit; the
  check whether an upload's target exists, which is not repeated at the merge.
- Not modelled, the reason for each being in `PROJECT.json`: sequences of command lines or
  engine calls without state of their own (databases, PHP, other container operations,
  certificates of sites, restores); sequential code (login, object store settings, probe,
  server start, service managers); counters with thresholds (gates, statistics); streams
  whose state is in socket buffers (terminal); shell scripts and presentation.
