\* SIGKILL always works, and still a child can outlive the daemon.
CONSTANTS
  agent = agent
  monitor = monitor
  Service = {agent}
  Order <- OneService
  Requester = {r1}
  Main = main
  Watchdog = watchdog
  Limit = 2
  Window = 0
  MaxTime = 0
  HeartbeatTimeout = 0
  MaxNoHeartbeatRestart = 2
  MaxPid = 3
  MaySurviveKill = FALSE
SPECIFICATION Spec
INVARIANTS
  NoChildOutlivesDaemon
\* The daemon stops on a signal; pids and the clock are bounded.
CHECK_DEADLOCK FALSE
