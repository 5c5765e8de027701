\* One service, a restart request and the watchdog: three processes, one grant an instant.
CONSTANTS
  agent = agent
  monitor = monitor
  Service = {agent}
  Order <- OneService
  Requester = {r1}
  Main = main
  Watchdog = watchdog
  Limit = 1
  Window = 0
  MaxTime = 1
  HeartbeatTimeout = 0
  MaxNoHeartbeatRestart = 2
  MaxPid = 3
  MaySurviveKill = TRUE
SPECIFICATION FairSpec
INVARIANTS
  OneLiveProcess
  LaunchesArePaidFor
PROPERTIES
  ShutdownCompletes
  RequestsEnd
  DownIsRepaired
\* The daemon stops on a signal; pids and the clock are bounded.
CHECK_DEADLOCK FALSE
