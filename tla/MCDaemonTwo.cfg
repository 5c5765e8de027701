\* Both services under one budget of one restart in two instants, the watchdog at work.
CONSTANTS
  agent = agent
  monitor = monitor
  Service = {agent, monitor}
  Order <- BothServices
  Requester = {}
  Main = main
  Watchdog = watchdog
  Limit = 1
  Window = 1
  MaxTime = 2
  HeartbeatTimeout = 0
  MaxNoHeartbeatRestart = 1
  MaxPid = 3
  MaySurviveKill = FALSE
SPECIFICATION Spec
INVARIANTS
  NoSilentLoss
  StopAllMissesNone
PROPERTIES
  LimiterSpec
\* The daemon stops on a signal; pids and the clock are bounded.
CHECK_DEADLOCK FALSE
