SPECIFICATION FairSpec
CONSTANTS
  Free = Free
  Orphaned = Orphaned
  LockTimeouts = FALSE
  MaxDeployments = 1
  Containers = {c1, c2}
  NoContainer = NoContainer
  Modes = {"recreate"}
  BadEnvs = {FALSE}
  Workers = {w1}
  MaxCrashes = 1
  MaxStalls = 0
  MaxAttempts = 1
  RestartFaults = FALSE
  Requests = {r1, r2}
  Ops = {"deploy", "stop"}
  EnqueueFaults = FALSE
  Passes = {k1}
  Flapping = TRUE
PROPERTIES JobsSettle StatusConverges
CHECK_DEADLOCK FALSE
