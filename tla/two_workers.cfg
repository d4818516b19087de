SPECIFICATION Spec
CONSTANTS
  Free = Free
  Orphaned = Orphaned
  LockTimeouts = FALSE
  MaxDeployments = 2
  Containers = {c1, c2, c3}
  NoContainer = NoContainer
  Modes = {"rolling"}
  BadEnvs = {FALSE}
  Workers = {w1, w2}
  MaxCrashes = 0
  MaxStalls = 1
  MaxAttempts = 1
  RestartFaults = FALSE
  Requests = {r1, r2}
  Ops = {"deploy"}
  EnqueueFaults = FALSE
  Passes = {}
  Flapping = FALSE
PROPERTY ZeroDowntime
CHECK_DEADLOCK FALSE
