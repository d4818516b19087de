SPECIFICATION FairSpec
CONSTANTS
  Free = Free
  Orphaned = Orphaned
  LockTimeouts = FALSE
  MaxDeployments = 1
  Containers = {c1, c2}
  NoContainer = NoContainer
  Modes = {"rolling"}
  BadEnvs = {TRUE}
  Workers = {w1}
  MaxCrashes = 0
  MaxStalls = 1
  MaxAttempts = 1
  RestartFaults = FALSE
  Requests = {r1}
  Ops = {"deploy"}
  EnqueueFaults = FALSE
  Passes = {k1}
  Flapping = FALSE
PROPERTY DeployingEnds
CHECK_DEADLOCK FALSE
