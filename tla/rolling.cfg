SPECIFICATION Spec
CONSTANTS
  Free = Free
  Orphaned = Orphaned
  LockTimeouts = FALSE
  MaxDeployments = 2
  Containers = {c1, c2, c3}
  NoContainer = NoContainer
  Modes = {"rolling", "recreate"}
  BadEnvs = {FALSE}
  Workers = {w1}
  MaxCrashes = 1
  MaxStalls = 1
  MaxAttempts = 2
  RestartFaults = FALSE
  Requests = {r1, r2}
  Ops = {"deploy"}
  EnqueueFaults = FALSE
  Passes = {}
  Flapping = FALSE
SYMMETRY RequestSymmetry
CONSTRAINT OneRepeat
INVARIANTS SoleSurvivor OneWriter RollbackRestores
PROPERTY ZeroDowntime
CHECK_DEADLOCK FALSE
