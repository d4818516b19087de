SPECIFICATION Spec
CONSTANTS
  Free = Free
  Orphaned = Orphaned
  LockTimeouts = TRUE
  MaxDeployments = 2
  Containers = {c1, c2, c3}
  NoContainer = NoContainer
  Modes = {"recreate", "compose"}
  BadEnvs = {FALSE, TRUE}
  Workers = {w1}
  MaxCrashes = 1
  MaxStalls = 1
  MaxAttempts = 2
  RestartFaults = TRUE
  Requests = {r1, r2}
  Ops = {"deploy", "push", "sync", "stop", "restart", "delete", "recover", "purge"}
  EnqueueFaults = TRUE
  Passes = {}
  Flapping = FALSE
SYMMETRY RequestSymmetry
CONSTRAINTS OneRepeat OneMode
INVARIANTS TypeOK OutcomeAgrees NoOrphanRecords LockHeldOnlyInside
PROPERTY RecordsKept
CHECK_DEADLOCK FALSE
