\* Two requests at once, any three in all; one lapse; one pass of the clean-up.
SPECIFICATION LifecycleFairSpec
CONSTANTS
  Requests = {r1, r2}
  Operations = {"post", "deploy", "stop", "delete", "recover", "protect"}
  MaxRequests = 3
  MaxLapses = 1
  MaxPurges = 1
  DockerFaults = TRUE
CONSTRAINT Bounds
INVARIANTS ErasedLeavesNothing DeletedStops
PROPERTIES ErasedAfter30Days SuspensionEnds
\* Once nobody asks for anything and nothing lapsed, the system rests.
CHECK_DEADLOCK FALSE
