\* One request of the user, one lapse; the clean-up has nothing to do.
SPECIFICATION LifecycleSpec
CONSTANTS
  Requests = {r1}
  Operations = {"deploy", "stop"}
  MaxRequests = 1
  MaxLapses = 1
  MaxPurges = 0
  DockerFaults = FALSE
PROPERTY SuspendedStays
CHECK_DEADLOCK FALSE
