------------------------------- MODULE Platform -------------------------------
(***************************************************************************)
(* What the API, the worker and the reconciler share about ONE service:    *)
(* its row and its deployment rows (PostgreSQL), its build jobs (BullMQ),  *)
(* its containers (Docker, label helvetia.serviceId) and its status lock   *)
(* (Redis).  Locks, container filters and reconciliation are all keyed by  *)
(* the service id, so services do not meet here.                           *)
(***************************************************************************)
EXTENDS Naturals, StatusLock

CONSTANTS
  MaxDeployments,  \* bound: deployment rows ever created, numbered in order
  Containers,      \* container ids Docker may hand out; ids are not reused
  NoContainer,     \* "no container yet" in a local variable
  Modes,           \* modes of deployment a run explores, a subset of ModeSet
  BadEnvs          \* subset of BOOLEAN: may a job's variables be invalid?

Deployments == 1 .. MaxDeployments

ModeSet == {"rolling", "recreate", "compose"}
RecordStates == {"NONE", "QUEUED", "BUILDING", "SUCCESS", "FAILED", "GONE"}
JobStates == {"none", "waiting", "active", "completed", "failed"}
ServiceStates == {"IDLE", "DEPLOYING", "RUNNING", "STOPPED", "FAILED", "CRASHING"}
ContainerStates == {"none", "created", "running", "restarting", "exited", "removed"}

ASSUME PlatformAssumption ==
  /\ MaxDeployments \in Nat
  /\ NoContainer \notin Containers
  /\ Modes \subseteq ModeSet
  /\ BadEnvs \subseteq BOOLEAN

VARIABLES
  dep,       \* dep[d]: status of deployment row d; NONE before, GONE after
  mode,      \* mode[d]: how the job data of d makes the worker replace
  badEnv,    \* badEnv[d]: the variables in the job data do not validate
  job,       \* job[d]: state of the BullMQ job of d
  stalls,    \* stalls[d]: times the job of d was found stalled
  fails,     \* fails[d]: attempts of the job of d that failed and were followed by another
  status,    \* Service.status
  row,       \* "live", "deleted" (deletedAt set) or "purged" (no row)
  ctr        \* ctr[c]: state of container c

recordVars == <<dep, mode, badEnv>>
jobVars == <<job, stalls, fails>>
serviceVars == <<status, row>>
platformVars == <<recordVars, jobVars, serviceVars, ctr, lock>>

-------------------------------------------------------------------------------
Present == {c \in Containers : ctr[c] \notin {"none", "removed"}}
Running == {c \in Containers : ctr[c] = "running"}

(* docker.createContainer answers with an id never seen before.            *)
FreshContainer == CHOOSE c \in Containers : ctr[c] = "none"
CanCreate == \E c \in Containers : ctr[c] = "none"

(* State of one container after container.stop().  Docker answers a stop of *)
(* a container that is not up with an error (304, 404); what a caller does *)
(* about it is in the caller's action.                                     *)
Stopped(s) == IF s \in {"running", "restarting"} THEN "exited" ELSE s

(* container.remove() without force is refused while the container is up.  *)
Removed(s) == IF s \in {"running", "restarting", "none"} THEN s ELSE "removed"

(* include: { deployments: { orderBy: createdAt desc, take: 1 } }          *)
Records == {d \in Deployments : dep[d] \notin {"NONE", "GONE"}}
LatestRecord ==
  IF Records = {} THEN "NONE"
  ELSE dep[CHOOSE d \in Records : \A e \in Records : e <= d]

(* The status reconcileService works out from the latest deployment and    *)
(* the states of the service's containers.                                 *)
ExpectedStatus(latest, states) ==
  IF latest \in {"QUEUED", "BUILDING"} THEN "DEPLOYING"
  ELSE IF "running" \in states THEN "RUNNING"
  ELSE IF "restarting" \in states THEN "CRASHING"
  ELSE IF states # {} \/ latest = "SUCCESS" THEN "STOPPED"
  ELSE IF latest = "FAILED" THEN "FAILED" ELSE "IDLE"

TrueStatus == ExpectedStatus(LatestRecord, {ctr[c] : c \in Present})

-------------------------------------------------------------------------------
PlatformInit ==
  /\ dep = [d \in Deployments |-> "NONE"]
  /\ mode = [d \in Deployments |-> "rolling"]
  /\ badEnv = [d \in Deployments |-> FALSE]
  /\ job = [d \in Deployments |-> "none"]
  /\ stalls = [d \in Deployments |-> 0]
  /\ fails = [d \in Deployments |-> 0]
  /\ status = "IDLE"
  /\ row = "live"
  /\ ctr = [c \in Containers |-> "none"]
  /\ lock = Free

PlatformTypeOK ==
  /\ dep \in [Deployments -> RecordStates]
  /\ mode \in [Deployments -> ModeSet]
  /\ badEnv \in [Deployments -> BOOLEAN]
  /\ job \in [Deployments -> JobStates]
  /\ stalls \in [Deployments -> Nat]
  /\ fails \in [Deployments -> Nat]
  /\ status \in ServiceStates
  /\ row \in {"live", "deleted", "purged"}
  /\ ctr \in [Containers -> ContainerStates]
===============================================================================
