------------------------------ MODULE Deployment ------------------------------
(***************************************************************************)
(* The deployment pipeline of one service: the workers, the API's handlers *)
(* and the reconciliation passes, each a process of its own that meets the *)
(* others only in the state of module Platform.                            *)
(***************************************************************************)
EXTENDS BuildWorker, ServiceApi, Reconciler, FiniteSets

CONSTANT Flapping   \* BOOLEAN: may a running container crash and come back?

ASSUME ClientAssumption ==
  /\ Flapping \in BOOLEAN
  /\ Workers \cap Requests = {}
  /\ Workers \cap Passes = {}
  /\ Requests \cap Passes = {}

vars == <<platformVars, workerVars, req, pass>>

Init == PlatformInit /\ WorkerInit /\ ApiInit /\ ReconcilerInit

(* RestartPolicy 'always' (containerHelpers.ts): Docker brings a crashed   *)
(* container back, and reports it as restarting in the meantime.           *)
Flap ==
  /\ Flapping
  /\ \E c \in Containers :
       \/ ctr[c] = "running" /\ ctr' = [ctr EXCEPT ![c] = "restarting"]
       \/ ctr[c] = "restarting" /\ ctr' = [ctr EXCEPT ![c] = "running"]
  /\ UNCHANGED <<recordVars, jobVars, serviceVars, lock>>

LeaseEnds == LeaseExpires /\ UNCHANGED <<recordVars, jobVars, serviceVars, ctr>>

Next ==
  \/ WorkerNext /\ UNCHANGED <<req, pass>>
  \/ ApiNext /\ UNCHANGED <<workerVars, pass>>
  \/ ReconcilerNext /\ UNCHANGED <<workerVars, req>>
  \/ (Flap \/ LeaseEnds) /\ UNCHANGED <<workerVars, req, pass>>

Spec == Init /\ [][Next]_vars

(* A worker process keeps taking jobs and awaiting what it called, BullMQ  *)
(* keeps looking for stalled jobs, the interval keeps reconciling, and a   *)
(* lease keeps running out.  Fairness is strong for the steps that want    *)
(* the lock: a pass holds it for one write every 30 s, an acquire() retries*)
(* for two.  A request may stop anywhere: its API process may die.         *)
Fairness ==
  /\ \A w \in Workers :
       SF_vars((TakeJob(w) \/ HandleJob(w)) /\ UNCHANGED <<req, pass>>)
  /\ \A d \in Deployments : WF_vars(StalledJob(d) /\ UNCHANGED <<req, pass>>)
  /\ \A k \in Passes : SF_vars(PassStep(k) /\ UNCHANGED <<workerVars, req>>)
  /\ WF_vars(LeaseEnds /\ UNCHANGED <<workerVars, req, pass>>)

FairSpec == Spec /\ Fairness

-------------------------------------------------------------------------------
Clients == Workers \cup Requests \cup Passes

(* Every variable of the pipeline stays in its type.                       *)
TypeOK ==
  /\ PlatformTypeOK
  /\ lock \in Clients \cup {Free, Orphaned}
  /\ WorkerTypeOK
  /\ ApiTypeOK
  /\ ReconcilerTypeOK

-------------------------------------------------------------------------------
(* Rows and jobs.                                                          *)

Phase == [d \in Deployments |-> IF job[d] \in {"completed", "failed"} THEN "closed" ELSE job[d]]

Rows == INSTANCE DeploymentRecord WITH record <- dep, phase <- Phase

(* The rows and jobs behave as module DeploymentRecord promises, under     *)
(* crashes, redelivered jobs and rows erased under a running handler       *)
(* (worker.ts, WebhookController.deleteService).                           *)
RecordsKept == Rows!Spec

(* A job that completed left a row that says SUCCESS and a job that failed *)
(* one that says FAILED.  The exceptions are all there is: the row was     *)
(* erased, the variables were refused before the try block, or BullMQ gave *)
(* the job up after its worker died too often.                             *)
OutcomeAgrees ==
  \A d \in Deployments :
    /\ job[d] = "completed" => dep[d] \in {"SUCCESS", "GONE"}
    /\ job[d] = "failed" =>
         dep[d] \in {"FAILED", "GONE"} \/ badEnv[d] \/ stalls[d] = MaxStalls

(* A purged service leaves no deployment row behind, not even one whose    *)
(* creation ran into the purge.                                            *)
NoOrphanRecords == row = "purged" => \A d \in Deployments : dep[d] \in {"NONE", "GONE"}

-------------------------------------------------------------------------------
(* The status lock.                                                        *)

Inside(c) ==
  \/ c \in Workers /\ pc[c] \in LockedPcs
  \/ c \in Requests /\ req[c].at = "write"
  \/ c \in Passes /\ pass[c].at = "write"

(* Only a client between acquire and release holds the lock: every way out *)
(* of withStatusLock's callback, errors included, gives the key back, and  *)
(* a crashed owner's key is nobody's.                                      *)
LockHeldOnlyInside == lock \in Clients => Inside(lock)

-------------------------------------------------------------------------------
(* Containers, where deployments are the only thing that touches them.     *)

(* A service that is up stays up: the last running container goes down     *)
(* only while a recreate deployment replaces it, or when the container of  *)
(* a failed deployment that found nothing running is undone.               *)
ZeroDowntime ==
  [][Running # {} /\ Running' = {} =>
       \E w \in Workers :
         /\ cur[w] # 0
         /\ mode[cur[w]] = "recreate" \/ (pc[w] = "undo" /\ olds[w] = {})]_vars

(* When a deployment is about to be recorded as a success, its container   *)
(* runs and every other one of the service is gone, the leftovers of       *)
(* crashed and failed attempts included.                                   *)
SoleSurvivor ==
  \A w \in Workers :
    pc[w] \in {"record", "slock", "swrite"} =>
      Present = {made[w]} /\ ctr[made[w]] = "running"

(* Recreate exists so that two containers never write to one volume: as    *)
(* long as every deployment asked for it, at most one container runs, also *)
(* while a failed one is undone or a crashed one is made again.            *)
OneWriter ==
  (\A d \in Deployments : dep[d] # "NONE" => mode[d] = "recreate")
    => Cardinality(Running) <= 1

(* A deployment that failed leaves everything running that ran when it     *)
(* began, whichever step it failed at.                                     *)
RollbackRestores ==
  \A w \in Workers : pc[w] \in {"recfail", "flock", "fwrite", "fail"} => olds[w] \subseteq Running

-------------------------------------------------------------------------------
(* Progress, under FairSpec.                                               *)

(* A job that was added is completed or failed in the end.                 *)
JobsSettle ==
  \A d \in Deployments : job[d] = "waiting" ~> job[d] \in {"completed", "failed"}

(* If what Docker and the newest deployment row say settles on one status, *)
(* reconciliation makes Service.status settle on it, whatever stale writes *)
(* were under way.                                                         *)
StatusConverges ==
  \A s \in ServiceStates : <>[](TrueStatus = s) => <>[](status = s)

-------------------------------------------------------------------------------
(* What documents and comments say and the code does not do.               *)

(* SSE_AND_STATUS_MANAGEMENT.md, "Race Condition Prevention", with lock:   *)
(* a pass that gets the lock after the worker reads RUNNING and keeps it.  *)
(* So a pass never replaces a status that was right when it wrote.         *)
ReconcileKeepsTruth ==
  [][\A k \in Passes :
       pass[k].at = "write" /\ pass'[k].at # "write" /\ status = TrueStatus
         => status' = status]_vars

(* SSE_AND_STATUS_MANAGEMENT.md: DEPLOYING means a deployment is queued or *)
(* building, and a stuck status waits for reconciliation.  So no service   *)
(* says DEPLOYING for ever.                                                *)
DeployingEnds == status = "DEPLOYING" ~> status # "DEPLOYING"
===============================================================================
