----------------------------- MODULE BuildWorker ------------------------------
(***************************************************************************)
(* The deployment worker, apps/worker/src/worker.ts: each process takes    *)
(* one 'deployments' job at a time (BullMQ's default concurrency) and runs *)
(* its handler.  pc[w] is where the handler of w awaits; between two       *)
(* awaits any other process may run.  The helpers that stop, start and     *)
(* remove containers are those of utils/containerHelpers.ts.               *)
(***************************************************************************)
EXTENDS Platform

CONSTANTS
  Workers,       \* worker processes
  MaxCrashes,    \* bound: worker processes killed while they handle a job
  MaxStalls,     \* BullMQ's maxStalledCount: times a stalled job runs again
  MaxAttempts,   \* attempts of the queue's default job options
  RestartFaults  \* BOOLEAN: may Docker refuse to restart an old container?

ASSUME WorkerAssumption ==
  /\ MaxCrashes \in Nat
  /\ MaxStalls \in Nat
  /\ MaxAttempts \in Nat \ {0}
  /\ RestartFaults \in BOOLEAN
  /\ Workers \cap {Free, Orphaned} = {}

VARIABLES
  pc,        \* pc[w]: the await the handler of w is at
  cur,       \* cur[w]: the deployment w handles, 0 when it is idle
  olds,      \* olds[w]: oldContainers, running when w began to build
  made,      \* made[w]: the container w created, NoContainer before
  todo,      \* todo[w]: containers left in the loop w is in
  halted,    \* halted[w]: the container of a cleanup loop already stopped
  crashes    \* number of crashes so far

workerVars == <<pc, cur, olds, made, todo, halted, crashes>>

LockedPcs == {"swrite", "fwrite"}
PcStates ==
  {"idle", "load", "mark", "capture", "build", "stoplist", "stopold", "create",
   "start", "cleanlist", "clean", "record", "slock", "complete", "undo",
   "rollback", "recfail", "flock", "fail"} \cup LockedPcs

WorkerInit ==
  /\ pc = [w \in Workers |-> "idle"]
  /\ cur = [w \in Workers |-> 0]
  /\ olds = [w \in Workers |-> {}]
  /\ made = [w \in Workers |-> NoContainer]
  /\ todo = [w \in Workers |-> {}]
  /\ halted = [w \in Workers |-> NoContainer]
  /\ crashes = 0

WorkerTypeOK ==
  /\ pc \in [Workers -> PcStates]
  /\ cur \in [Workers -> Deployments \cup {0}]
  /\ olds \in [Workers -> SUBSET Containers]
  /\ made \in [Workers -> Containers \cup {NoContainer}]
  /\ todo \in [Workers -> SUBSET Containers]
  /\ halted \in [Workers -> Containers \cup {NoContainer}]
  /\ crashes \in Nat

-------------------------------------------------------------------------------
At(w, here) == pc[w] = here
Go(w, there) == pc' = [pc EXCEPT ![w] = there]

(* The handler threw inside its try block: the catch block undoes the new  *)
(* container if startContainer had returned it, then walks oldContainers.  *)
Throw(w) ==
  /\ IF made[w] = NoContainer
     THEN /\ Go(w, "rollback")
          /\ todo' = [todo EXCEPT ![w] = olds[w]]
     ELSE /\ Go(w, "undo")
          /\ UNCHANGED todo
  /\ UNCHANGED <<cur, olds, made, halted, crashes>>

(* Local variables at the next await, when only pc moves.                  *)
Step(w, there) == Go(w, there) /\ UNCHANGED <<cur, olds, made, todo, halted, crashes>>

(* prisma.deployment.update on the job's row: it throws (P2025) when the   *)
(* row is gone.                                                            *)
WriteRecord(w, s) ==
  /\ dep[cur[w]] # "GONE"
  /\ dep' = [dep EXCEPT ![cur[w]] = s]
  /\ UNCHANGED <<mode, badEnv>>
RecordIsGone(w) == dep[cur[w]] = "GONE" /\ UNCHANGED recordVars

-------------------------------------------------------------------------------
(* Taking a job and the checks made before the try block.                  *)
TakeJob(w) ==
  /\ At(w, "idle")
  /\ \E d \in Deployments :
       /\ job[d] = "waiting"
       /\ job' = [job EXCEPT ![d] = "active"]
       /\ cur' = [cur EXCEPT ![w] = d]
  /\ Go(w, "load")
  /\ UNCHANGED <<olds, made, todo, halted, crashes, stalls, fails, recordVars,
                 serviceVars, ctr, lock>>

(* A job whose row is gone is skipped; one whose variables do not validate *)
(* throws outside the try block, so nothing records the failure.           *)
LoadRecord(w) ==
  /\ At(w, "load")
  /\ \/ dep[cur[w]] = "GONE" /\ Step(w, "complete")
     \/ dep[cur[w]] # "GONE" /\ badEnv[cur[w]] /\ Step(w, "fail")
     \/ dep[cur[w]] # "GONE" /\ ~badEnv[cur[w]] /\ Step(w, "mark")
  /\ UNCHANGED platformVars

MarkBuilding(w) ==
  /\ At(w, "mark")
  /\ \/ WriteRecord(w, "BUILDING") /\ Step(w, "capture")
     \/ RecordIsGone(w) /\ Throw(w)
  /\ UNCHANGED <<jobVars, serviceVars, ctr, lock>>

CaptureOld(w) ==
  /\ At(w, "capture")
  /\ olds' = [olds EXCEPT ![w] = Running]
  /\ Go(w, "build")
  /\ UNCHANGED <<cur, made, todo, halted, crashes, platformVars>>

-------------------------------------------------------------------------------
(* Mutant: the recreate path is taken for every service.                   *)
BuildSucceeds_AlwaysRecreate(w) ==
  /\ At(w, "build")
  /\ dep[cur[w]] # "GONE"
  /\ mode[cur[w]] # "compose"
  /\ Step(w, "stoplist")
  /\ UNCHANGED platformVars

(* strategy.deploy and the write of the logs after it: the row must exist. *)
BuildSucceeds(w) ==
  /\ At(w, "build")
  /\ dep[cur[w]] # "GONE"
  /\ mode[cur[w]] # "compose"
  /\ Step(w, IF mode[cur[w]] = "recreate" THEN "stoplist" ELSE "create")
  /\ UNCHANGED platformVars

(* docker compose up (external) replaces the containers of its own project, *)
(* which those there are may be or, from before a change of type or name,   *)
(* not be; it may fail after it has, and the row may be gone by then.      *)
ComposeUp(w) ==
  /\ At(w, "build")
  /\ mode[cur[w]] = "compose"
  /\ CanCreate
  /\ \E own \in SUBSET Present :
       ctr' = [c \in Containers |->
                 IF c = FreshContainer THEN "running"
                 ELSE IF c \in own THEN "removed" ELSE ctr[c]]
  /\ \/ dep[cur[w]] # "GONE" /\ Step(w, "record")
     \/ Throw(w)
  /\ UNCHANGED <<recordVars, jobVars, serviceVars, lock>>

BuildFails(w) ==
  /\ At(w, "build")
  /\ Throw(w)
  /\ UNCHANGED platformVars

(* cleanupOldContainers with stopOnly, under a postfix no name contains.   *)
ListToStop(w) ==
  /\ At(w, "stoplist")
  /\ todo' = [todo EXCEPT ![w] = Present]
  /\ Go(w, IF Present = {} THEN "create" ELSE "stopold")
  /\ UNCHANGED <<cur, olds, made, halted, crashes, platformVars>>

StopOld(w) ==
  /\ At(w, "stopold")
  /\ \E c \in todo[w] :
       /\ ctr' = [ctr EXCEPT ![c] = Stopped(@)]
       /\ todo' = [todo EXCEPT ![w] = @ \ {c}]
       /\ Go(w, IF todo[w] = {c} THEN "create" ELSE "stopold")
  /\ UNCHANGED <<cur, olds, made, halted, crashes, recordVars, jobVars,
                 serviceVars, lock>>

(* startContainer: create, then start.  newContainer is assigned when it   *)
(* returns, so a container that does not start is left behind.             *)
CreateNew(w) ==
  /\ At(w, "create")
  /\ CanCreate
  /\ ctr' = [ctr EXCEPT ![FreshContainer] = "created"]
  /\ made' = [made EXCEPT ![w] = FreshContainer]
  /\ Go(w, "start")
  /\ UNCHANGED <<cur, olds, todo, halted, crashes, recordVars, jobVars,
                 serviceVars, lock>>

CreateFails(w) ==
  /\ At(w, "create")
  /\ Throw(w)
  /\ UNCHANGED platformVars

StartNew(w) ==
  /\ At(w, "start")
  /\ ctr[made[w]] # "removed"
  /\ ctr' = [ctr EXCEPT ![made[w]] = "running"]
  /\ Step(w, "cleanlist")
  /\ UNCHANGED <<recordVars, jobVars, serviceVars, lock>>

StartFails(w) ==
  /\ At(w, "start")
  /\ made' = [made EXCEPT ![w] = NoContainer]
  /\ todo' = [todo EXCEPT ![w] = olds[w]]
  /\ Go(w, "rollback")
  /\ UNCHANGED <<cur, olds, halted, crashes, platformVars>>

-------------------------------------------------------------------------------
(* Mutant: only what was running when the deployment began is cleaned up.  *)
ListToClean_OldOnly(w) ==
  /\ At(w, "cleanlist")
  /\ todo' = [todo EXCEPT ![w] = olds[w]]
  /\ Go(w, IF olds[w] = {} THEN "record" ELSE "clean")
  /\ UNCHANGED <<cur, olds, made, halted, crashes, platformVars>>

(* cleanupOldContainers after the start: list every container of the       *)
(* service but the new one, then stop and remove them one after another.   *)
ListToClean(w) ==
  /\ At(w, "cleanlist")
  /\ todo' = [todo EXCEPT ![w] = Present \ {made[w]}]
  /\ Go(w, IF Present \subseteq {made[w]} THEN "record" ELSE "clean")
  /\ UNCHANGED <<cur, olds, made, halted, crashes, platformVars>>

CleanStop(w) ==
  /\ At(w, "clean")
  /\ halted[w] = NoContainer
  /\ \E c \in todo[w] :
       /\ ctr' = [ctr EXCEPT ![c] = Stopped(@)]
       /\ halted' = [halted EXCEPT ![w] = c]
  /\ UNCHANGED <<pc, cur, olds, made, todo, crashes, recordVars, jobVars,
                 serviceVars, lock>>

CleanRemove(w) ==
  /\ At(w, "clean")
  /\ halted[w] # NoContainer
  /\ ctr' = [ctr EXCEPT ![halted[w]] = Removed(@)]
  /\ todo' = [todo EXCEPT ![w] = @ \ {halted[w]}]
  /\ halted' = [halted EXCEPT ![w] = NoContainer]
  /\ Go(w, IF todo[w] = {halted[w]} THEN "record" ELSE "clean")
  /\ UNCHANGED <<cur, olds, made, crashes, recordVars, jobVars, serviceVars, lock>>

(* docker.listContainers throws, where the handler captures or cleans up.  *)
ListFails(w) ==
  /\ pc[w] \in {"capture", "stoplist", "cleanlist"}
  /\ Throw(w)
  /\ UNCHANGED platformVars

-------------------------------------------------------------------------------
(* updateDeploymentStatus SUCCESS: the row first, then, under the lock,    *)
(* the service.  Whatever throws here lands in the catch block, with the   *)
(* old containers already gone.                                            *)
RecordSuccess(w) ==
  /\ At(w, "record")
  /\ \/ WriteRecord(w, "SUCCESS") /\ Step(w, "slock")
     \/ RecordIsGone(w) /\ Throw(w)
  /\ UNCHANGED <<jobVars, serviceVars, ctr, lock>>

LockSuccess(w) ==
  /\ At(w, "slock")
  /\ \/ AcquireStatusLock(w) /\ Step(w, "swrite")
     \/ StatusLockRefused /\ Throw(w)
  /\ UNCHANGED <<recordVars, jobVars, serviceVars, ctr>>

(* Mutant: the lock is not released when the callback throws.              *)
WriteRunning_NoFinally(w) ==
  /\ At(w, "swrite")
  /\ \/ row # "purged" /\ status' = "RUNNING" /\ Step(w, "complete") /\ ReleaseStatusLock(w)
     \/ row = "purged" /\ UNCHANGED <<status, lock>> /\ Throw(w)
  /\ UNCHANGED <<row, recordVars, jobVars, ctr>>

WriteRunning(w) ==
  /\ At(w, "swrite")
  /\ \/ row # "purged" /\ status' = "RUNNING" /\ Step(w, "complete")
     \/ row = "purged" /\ UNCHANGED status /\ Throw(w)
  /\ ReleaseStatusLock(w)
  /\ UNCHANGED <<row, recordVars, jobVars, ctr>>

-------------------------------------------------------------------------------
(* Mutant: the new container is removed neither stopped nor by force.      *)
UndoNew_NoForce(w) ==
  /\ At(w, "undo")
  /\ ctr' = [ctr EXCEPT ![made[w]] = Removed(@)]
  /\ made' = [made EXCEPT ![w] = NoContainer]
  /\ todo' = [todo EXCEPT ![w] = olds[w]]
  /\ Go(w, "rollback")
  /\ UNCHANGED <<cur, olds, halted, crashes, recordVars, jobVars, serviceVars, lock>>

(* The catch block: remove the new container by force, restart what ran    *)
(* before and is stopped now, then updateDeploymentStatus FAILED, whose    *)
(* errors are logged and dropped.                                          *)
UndoNew(w) ==
  /\ At(w, "undo")
  /\ ctr' = [ctr EXCEPT ![made[w]] = "removed"]
  /\ made' = [made EXCEPT ![w] = NoContainer]
  /\ todo' = [todo EXCEPT ![w] = olds[w]]
  /\ Go(w, "rollback")
  /\ UNCHANGED <<cur, olds, halted, crashes, recordVars, jobVars, serviceVars, lock>>

Restarted(s) == IF s \in {"created", "exited"} THEN "running" ELSE s

RollbackOne(w) ==
  /\ At(w, "rollback")
  /\ \E c \in todo[w] :
       /\ \/ ctr' = [ctr EXCEPT ![c] = Restarted(@)]
          \/ RestartFaults /\ UNCHANGED ctr
       /\ todo' = [todo EXCEPT ![w] = @ \ {c}]
  /\ UNCHANGED <<pc, cur, olds, made, halted, crashes, recordVars, jobVars,
                 serviceVars, lock>>

(* Mutant: the catch block does not await rollbackContainers.              *)
RollbackEnds_NotAwaited(w) ==
  /\ At(w, "rollback")
  /\ Step(w, "recfail")
  /\ UNCHANGED platformVars

RollbackEnds(w) ==
  /\ At(w, "rollback")
  /\ todo[w] = {}
  /\ Step(w, "recfail")
  /\ UNCHANGED platformVars

RecordFailed(w) ==
  /\ At(w, "recfail")
  /\ \/ WriteRecord(w, "FAILED") /\ Step(w, "flock")
     \/ RecordIsGone(w) /\ Step(w, "fail")
  /\ UNCHANGED <<jobVars, serviceVars, ctr, lock>>

LockFailed(w) ==
  /\ At(w, "flock")
  /\ \/ AcquireStatusLock(w) /\ Step(w, "fwrite")
     \/ StatusLockRefused /\ Step(w, "fail")
  /\ UNCHANGED <<recordVars, jobVars, serviceVars, ctr>>

WriteFailed(w) ==
  /\ At(w, "fwrite")
  /\ \/ row # "purged" /\ status' = IF olds[w] # {} THEN "RUNNING" ELSE "FAILED"
     \/ row = "purged" /\ UNCHANGED status
  /\ ReleaseStatusLock(w)
  /\ Step(w, "fail")
  /\ UNCHANGED <<row, recordVars, jobVars, ctr>>

-------------------------------------------------------------------------------
(* The handler returns or rethrows; the process is ready for another job.  *)
ResetLocals(w) ==
  /\ Go(w, "idle")
  /\ cur' = [cur EXCEPT ![w] = 0]
  /\ olds' = [olds EXCEPT ![w] = {}]
  /\ made' = [made EXCEPT ![w] = NoContainer]
  /\ todo' = [todo EXCEPT ![w] = {}]
  /\ halted' = [halted EXCEPT ![w] = NoContainer]

EndJob(w, here, outcome) ==
  /\ At(w, here)
  /\ job' = [job EXCEPT ![cur[w]] = outcome]
  /\ ResetLocals(w)
  /\ UNCHANGED <<crashes, stalls, recordVars, serviceVars, ctr, lock>>

CompleteJob(w) == EndJob(w, "complete", "completed") /\ UNCHANGED fails

(* Mutant: the catch block swallows the error.                             *)
FailJob_NoRethrow(w) == EndJob(w, "fail", "completed") /\ UNCHANGED fails

(* A job that threw is tried again, after a delay, until its attempts are  *)
(* used up.                                                                *)
FailJob(w) ==
  /\ At(w, "fail")
  /\ IF fails[cur[w]] + 1 < MaxAttempts
     THEN /\ EndJob(w, "fail", "waiting")
          /\ fails' = [fails EXCEPT ![cur[w]] = @ + 1]
     ELSE EndJob(w, "fail", "failed") /\ UNCHANGED fails

(* The process dies and is started again (restart: always): its local      *)
(* state is gone, its job stays active in Redis, its lock stays taken.     *)
CrashWorker(w) ==
  /\ ~At(w, "idle")
  /\ crashes < MaxCrashes
  /\ crashes' = crashes + 1
  /\ ResetLocals(w)
  /\ AbandonStatusLock(w)
  /\ UNCHANGED <<recordVars, jobVars, serviceVars, ctr>>

(* Mutant: a job is taken for stalled while its worker is alive.           *)
StalledJob_LiveWorker(d) ==
  /\ job[d] = "active"
  /\ stalls[d] < MaxStalls
  /\ job' = [job EXCEPT ![d] = "waiting"]
  /\ stalls' = [stalls EXCEPT ![d] = @ + 1]
  /\ UNCHANGED <<workerVars, fails, recordVars, serviceVars, ctr, lock>>

(* Mutant: a job that stalled too often is left active.                    *)
StalledJob_LeftActive(d) ==
  /\ job[d] = "active"
  /\ \A w \in Workers : cur[w] # d
  /\ stalls[d] < MaxStalls
  /\ job' = [job EXCEPT ![d] = "waiting"]
  /\ stalls' = [stalls EXCEPT ![d] = @ + 1]
  /\ UNCHANGED <<workerVars, fails, recordVars, serviceVars, ctr, lock>>

(* BullMQ finds an active job whose worker is gone: it waits again, or     *)
(* fails for good when that happened too often; no row is written.         *)
StalledJob(d) ==
  /\ job[d] = "active"
  /\ \A w \in Workers : cur[w] # d
  /\ IF stalls[d] < MaxStalls
     THEN /\ job' = [job EXCEPT ![d] = "waiting"]
          /\ stalls' = [stalls EXCEPT ![d] = @ + 1]
     ELSE /\ job' = [job EXCEPT ![d] = "failed"]
          /\ UNCHANGED stalls
  /\ UNCHANGED <<workerVars, fails, recordVars, serviceVars, ctr, lock>>

Deploy(w) ==
  \/ MarkBuilding(w) \/ CaptureOld(w)
  \/ BuildSucceeds(w) \/ ComposeUp(w) \/ BuildFails(w)
  \/ ListToStop(w) \/ StopOld(w)
  \/ CreateNew(w) \/ CreateFails(w) \/ StartNew(w) \/ StartFails(w)
  \/ ListToClean(w) \/ CleanStop(w) \/ CleanRemove(w) \/ ListFails(w)
  \/ RecordSuccess(w) \/ LockSuccess(w) \/ WriteRunning(w)

RollBack(w) ==
  \/ UndoNew(w) \/ RollbackOne(w) \/ RollbackEnds(w)
  \/ RecordFailed(w) \/ LockFailed(w) \/ WriteFailed(w)

HandleJob(w) == LoadRecord(w) \/ Deploy(w) \/ RollBack(w) \/ CompleteJob(w) \/ FailJob(w)

WorkerNext ==
  \/ \E w \in Workers : TakeJob(w) \/ HandleJob(w) \/ CrashWorker(w)
  \/ \E d \in Deployments : StalledJob(d)
===============================================================================
