------------------------------ MODULE ServiceApi ------------------------------
(***************************************************************************)
(* The API's handlers that touch the service's deployments, containers and *)
(* status: deploy, restart and stop (DeploymentController), soft delete    *)
(* and recovery (ServiceManagementService), and what a GitHub webhook does *)
(* (WebhookController: redeploy on a push, of a preview when its pull      *)
(* request changes, removal of a preview when its pull request closes).    *)
(* One member of Requests is one HTTP request; req[r].at is where its      *)
(* handler awaits.  A handler that never steps again is an API process     *)
(* that died.                                                              *)
(***************************************************************************)
EXTENDS Platform

CONSTANTS
  Requests,       \* bound: the requests that may ever be made
  Ops,            \* which of the operations below a run explores
  EnqueueFaults   \* BOOLEAN: may preparing or adding the job fail?

OpSet ==
  {"deploy", "push", "sync", "stop", "restart", "delete", "recover", "purge"}

ASSUME ApiAssumption ==
  /\ Ops \subseteq OpSet
  /\ EnqueueFaults \in BOOLEAN
  /\ Requests \cap {Free, Orphaned} = {}

VARIABLE req   \* req[r]: the local state of the handler of request r

Up == {c \in Containers : ctr[c] \in {"running", "restarting"}}

AtStates ==
  {"new", "insert", "enqueue", "lock", "write", "stopping", "stopfailed", "create",
   "start", "replacing", "dellist", "deleting", "purging", "purgerecords",
   "purgerow", "end"}

Handler ==
  [at : AtStates,
   d : Deployments \cup {0},            \* the deployment it created
   op : OpSet \cup {"none"},
   list : SUBSET Containers,            \* kept from the listing, not yet done
   up : SUBSET Containers,              \* of those, the ones that were up
   new : Containers \cup {NoContainer}, \* the container a restart created
   held : Containers \cup {NoContainer}]\* stopped, about to be removed

(* The local state of a handler that has just taken its first step.        *)
Opened(here, d, op, list) ==
  [at |-> here, d |-> d, op |-> op, list |-> list, up |-> list \cap Up,
   new |-> NoContainer, held |-> NoContainer]

ApiInit == req = [r \in Requests |-> Opened("new", 0, "none", {})]
ApiTypeOK == req \in [Requests -> Handler]

-------------------------------------------------------------------------------
In(r, here) == req[r].at = here
Begin(r, there, d, op, list) == req' = [req EXCEPT ![r] = Opened(there, d, op, list)]
Reply(r) == Begin(r, "end", 0, "none", {})

(* One step on: what is left of the list, the container it created and the *)
(* one it stopped and will remove next.                                    *)
Advance(r, there, list, new, held) ==
  req' = [req EXCEPT ![r] =
            [at |-> there, d |-> req[r].d, op |-> req[r].op, list |-> list,
             up |-> req[r].up, new |-> new, held |-> held]]
Move(r, there) == Advance(r, there, req[r].list, req[r].new, req[r].held)

Opens(r, op, rowState) == In(r, "new") /\ op \in Ops /\ row = rowState

-------------------------------------------------------------------------------
(* prisma.deployment.create; its job's mode and variables are those of the *)
(* service row read before.                                                *)
CreateRecord(r, op) ==
  \E d \in Deployments, m \in Modes, b \in BadEnvs :
    /\ dep[d] = "NONE"
    /\ \A e \in 1 .. (d - 1) : dep[e] # "NONE"
    /\ dep' = [dep EXCEPT ![d] = "QUEUED"]
    /\ mode' = [mode EXCEPT ![d] = m]
    /\ badEnv' = [badEnv EXCEPT ![d] = b]
    /\ Begin(r, "enqueue", d, op, {})

(* POST /services/:id/deploy and the push webhook: check the service, then *)
(* create the row.                                                         *)
OpenDeployment(r, op) ==
  /\ Opens(r, op, "live")
  /\ CreateRecord(r, op)
  /\ UNCHANGED <<jobVars, serviceVars, ctr, lock>>

DeployService(r) == OpenDeployment(r, "deploy")
HandlePushEvent(r) == OpenDeployment(r, "push")

(* The pull request of a preview got new commits: its status goes back to  *)
(* IDLE, without the lock, and then a row is created, which the foreign    *)
(* key refuses when the service is gone.                                   *)
SyncPreview(r) ==
  /\ Opens(r, "sync", "live")
  /\ status' = "IDLE"
  /\ Begin(r, "insert", 0, "sync", {})
  /\ UNCHANGED <<row, recordVars, jobVars, ctr, lock>>

InsertRecord(r) ==
  /\ In(r, "insert")
  /\ \/ row # "purged" /\ CreateRecord(r, "sync")
     \/ row = "purged" /\ Reply(r) /\ UNCHANGED recordVars
  /\ UNCHANGED <<jobVars, serviceVars, ctr, lock>>

(* deploymentQueue.add; only the deploy handler goes on to the status.     *)
Enqueue(r) ==
  /\ In(r, "enqueue")
  /\ job' = [job EXCEPT ![req[r].d] = "waiting"]
  /\ IF req[r].op = "deploy" THEN Move(r, "lock") ELSE Reply(r)
  /\ UNCHANGED <<stalls, fails, recordVars, serviceVars, ctr, lock>>

(* prepareDeploymentJobData or add throws: the row stays QUEUED.           *)
EnqueueFails(r) ==
  /\ EnqueueFaults
  /\ In(r, "enqueue")
  /\ Reply(r)
  /\ UNCHANGED platformVars

-------------------------------------------------------------------------------
(* Mutant: the status of the deployment row is written to the service.     *)
WriteStatus_RowState(r) ==
  /\ In(r, "write")
  /\ status' = IF req[r].op = "deploy" THEN "QUEUED" ELSE "STOPPED"
  /\ ReleaseStatusLock(r)
  /\ Reply(r)
  /\ UNCHANGED <<row, recordVars, jobVars, ctr>>

(* withStatusLock around the write of DEPLOYING or STOPPED.                *)
LockStatus(r) ==
  /\ In(r, "lock")
  /\ \/ AcquireStatusLock(r) /\ Move(r, "write")
     \/ StatusLockRefused /\ Reply(r)
  /\ UNCHANGED <<recordVars, jobVars, serviceVars, ctr>>

WriteStatus(r) ==
  /\ In(r, "write")
  /\ IF row = "purged" THEN UNCHANGED status
     ELSE status' = IF req[r].op = "deploy" THEN "DEPLOYING" ELSE "STOPPED"
  /\ ReleaseStatusLock(r)
  /\ Reply(r)
  /\ UNCHANGED <<row, recordVars, jobVars, ctr>>

-------------------------------------------------------------------------------
(* POST /services/:id/stop: stop what was listed as running, all at once;  *)
(* Docker's answer that one is no longer up makes the request fail.        *)
StopService(r) ==
  /\ Opens(r, "stop", "live")
  /\ Present # {}
  /\ Begin(r, IF Running = {} THEN "lock" ELSE "stopping", 0, "stop", Running)
  /\ UNCHANGED platformVars

StopListed(r) ==
  /\ In(r, "stopping") \/ In(r, "stopfailed")
  /\ \E c \in req[r].list :
       LET rest == req[r].list \ {c}
           ok == In(r, "stopping") /\ c \in Up
       IN /\ ctr' = [ctr EXCEPT ![c] = Stopped(@)]
          /\ IF rest = {} /\ ~ok THEN Reply(r)
             ELSE Advance(r, IF ~ok THEN "stopfailed"
                             ELSE IF rest = {} THEN "lock" ELSE "stopping",
                          rest, NoContainer, NoContainer)
  /\ UNCHANGED <<recordVars, jobVars, serviceVars, lock>>

-------------------------------------------------------------------------------
(* POST /services/:id/restart: start a copy, then remove what was listed   *)
(* before the copy was made.  No lock, no look at running deployments.     *)
RestartService(r) ==
  /\ Opens(r, "restart", "live")
  /\ Present # {}
  /\ Begin(r, "create", 0, "restart", Present)
  /\ UNCHANGED platformVars

RestartCreate(r) ==
  /\ In(r, "create")
  /\ \/ /\ CanCreate
        /\ ctr' = [ctr EXCEPT ![FreshContainer] = "created"]
        /\ Advance(r, "start", req[r].list, FreshContainer, NoContainer)
     \/ Reply(r) /\ UNCHANGED ctr
  /\ UNCHANGED <<recordVars, jobVars, serviceVars, lock>>

RestartStart(r) ==
  /\ In(r, "start")
  /\ \/ /\ ctr[req[r].new] # "removed"
        /\ ctr' = [ctr EXCEPT ![req[r].new] = "running"]
        /\ Move(r, "replacing")
     \/ Reply(r) /\ UNCHANGED ctr
  /\ UNCHANGED <<recordVars, jobVars, serviceVars, lock>>

(* The loop "stop, then remove" of a restart and of a webhook's removal.   *)
LoopStop(r) ==
  /\ In(r, "replacing") \/ In(r, "purging")
  /\ req[r].held = NoContainer
  /\ \E c \in req[r].list :
       /\ ctr' = [ctr EXCEPT ![c] = Stopped(@)]
       /\ Advance(r, req[r].at, req[r].list, req[r].new, c)
  /\ UNCHANGED <<recordVars, jobVars, serviceVars, lock>>

LoopRemove(r) ==
  /\ In(r, "replacing") \/ In(r, "purging")
  /\ req[r].held # NoContainer
  /\ ctr' = [ctr EXCEPT ![req[r].held] = Removed(@)]
  /\ IF req[r].list # {req[r].held}
     THEN Advance(r, req[r].at, req[r].list \ {req[r].held}, req[r].new, NoContainer)
     ELSE IF In(r, "purging") THEN Begin(r, "purgerecords", 0, "purge", {})
     ELSE Reply(r)
  /\ UNCHANGED <<recordVars, jobVars, serviceVars, lock>>

-------------------------------------------------------------------------------
(* softDeleteService: deletedAt first, then every container listed after   *)
(* it.  One that is no longer up when it is stopped makes Docker answer an *)
(* error, and then it is not removed.  Queued and running deployments are  *)
(* left alone.                                                             *)
SoftDeleteService(r) ==
  /\ Opens(r, "delete", "live")
  /\ row' = "deleted"
  /\ Move(r, "dellist")
  /\ UNCHANGED <<status, recordVars, jobVars, ctr, lock>>

ListForDelete(r) ==
  /\ In(r, "dellist")
  /\ IF Present = {} THEN Reply(r) ELSE Begin(r, "deleting", 0, "delete", Present)
  /\ UNCHANGED platformVars

DeleteListed(r) ==
  /\ In(r, "deleting")
  /\ \E c \in req[r].list :
       /\ ctr' = [ctr EXCEPT ![c] =
                    IF @ = "none" \/ (c \in req[r].up /\ c \notin Up)
                    THEN @ ELSE "removed"]
       /\ IF req[r].list = {c} THEN Reply(r)
          ELSE Advance(r, "deleting", req[r].list \ {c}, NoContainer, NoContainer)
  /\ UNCHANGED <<recordVars, jobVars, serviceVars, lock>>

RecoverService(r) ==
  /\ Opens(r, "recover", "deleted")
  /\ row' = "live"
  /\ Reply(r)
  /\ UNCHANGED <<status, recordVars, jobVars, ctr, lock>>

-------------------------------------------------------------------------------
(* WebhookController.deleteService, for a preview whose pull request was   *)
(* closed: containers, then the deployment rows, then the service row,     *)
(* which cascades to rows created meanwhile.                               *)
PurgeService(r) ==
  /\ Opens(r, "purge", "live")
  /\ Begin(r, IF Present = {} THEN "purgerecords" ELSE "purging", 0, "purge", Present)
  /\ UNCHANGED platformVars

EraseRecords == dep' = [d \in Deployments |-> IF dep[d] = "NONE" THEN "NONE" ELSE "GONE"]

PurgeRecords(r) ==
  /\ In(r, "purgerecords")
  /\ EraseRecords
  /\ Move(r, "purgerow")
  /\ UNCHANGED <<mode, badEnv, jobVars, serviceVars, ctr, lock>>

(* Mutant: the service row goes without onDelete: Cascade.                 *)
PurgeRow_NoCascade(r) ==
  /\ In(r, "purgerow")
  /\ row' = "purged"
  /\ Reply(r)
  /\ UNCHANGED <<status, recordVars, jobVars, ctr, lock>>

PurgeRow(r) ==
  /\ In(r, "purgerow")
  /\ EraseRecords
  /\ row' = "purged"
  /\ Reply(r)
  /\ UNCHANGED <<status, mode, badEnv, jobVars, ctr, lock>>

-------------------------------------------------------------------------------
ContinueRequest(r) ==
  \/ InsertRecord(r) \/ Enqueue(r) \/ EnqueueFails(r)
  \/ LockStatus(r) \/ WriteStatus(r)
  \/ StopListed(r)
  \/ RestartCreate(r) \/ RestartStart(r) \/ LoopStop(r) \/ LoopRemove(r)
  \/ ListForDelete(r) \/ DeleteListed(r)
  \/ PurgeRecords(r) \/ PurgeRow(r)

OpenRequest(r) ==
  \/ DeployService(r) \/ HandlePushEvent(r) \/ SyncPreview(r)
  \/ StopService(r) \/ RestartService(r)
  \/ SoftDeleteService(r) \/ RecoverService(r) \/ PurgeService(r)

ApiNext == \E r \in Requests : OpenRequest(r) \/ ContinueRequest(r)
===============================================================================
