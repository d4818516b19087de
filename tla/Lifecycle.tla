------------------------------- MODULE Lifecycle -------------------------------
(***************************************************************************)
(* One service from its creation to its erasure: requests of its owner     *)
(* (ServiceController, ServiceManagementService, DeploymentController), the *)
(* subscription check that suspends it, the reconciliation of its status   *)
(* and the daily clean-up that erases it 30 days after its deletion.       *)
(* Deployments are those of Deployment with their awaits taken together:   *)
(* here one is in flight at a time, and all the service's containers are   *)
(* one variable.                                                           *)
(***************************************************************************)
EXTENDS Naturals, FiniteSets

CONSTANTS
  Requests,     \* requests handled at once, one after the other each
  Operations,   \* operations that are requested, of OperationSet
  MaxRequests,  \* bound: requests ever made
  MaxLapses,    \* bound: times the subscription lapses
  MaxPurges,    \* bound: passes of the clean-up
  DockerFaults  \* TRUE when Docker may refuse to remove a container

OperationSet == {"post", "deploy", "stop", "delete", "recover", "protect"}

ASSUME LifecycleAssumption ==
  /\ Operations \subseteq OperationSet
  /\ MaxRequests \in Nat /\ MaxLapses \in Nat /\ MaxPurges \in Nat
  /\ DockerFaults \in BOOLEAN

VARIABLES
  service,     \* the row, NoService when there is none
  deployment,  \* how the newest deployment row stands, "none" without a row
  job,         \* the deployment in flight, "idle" without one
  container,   \* of the service, in Docker
  request,     \* request[r]: its operation, where it stands, what it read
  requests,    \* requests made so far
  lapsed,      \* the user's subscription is UNPAID or CANCELED, or past its grace period
  lapses,      \* times it lapsed
  check,       \* the subscription check
  pass,        \* the reconciliation pass
  purge,       \* the clean-up
  purges,      \* passes of the clean-up that began
  odd          \* history: circumstances the properties make an exception for

lifecycleVars == <<service, deployment, job, container, request, requests, lapsed,
                   lapses, check, pass, purge, purges, odd>>

StatusSet == {"IDLE", "DEPLOYING", "RUNNING", "STOPPED", "FAILED", "SUSPENDED"}
Row == [status : StatusSet, deleted : {"no", "recently", "30-days-ago"}, protected : BOOLEAN]
NewRow == [status |-> "IDLE", deleted |-> "no", protected |-> FALSE]
NoService == [NewRow EXCEPT !.deleted = "gone"]
Exists == service # NoService
Live == Exists /\ service.deleted = "no"
Deleted == Exists /\ service.deleted # "no"

NoRequest == [op |-> "none", at |-> "new"]
RequestStates == {"new", "read", "act", "write"}
Odd == {"deployed-while-deleted", "touched-while-purged", "docker-refused",
        "died-while-deleting", "left-while-purged", "project-deleted"}

LifecycleInit ==
  /\ service = NewRow
  /\ deployment = "none"
  /\ job = "idle"
  /\ container = "none"
  /\ request = [r \in Requests |-> NoRequest] /\ requests = 0
  /\ lapsed = FALSE /\ lapses = 0
  /\ check = "idle"
  /\ pass = [at |-> "idle", seen |-> "IDLE", expected |-> "IDLE"]
  /\ purge = "idle" /\ purges = 0
  /\ odd = {}

LifecycleTypeOK ==
  /\ service \in Row \cup {NoService}
  /\ deployment \in {"none", "QUEUED", "SUCCESS", "FAILED"}
  /\ job \in {"idle", "queued", "built", "started"}
  /\ container \in {"none", "exited", "running"}
  /\ request \in [Requests -> [op : OperationSet \cup {"none"}, at : RequestStates]]
  /\ requests \in 0 .. MaxRequests
  /\ lapsed \in BOOLEAN /\ lapses \in 0 .. MaxLapses
  /\ check \in {"idle", "subscription", "service"}
  /\ pass \in [at : {"idle", "read"}, seen : StatusSet, expected : StatusSet]
  /\ purge \in {"idle", "listed", "rows", "row"}
  /\ purges \in 0 .. MaxPurges
  /\ odd \subseteq Odd

-------------------------------------------------------------------------------
Stands(r, op, at) == request[r].op = op /\ request[r].at = at
GoTo(r, at) == request' = [request EXCEPT ![r].at = at]
Ends(r) == request' = [request EXCEPT ![r] = NoRequest]
SetStatus(s) == service' = [service EXCEPT !.status = s]
Note(S) == odd' = odd \cup S
OnlyRequest == UNCHANGED <<requests, lapsed, lapses, check, pass, purge, purges>>

(* A clean-up that has read its list, and a deployment, hold on to what    *)
(* they read: a request that revives the service meanwhile is noted.       *)
Revives ==
  /\ service' = [service EXCEPT !.deleted = "no"]
  /\ Note(IF purge # "idle" THEN {"touched-while-purged"} ELSE {})

(* requireActiveSubscription before createService; getServiceById,          *)
(* softDeleteService, recoverService: the row that a request reads, and    *)
(* whether it goes on with it.                                             *)
Admits(op) ==
  CASE op = "post" -> ~lapsed
    [] op \in {"deploy", "stop", "protect"} -> Live
    [] op = "delete" -> Live /\ ~service.protected
    [] op = "recover" -> Deleted

Reads(r) ==
  /\ request[r].at = "new"
  /\ requests < MaxRequests /\ requests' = requests + 1
  /\ \E op \in Operations :
       /\ Admits(op)
       /\ request' = [request EXCEPT ![r] = [op |-> op, at |-> "read"]]
  /\ UNCHANGED <<service, deployment, job, container, odd, lapsed, lapses, check, pass, purge, purges>>

(* createOrUpdateService: a row of that name is updated and undeleted,     *)
(* whichever it is; without one a row is created.  Both at once is refused *)
(* by the unique index, an environment that is gone by the foreign key.    *)
Upsert(r) ==
  /\ Stands(r, "post", "read")
  /\ \/ Exists /\ Revives
     \/ ~Exists /\ "project-deleted" \notin odd /\ service' = NewRow /\ UNCHANGED odd
     \/ "project-deleted" \in odd /\ UNCHANGED <<service, odd>>
  /\ Ends(r)
  /\ UNCHANGED <<deployment, job, container>> /\ OnlyRequest

(* recoverService: deletedAt is cleared; a row that is gone makes it fail.  *)
Recover(r) ==
  /\ Stands(r, "recover", "read")
  /\ IF Exists THEN Revives ELSE UNCHANGED <<service, odd>>
  /\ Ends(r)
  /\ UNCHANGED <<deployment, job, container>> /\ OnlyRequest

(* toggleProtection: deletedAt is not read again.                          *)
Protect(r) ==
  /\ Stands(r, "protect", "read")
  /\ \E b \in BOOLEAN :
       service' = IF Exists THEN [service EXCEPT !.protected = b] ELSE service
  /\ Ends(r)
  /\ UNCHANGED <<deployment, job, container, odd>> /\ OnlyRequest

(* deployService: the row and the job, then the status.  The row refers to  *)
(* the service, which must still be there.                                 *)
Queue(r) ==
  /\ Stands(r, "deploy", "read")
  /\ job = "idle"
  /\ IF Exists
     THEN /\ deployment' = "QUEUED" /\ job' = "queued"
          /\ Note((IF Deleted THEN {"deployed-while-deleted"} ELSE {}) \cup
                  (IF purge # "idle" THEN {"touched-while-purged"} ELSE {}))
          /\ GoTo(r, "write")
     ELSE Ends(r) /\ UNCHANGED <<deployment, job, odd>>
  /\ UNCHANGED <<service, container>> /\ OnlyRequest

(* stopService: the containers it listed are stopped; without one it ends.  *)
StopContainer(r) ==
  /\ Stands(r, "stop", "read")
  /\ IF container = "none"
     THEN Ends(r) /\ UNCHANGED container
     ELSE GoTo(r, "write") /\ container' = "exited"
  /\ UNCHANGED <<service, deployment, job, odd>> /\ OnlyRequest

WriteStatus(r) ==
  /\ \E op \in {"deploy", "stop"} :
       /\ Stands(r, op, "write")
       /\ IF Exists THEN SetStatus(IF op = "stop" THEN "STOPPED" ELSE "DEPLOYING")
          ELSE UNCHANGED service
  /\ Ends(r)
  /\ UNCHANGED <<deployment, job, container, odd>> /\ OnlyRequest

(* Mutant: containers are left to the clean-up.                            *)
SoftDelete_RowOnly(r) ==
  /\ Stands(r, "delete", "read")
  /\ IF Exists
     THEN /\ service' = [service EXCEPT !.deleted = "recently"]
          /\ Note(IF job # "idle" THEN {"deployed-while-deleted"} ELSE {})
     ELSE UNCHANGED <<service, odd>>
  /\ Ends(r)
  /\ UNCHANGED <<deployment, job, container>> /\ OnlyRequest

(* softDeleteService: deletedAt, whatever happened since the row was read,  *)
(* then the containers.                                                    *)
SoftDelete(r) ==
  /\ Stands(r, "delete", "read")
  /\ IF Exists
     THEN /\ service' = [service EXCEPT !.deleted = "recently"]
          /\ Note(IF job # "idle" THEN {"deployed-while-deleted"} ELSE {})
          /\ GoTo(r, "act")
     ELSE Ends(r) /\ UNCHANGED <<service, odd>>
  /\ UNCHANGED <<deployment, job, container>> /\ OnlyRequest

(* Docker's refusal is logged, and the request ends well.                  *)
RemoveContainers(r) ==
  /\ Stands(r, "delete", "act")
  /\ \/ container' = "none" /\ UNCHANGED odd
     \/ DockerFaults /\ container # "none" /\ Note({"docker-refused"}) /\ UNCHANGED container
  /\ Ends(r)
  /\ UNCHANGED <<service, deployment, job>> /\ OnlyRequest

(* deleteProject: one DELETE, which cascades to environments, services,    *)
(* protected ones too, and deployments; nothing is done about containers.  *)
EraseProject ==
  /\ "project-deleted" \notin odd /\ Note({"project-deleted"})
  /\ service' = NoService /\ deployment' = "none"
  /\ UNCHANGED <<job, container, request>> /\ OnlyRequest

(* The API process dies: a request ends wherever it stands.                *)
Dies(r) ==
  /\ request[r] # NoRequest
  /\ Ends(r)
  /\ Note(IF Stands(r, "delete", "act") THEN {"died-while-deleting"} ELSE {})
  /\ UNCHANGED <<service, deployment, job, container>> /\ OnlyRequest

RequestStep(r) ==
  Reads(r) \/ Upsert(r) \/ Recover(r) \/ Protect(r) \/ Queue(r) \/ StopContainer(r)
    \/ WriteStatus(r) \/ SoftDelete(r) \/ RemoveContainers(r) \/ Dies(r)

-------------------------------------------------------------------------------
OnlyJob == UNCHANGED <<request, requests, lapsed, lapses, check, pass, purge, purges>>

(* BullMQ delivers a job again that failed, or whose worker died, until the *)
(* attempts or stalls it allows are used up, which are not counted here.   *)
MayRunAgain == job' \in {"queued", "idle"}

(* What a job leaves in Docker behind a clean-up that is under way or over. *)
Leaves ==
  Note(IF container' # "none" /\ (purge # "idle" \/ ~Exists)
       THEN {"left-while-purged"} ELSE {})

(* The row and the status tell it, as far as the row is still there and the *)
(* database and the lock do not fail once more, which is only logged.      *)
RecordsFailure(statuses) ==
  \/ UNCHANGED <<deployment, service>>
  \/ /\ deployment # "none" /\ deployment' = "FAILED"
     /\ UNCHANGED service \/ \E s \in statuses : SetStatus(s)

(* The worker: loads the row, builds, starts, records.  It never looks at  *)
(* deletedAt.  A row that is gone ends the job, with no look at Docker; so  *)
(* do variables that do not validate, and the row stays as it was.         *)
Build ==
  /\ job = "queued"
  /\ \/ deployment = "none" /\ job' = "idle" /\ UNCHANGED deployment
     \/ deployment # "none" /\ MayRunAgain /\ UNCHANGED deployment
     \/ deployment # "none" /\ job' = "built" /\ deployment' = "QUEUED"
  /\ UNCHANGED <<service, container, odd>> /\ OnlyJob

Start ==
  /\ job = "built"
  /\ container' = "running" /\ job' = "started"
  /\ UNCHANGED <<service, deployment, odd>> /\ OnlyJob

(* A failure before the new container runs.  One that was created and did  *)
(* not start is unknown to the catch block, and stays.                     *)
BuildFails ==
  /\ job = "built" /\ MayRunAgain
  /\ container' \in {container, IF container = "running" THEN "running" ELSE "exited"}
  /\ Leaves
  /\ RecordsFailure({IF container = "running" THEN "RUNNING" ELSE "FAILED"})
  /\ OnlyJob

Record ==
  /\ job = "started" /\ deployment # "none"
  /\ job' = "idle"
  /\ deployment' = "SUCCESS" /\ SetStatus("RUNNING")
  /\ UNCHANGED container /\ Leaves /\ OnlyJob

(* Mutant: a row that is gone is ignored.                                  *)
Undo_KeepContainer ==
  /\ job = "started" /\ MayRunAgain
  /\ container' = IF deployment = "none" THEN container ELSE "none"
  /\ UNCHANGED odd
  /\ RecordsFailure({"RUNNING", "FAILED"})
  /\ OnlyJob

(* A row that is gone, or a database or lock that fails, makes recording   *)
(* fail: the new container, now the only one, is removed, unless Docker    *)
(* refuses.  The status goes by the containers there were at the start.    *)
Undo ==
  /\ job = "started" /\ MayRunAgain
  /\ \/ container' = "none" /\ UNCHANGED odd
     \/ DockerFaults /\ container # "none" /\ Note({"docker-refused"}) /\ UNCHANGED container
  /\ RecordsFailure({"RUNNING", "FAILED"})
  /\ OnlyJob

JobStep == Build \/ Start \/ BuildFails \/ Record \/ Undo

(* The worker dies at any await: before the start it may have stopped the  *)
(* old containers or created a new one, after it have begun the undo.      *)
WorkerDies ==
  /\ job \in {"built", "started"} /\ MayRunAgain
  /\ container' \in {container, "exited"}
  /\ Leaves
  /\ UNCHANGED <<service, deployment>> /\ OnlyJob

-------------------------------------------------------------------------------
OnlyPasses == UNCHANGED <<deployment, job, container, request, requests, purge, purges, odd>>

Lapse ==
  /\ ~lapsed /\ lapses < MaxLapses
  /\ lapsed' = TRUE /\ lapses' = lapses + 1
  /\ UNCHANGED <<service, check, pass>> /\ OnlyPasses

Pay ==
  /\ lapsed
  /\ lapsed' = FALSE
  /\ UNCHANGED <<service, lapses, check, pass>> /\ OnlyPasses

(* processSubscriptionCheck, suspendUserServices: the lapsed subscriptions *)
(* are read, then the services to suspend, then each is updated by its id. *)
FindLapsed ==
  /\ check = "idle" /\ lapsed
  /\ check' = "subscription"
  /\ UNCHANGED <<service, lapsed, lapses, pass>> /\ OnlyPasses

FindServices ==
  /\ check = "subscription"
  /\ check' = IF Live /\ service.status \notin {"STOPPED", "SUSPENDED"}
              THEN "service" ELSE "idle"
  /\ UNCHANGED <<service, lapsed, lapses, pass>> /\ OnlyPasses

(* Only the status is written: containers run on.                          *)
Suspend ==
  /\ check = "service"
  /\ check' = "idle"
  /\ IF Exists THEN SetStatus("SUSPENDED") ELSE UNCHANGED service
  /\ UNCHANGED <<lapsed, lapses, pass>> /\ OnlyPasses

(* reconcileService: the status that containers and deployments call for.  *)
Expected ==
  CASE deployment = "QUEUED" -> "DEPLOYING"
    [] deployment # "QUEUED" /\ container = "running" -> "RUNNING"
    [] deployment # "QUEUED" /\ container = "exited" -> "STOPPED"
    [] deployment = "FAILED" /\ container = "none" -> "FAILED"
    [] deployment = "SUCCESS" /\ container = "none" -> "STOPPED"
    [] deployment = "none" /\ container = "none" -> "IDLE"

(* A pass reads every row, the deleted ones too, and all containers.       *)
ReadAll ==
  /\ pass.at = "idle" /\ Exists
  /\ pass' = [at |-> "read", seen |-> service.status, expected |-> Expected]
  /\ UNCHANGED <<service, lapsed, lapses, check>> /\ OnlyPasses

(* Mutant: a suspended service is left alone.                              *)
Reconcile_SkipSuspended ==
  /\ pass.at = "read"
  /\ pass' = [at |-> "idle", seen |-> "IDLE", expected |-> "IDLE"]
  /\ IF Exists /\ pass.seen \notin {pass.expected, "SUSPENDED"}
     THEN SetStatus(pass.expected) ELSE UNCHANGED service
  /\ UNCHANGED <<lapsed, lapses, check>> /\ OnlyPasses

(* It writes what it expected unless that is what it had read.             *)
Reconcile ==
  /\ pass.at = "read"
  /\ pass' = [at |-> "idle", seen |-> "IDLE", expected |-> "IDLE"]
  /\ IF Exists /\ pass.seen # pass.expected
     THEN SetStatus(pass.expected) ELSE UNCHANGED service
  /\ UNCHANGED <<lapsed, lapses, check>> /\ OnlyPasses

PassStep == FindLapsed \/ FindServices \/ Suspend \/ ReadAll \/ Reconcile

-------------------------------------------------------------------------------
OnlyPurge == UNCHANGED <<request, requests, lapsed, lapses, check, pass>>

(* Thirty days pass, longer than any request or deployment takes.          *)
Ages ==
  /\ Exists /\ service.deleted = "recently"
  /\ job = "idle" /\ \A r \in Requests : request[r] = NoRequest
  /\ service' = [service EXCEPT !.deleted = "30-days-ago"]
  /\ UNCHANGED <<deployment, job, container, purge, purges, odd>> /\ OnlyPurge

(* Mutant: the date of the deletion is not compared.                       *)
ListExpired_Any ==
  /\ purge = "idle" /\ purges < MaxPurges
  /\ Deleted
  /\ purge' = "listed" /\ purges' = purges + 1
  /\ Note(IF job # "idle" THEN {"touched-while-purged"} ELSE {})
  /\ UNCHANGED <<service, deployment, job, container>> /\ OnlyPurge

(* cleanupProcessor reads what was deleted more than 30 days ago.          *)
ListExpired ==
  /\ purge = "idle" /\ purges < MaxPurges
  /\ Exists /\ service.deleted = "30-days-ago"
  /\ purge' = "listed" /\ purges' = purges + 1
  /\ Note(IF job # "idle" THEN {"touched-while-purged"} ELSE {})
  /\ UNCHANGED <<service, deployment, job, container>> /\ OnlyPurge

(* permanentlyDeleteService: containers, images and volumes, deployment    *)
(* rows, service row.  Errors of Docker are dropped, deletedAt is not read  *)
(* again.                                                                  *)
PurgeContainers ==
  /\ purge = "listed"
  /\ \/ container' = "none" /\ UNCHANGED odd
     \/ DockerFaults /\ container # "none" /\ Note({"docker-refused"}) /\ UNCHANGED container
  /\ purge' = "rows"
  /\ UNCHANGED <<service, deployment, job, purges>> /\ OnlyPurge

PurgeDeployments ==
  /\ purge = "rows"
  /\ deployment' = "none"
  /\ purge' = "row"
  /\ UNCHANGED <<service, job, container, purges, odd>> /\ OnlyPurge

PurgeService ==
  /\ purge = "row"
  /\ service' = NoService /\ deployment' = "none"
  /\ purge' = "idle"
  /\ UNCHANGED <<job, container, purges, odd>> /\ OnlyPurge

PurgeStep == Ages \/ ListExpired \/ PurgeContainers \/ PurgeDeployments \/ PurgeService

LifecycleNext ==
  (\E r \in Requests : RequestStep(r)) \/ EraseProject \/ JobStep \/ WorkerDies \/ Lapse \/ Pay
    \/ PassStep \/ PurgeStep

LifecycleSpec == LifecycleInit /\ [][LifecycleNext]_lifecycleVars

(* Workers, passes and clean-up run on; a request, whose process may die,   *)
(* need not.                                                               *)
LifecycleFairness ==
  /\ WF_lifecycleVars(JobStep)
  /\ WF_lifecycleVars(FindLapsed) /\ WF_lifecycleVars(FindServices) /\ WF_lifecycleVars(Suspend)
  /\ WF_lifecycleVars(ReadAll) /\ WF_lifecycleVars(Reconcile)
  /\ WF_lifecycleVars(PurgeContainers \/ PurgeDeployments \/ PurgeService)

-------------------------------------------------------------------------------
(* What the clean-up erased has left nothing in Docker: no container is     *)
(* there for a service whose row is gone, unless a deployment that started  *)
(* it is still to find that out.  The circumstances in which the code does  *)
(* leave one: a deployment succeeded while the clean-up was under way; its  *)
(* worker died, or its container was created and did not start, during the *)
(* clean-up or after it, since a job delivered again finds no row and looks *)
(* no further; Docker refused; the project was deleted.                    *)
ErasedLeavesNothing ==
  ~Exists /\ container # "none" =>
    \/ job = "started"
    \/ odd \cap {"left-while-purged", "docker-refused", "project-deleted"} # {}

(* A deleted service does not run, unless it is being deleted, a           *)
(* deployment of it was queued or running when it was, Docker refused, or   *)
(* the API died between the row and the containers.                        *)
DeletedStops ==
  Deleted /\ container = "running" =>
    \/ \E r \in Requests : Stands(r, "delete", "act")
    \/ odd \cap {"deployed-while-deleted", "died-while-deleting", "docker-refused"} # {}

(* The clean-up erases a service that is deleted for 30 days; only one that *)
(* was recovered or created anew while the pass was under way is the       *)
(* exception, and is erased all the same; so is one whose project goes.    *)
ErasedAfter30Days ==
  [][Exists /\ service' = NoService =>
       \/ service.deleted = "30-days-ago"
       \/ "touched-while-purged" \in odd
       \/ "project-deleted" \in odd' \ odd]_lifecycleVars

(* When the subscription is paid for good, the status SUSPENDED ends: the  *)
(* next reconciliation replaces it, also when a check that began before    *)
(* the payment writes it late.                                             *)
SuspensionEnds == <>[]~lapsed => <>[](Exists => service.status # "SUSPENDED")

(* While the subscription is not paid, a service that was suspended stays   *)
(* so until its user asks for something or a deployment of it goes on.     *)
SuspendedStays ==
  [][lapsed /\ Live /\ service.status = "SUSPENDED" /\ job = "idle"
       /\ UNCHANGED request /\ Exists' => service'.status = "SUSPENDED"]_lifecycleVars
===============================================================================
