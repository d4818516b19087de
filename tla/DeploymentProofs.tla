--------------------------- MODULE DeploymentProofs ---------------------------
(***************************************************************************)
(* What holds of module Deployment whatever the number of deployments,     *)
(* containers, workers, requests, passes, crashes and redeliveries: the    *)
(* types of its variables, who may hold the status lock, the rows and      *)
(* their jobs, and the containers where one worker's deployments are the   *)
(* only thing that touches them.                                           *)
(***************************************************************************)
EXTENDS Deployment, FiniteSetTheorems, WellFoundedInduction, TLAPS

(* docker.createContainer answers with a container that did not exist.     *)
LEMMA FreshIsNew ==
  ASSUME CanCreate
  PROVE  FreshContainer \in Containers /\ ctr[FreshContainer] = "none"
BY DEF CanCreate, FreshContainer

-------------------------------------------------------------------------------
(* Type correctness: one lemma per component, one step per action.         *)

(* The newest deployment row exists when there is any.                     *)
LEMMA NewestRecord ==
  ASSUME Records # {}
  PROVE  \E d \in Records : \A e \in Records : e <= d
<1> DEFINE Back == {MaxDeployments - d : d \in Records}
           Less == {p \in Nat \X Nat : p[1] < p[2]}
<1>1. Records \subseteq 1 .. MaxDeployments /\ MaxDeployments \in Nat
  BY PlatformAssumption DEF Records, Deployments
<1>2. Back \subseteq Nat /\ Back # {}
  <2>1. \A d \in Records : MaxDeployments - d \in Nat
    BY <1>1
  <2> QED
    BY <2>1
<1>3. IsWellFoundedOn(Less, Nat)
  BY NatLessThanWellFounded DEF OpToRel
<1>4. PICK m \in Back : \A n \in Back : <<n, m>> \notin Less
  <2> HIDE DEF Back, Less
  <2> QED
    BY <1>2, <1>3, WFMin
<1>5. ASSUME NEW n \in Back  PROVE m <= n
  <2>1. m \in Nat /\ n \in Nat /\ <<n, m>> \notin Less
    BY <1>2, <1>4
  <2> QED
    BY <2>1
<1>6. PICK d \in Records : m = MaxDeployments - d
  OBVIOUS
<1>7. \A e \in Records : MaxDeployments - d <= MaxDeployments - e
  BY <1>5, <1>6
<1> QED
  BY <1>1, <1>7

(* What the container listings return.                                     *)
LEMMA ListedAreContainers ==
  Present \in SUBSET Containers /\ Running \in SUBSET Containers
BY DEF Present, Running

(* The latest row, when there is one, has the status of a row.             *)
LEMMA LatestIsState == PlatformTypeOK => LatestRecord \in RecordStates
<1> SUFFICES ASSUME PlatformTypeOK, Records # {}  PROVE LatestRecord \in RecordStates
  BY DEF LatestRecord, RecordStates
<1> DEFINE d == CHOOSE x \in Records : \A e \in Records : e <= x
<1>1. d \in Records
  BY NewestRecord
<1> QED
  BY <1>1 DEF LatestRecord, Records, PlatformTypeOK

(* Reconciliation works out a Service.status whatever it has read.         *)
LEMMA ExpectedIsStatus ==
  \A latest, states : ExpectedStatus(latest, states) \in ServiceStates
BY DEF ExpectedStatus, ServiceStates

(* The initial state is well typed.                                        *)
LEMMA InitType == Init => TypeOK
BY PlatformAssumption, WorkerAssumption
   DEF Init, TypeOK, PlatformInit, PlatformTypeOK, WorkerInit, WorkerTypeOK,
       ApiInit, ApiTypeOK, ReconcilerInit, ReconcilerTypeOK, Idle, Snapshot, Opened,
       Up, Handler,
       ServiceStates, RecordStates, JobStates, ContainerStates, ModeSet, PcStates,
       AtStates, OpSet

(* Each step of a worker keeps the types.                                  *)
LEMMA WorkerType ==
  ASSUME TypeOK, WorkerNext, UNCHANGED <<req, pass>>
  PROVE  TypeOK'
<1> DEFINE Typed == PlatformTypeOK /\ lock \in Clients \cup {Free, Orphaned} /\ WorkerTypeOK
<1> SUFFICES Typed'
  BY DEF TypeOK, ApiTypeOK, ReconcilerTypeOK
<1> USE DEF TypeOK, PlatformTypeOK, WorkerTypeOK, PcStates, LockedPcs, At, Go, Step,
            platformVars, recordVars, jobVars, serviceVars
<1>1. ASSUME NEW w \in Workers, TakeJob(w)  PROVE Typed'
  BY <1>1 DEF TakeJob, JobStates
<1>2. ASSUME NEW w \in Workers, LoadRecord(w)  PROVE Typed'
  BY <1>2 DEF LoadRecord
<1>3. ASSUME NEW w \in Workers, MarkBuilding(w)  PROVE Typed'
  BY <1>3 DEF MarkBuilding, WriteRecord, RecordIsGone, RecordStates, Throw
<1>4. ASSUME NEW w \in Workers, CaptureOld(w)  PROVE Typed'
  BY <1>4 DEF CaptureOld, Running
<1>5. ASSUME NEW w \in Workers, BuildSucceeds(w)  PROVE Typed'
  BY <1>5 DEF BuildSucceeds
<1>6. ASSUME NEW w \in Workers, ComposeUp(w)  PROVE Typed'
  BY FreshIsNew, <1>6 DEF ComposeUp, Throw, ContainerStates
<1>7. ASSUME NEW w \in Workers, BuildFails(w)  PROVE Typed'
  BY <1>7 DEF BuildFails, Throw
<1>8. ASSUME NEW w \in Workers, ListToStop(w)  PROVE Typed'
  BY <1>8 DEF ListToStop, Present
<1>9. ASSUME NEW w \in Workers, StopOld(w)  PROVE Typed'
  BY <1>9 DEF StopOld, Stopped, ContainerStates
<1>10. ASSUME NEW w \in Workers, CreateNew(w)  PROVE Typed'
  BY FreshIsNew, <1>10 DEF CreateNew, ContainerStates
<1>11. ASSUME NEW w \in Workers, CreateFails(w)  PROVE Typed'
  BY <1>11 DEF CreateFails, Throw
<1>12. ASSUME NEW w \in Workers, StartNew(w)  PROVE Typed'
  BY <1>12 DEF StartNew, ContainerStates
<1>13. ASSUME NEW w \in Workers, StartFails(w)  PROVE Typed'
  BY <1>13 DEF StartFails
<1>14. ASSUME NEW w \in Workers, ListToClean(w)  PROVE Typed'
  BY <1>14 DEF ListToClean, Present
<1>15. ASSUME NEW w \in Workers, CleanStop(w)  PROVE Typed'
  BY <1>15 DEF CleanStop, Stopped, ContainerStates
<1>16. ASSUME NEW w \in Workers, CleanRemove(w)  PROVE Typed'
  BY <1>16 DEF CleanRemove, Removed, ContainerStates
<1>17. ASSUME NEW w \in Workers, ListFails(w)  PROVE Typed'
  BY <1>17 DEF ListFails, Throw
<1>18. ASSUME NEW w \in Workers, RecordSuccess(w)  PROVE Typed'
  BY <1>18 DEF RecordSuccess, WriteRecord, RecordIsGone, RecordStates, Throw
<1>19. ASSUME NEW w \in Workers, LockSuccess(w)  PROVE Typed'
  BY <1>19 DEF LockSuccess, AcquireStatusLock, StatusLockRefused, Clients, Throw
<1>20. ASSUME NEW w \in Workers, WriteRunning(w)  PROVE Typed'
  BY <1>20 DEF WriteRunning, ReleaseStatusLock, ServiceStates, Throw
<1>21. ASSUME NEW w \in Workers, UndoNew(w)  PROVE Typed'
  BY <1>21 DEF UndoNew, ContainerStates
<1>22. ASSUME NEW w \in Workers, RollbackOne(w)  PROVE Typed'
  BY <1>22 DEF RollbackOne, Restarted, ContainerStates
<1>23. ASSUME NEW w \in Workers, RollbackEnds(w)  PROVE Typed'
  BY <1>23 DEF RollbackEnds
<1>24. ASSUME NEW w \in Workers, RecordFailed(w)  PROVE Typed'
  BY <1>24 DEF RecordFailed, WriteRecord, RecordIsGone, RecordStates
<1>25. ASSUME NEW w \in Workers, LockFailed(w)  PROVE Typed'
  BY <1>25 DEF LockFailed, AcquireStatusLock, StatusLockRefused, Clients
<1>26. ASSUME NEW w \in Workers, WriteFailed(w)  PROVE Typed'
  BY <1>26 DEF WriteFailed, ReleaseStatusLock, ServiceStates
<1>27. ASSUME NEW w \in Workers, CompleteJob(w)  PROVE Typed'
  BY <1>27 DEF CompleteJob, EndJob, ResetLocals, JobStates
<1>28. ASSUME NEW w \in Workers, FailJob(w)  PROVE Typed'
  <2>1. job' \in [Deployments -> JobStates]
    BY <1>28 DEF FailJob, EndJob, JobStates
  <2>2. fails' \in [Deployments -> Nat]
    BY <1>28 DEF FailJob, EndJob
  <2> QED
    BY <1>28, <2>1, <2>2 DEF FailJob, EndJob, ResetLocals
<1>29. ASSUME NEW w \in Workers, CrashWorker(w)  PROVE Typed'
  BY <1>29 DEF CrashWorker, ResetLocals, AbandonStatusLock
<1>30. ASSUME NEW d \in Deployments, StalledJob(d)  PROVE Typed'
  BY <1>30 DEF StalledJob, JobStates, workerVars
<1> QED
  BY <1>1, <1>2, <1>3, <1>4, <1>5, <1>6, <1>7, <1>8, <1>9, <1>10, <1>11,
     <1>12, <1>13, <1>14, <1>15, <1>16, <1>17, <1>18, <1>19, <1>20, <1>21,
     <1>22, <1>23, <1>24, <1>25, <1>26, <1>27, <1>28, <1>29, <1>30
     DEF WorkerNext, HandleJob, Deploy, RollBack

(* How a handler's local state may move.                                   *)
LEMMA MoveType ==
  ASSUME ApiTypeOK, NEW r \in Requests, NEW there \in AtStates, Move(r, there)
  PROVE  ApiTypeOK'
BY DEF ApiTypeOK, Handler, Move, Advance

(* A reply leaves a well-typed local state.                                *)
LEMMA ReplyType ==
  ASSUME ApiTypeOK, NEW r \in Requests, Reply(r)
  PROVE  ApiTypeOK'
BY DEF ApiTypeOK, Handler, Reply, Begin, Opened, Up, AtStates, OpSet

(* So does the first step of a request, for well-typed arguments.          *)
LEMMA BeginType ==
  ASSUME ApiTypeOK, NEW r \in Requests, NEW there \in AtStates,
         NEW d \in Deployments \cup {0}, NEW op \in OpSet \cup {"none"},
         NEW list \in SUBSET Containers, Begin(r, there, d, op, list)
  PROVE  ApiTypeOK'
BY DEF ApiTypeOK, Handler, Begin, Opened, Up

(* So does a later step of a request.                                      *)
LEMMA AdvanceType ==
  ASSUME ApiTypeOK, NEW r \in Requests, NEW there \in AtStates,
         NEW list \in SUBSET Containers, NEW new \in Containers \cup {NoContainer},
         NEW held \in Containers \cup {NoContainer}, Advance(r, there, list, new, held)
  PROVE  ApiTypeOK'
BY DEF ApiTypeOK, Handler, Advance

(* Each step of an API handler keeps the types.                            *)
LEMMA ApiType ==
  ASSUME TypeOK, ApiNext, UNCHANGED <<workerVars, pass>>
  PROVE  TypeOK'
<1> DEFINE Held == lock \in Clients \cup {Free, Orphaned}
           Typed == PlatformTypeOK /\ Held /\ ApiTypeOK
<1> SUFFICES Typed'
  BY DEF TypeOK, WorkerTypeOK, ReconcilerTypeOK, workerVars
<1> USE PlatformAssumption, ApiAssumption
    DEF TypeOK, PlatformTypeOK, AtStates, OpSet, In, platformVars, recordVars,
        jobVars, serviceVars
<1>1. ASSUME NEW r \in Requests, DeployService(r)  PROVE Typed'
  <2>1. PlatformTypeOK' /\ Held'
    BY <1>1 DEF DeployService, OpenDeployment, CreateRecord, Opens, RecordStates
  <2>2. ApiTypeOK'
    BY BeginType, <1>1 DEF DeployService, OpenDeployment, CreateRecord, Opens
  <2> QED
    BY <2>1, <2>2
<1>2. ASSUME NEW r \in Requests, HandlePushEvent(r)  PROVE Typed'
  <2>1. PlatformTypeOK' /\ Held'
    BY <1>2 DEF HandlePushEvent, OpenDeployment, CreateRecord, Opens, RecordStates
  <2>2. ApiTypeOK'
    BY BeginType, <1>2 DEF HandlePushEvent, OpenDeployment, CreateRecord, Opens
  <2> QED
    BY <2>1, <2>2
<1>3. ASSUME NEW r \in Requests, StopService(r)  PROVE Typed'
  <2>1. PlatformTypeOK' /\ Held'
    BY <1>3 DEF StopService, Opens
  <2>2. ApiTypeOK'
    BY BeginType, ListedAreContainers, <1>3 DEF StopService, Opens
  <2> QED
    BY <2>1, <2>2
<1>4. ASSUME NEW r \in Requests, RestartService(r)  PROVE Typed'
  <2>1. PlatformTypeOK' /\ Held'
    BY <1>4 DEF RestartService, Opens
  <2>2. ApiTypeOK'
    BY BeginType, ListedAreContainers, <1>4 DEF RestartService, Opens
  <2> QED
    BY <2>1, <2>2
<1>5. ASSUME NEW r \in Requests, SoftDeleteService(r)  PROVE Typed'
  <2>1. PlatformTypeOK' /\ Held'
    BY <1>5 DEF SoftDeleteService, Opens
  <2>2. ApiTypeOK'
    BY MoveType, <1>5 DEF SoftDeleteService, Opens
  <2> QED
    BY <2>1, <2>2
<1>6. ASSUME NEW r \in Requests, RecoverService(r)  PROVE Typed'
  <2>1. PlatformTypeOK' /\ Held'
    BY <1>6 DEF RecoverService, Opens
  <2>2. ApiTypeOK'
    BY ReplyType, <1>6 DEF RecoverService, Opens
  <2> QED
    BY <2>1, <2>2
<1>7. ASSUME NEW r \in Requests, PurgeService(r)  PROVE Typed'
  <2>1. PlatformTypeOK' /\ Held'
    BY <1>7 DEF PurgeService, Opens
  <2>2. ApiTypeOK'
    BY BeginType, ListedAreContainers, <1>7 DEF PurgeService, Opens
  <2> QED
    BY <2>1, <2>2
<1>8. ASSUME NEW r \in Requests, Enqueue(r)  PROVE Typed'
  <2>1. PlatformTypeOK' /\ Held'
    BY <1>8 DEF Enqueue, JobStates
  <2>2. ApiTypeOK'
    BY MoveType, ReplyType, <1>8 DEF Enqueue, In
  <2> QED
    BY <2>1, <2>2
<1>9. ASSUME NEW r \in Requests, EnqueueFails(r)  PROVE Typed'
  <2>1. PlatformTypeOK' /\ Held'
    BY <1>9 DEF EnqueueFails
  <2>2. ApiTypeOK'
    BY ReplyType, <1>9 DEF EnqueueFails, In
  <2> QED
    BY <2>1, <2>2
<1>10. ASSUME NEW r \in Requests, LockStatus(r)  PROVE Typed'
  <2>1. PlatformTypeOK' /\ Held'
    BY <1>10 DEF LockStatus, AcquireStatusLock, StatusLockRefused, Clients
  <2>2. ApiTypeOK'
    BY MoveType, ReplyType, <1>10 DEF LockStatus, In
  <2> QED
    BY <2>1, <2>2
<1>11. ASSUME NEW r \in Requests, WriteStatus(r)  PROVE Typed'
  <2>1. PlatformTypeOK' /\ Held'
    BY <1>11 DEF WriteStatus, ReleaseStatusLock, ServiceStates
  <2>2. ApiTypeOK'
    BY ReplyType, <1>11 DEF WriteStatus, In
  <2> QED
    BY <2>1, <2>2
<1>12. ASSUME NEW r \in Requests, StopListed(r)  PROVE Typed'
  <2>1. PlatformTypeOK' /\ Held'
    BY <1>12 DEF StopListed, Stopped, ContainerStates
  <2>2. ApiTypeOK'
    BY <1>12 DEF StopListed, Begin, Opened, Advance, Reply, Up,
       ApiTypeOK, Handler
  <2> QED
    BY <2>1, <2>2
<1>13. ASSUME NEW r \in Requests, RestartCreate(r)  PROVE Typed'
  <2>1. PlatformTypeOK' /\ Held'
    BY FreshIsNew, <1>13 DEF RestartCreate, ContainerStates
  <2>2. ApiTypeOK'
    BY FreshIsNew, <1>13 DEF RestartCreate, Begin, Opened, Advance, Reply, Up,
       ApiTypeOK, Handler
  <2> QED
    BY <2>1, <2>2
<1>14. ASSUME NEW r \in Requests, RestartStart(r)  PROVE Typed'
  <2>1. PlatformTypeOK' /\ Held'
    BY <1>14 DEF RestartStart, ContainerStates
  <2>2. ApiTypeOK'
    BY MoveType, ReplyType, <1>14 DEF RestartStart, In
  <2> QED
    BY <2>1, <2>2
<1>15. ASSUME NEW r \in Requests, LoopStop(r)  PROVE Typed'
  <2>1. PlatformTypeOK' /\ Held'
    BY <1>15 DEF LoopStop, Stopped, ContainerStates
  <2>2. ApiTypeOK'
    BY <1>15 DEF LoopStop, Begin, Opened, Advance, Reply, Up,
       ApiTypeOK, Handler
  <2> QED
    BY <2>1, <2>2
<1>16. ASSUME NEW r \in Requests, LoopRemove(r)  PROVE Typed'
  <2>1. PlatformTypeOK' /\ Held'
    BY <1>16 DEF LoopRemove, Removed, ContainerStates
  <2>2. ApiTypeOK'
    BY <1>16 DEF LoopRemove, Begin, Opened, Advance, Reply, Up,
       ApiTypeOK, Handler
  <2> QED
    BY <2>1, <2>2
<1>17. ASSUME NEW r \in Requests, ListForDelete(r)  PROVE Typed'
  <2>1. PlatformTypeOK' /\ Held'
    BY <1>17 DEF ListForDelete
  <2>2. ApiTypeOK'
    BY BeginType, ReplyType, ListedAreContainers, <1>17 DEF ListForDelete
  <2> QED
    BY <2>1, <2>2
<1>18. ASSUME NEW r \in Requests, DeleteListed(r)  PROVE Typed'
  <2>1. PlatformTypeOK' /\ Held'
    BY <1>18 DEF DeleteListed, ContainerStates
  <2>2. ApiTypeOK'
    BY <1>18 DEF DeleteListed, Begin, Opened, Advance, Reply, Up,
       ApiTypeOK, Handler
  <2> QED
    BY <2>1, <2>2
<1>19. ASSUME NEW r \in Requests, PurgeRecords(r)  PROVE Typed'
  <2>1. PlatformTypeOK' /\ Held'
    BY <1>19 DEF PurgeRecords, EraseRecords, RecordStates
  <2>2. ApiTypeOK'
    BY MoveType, <1>19 DEF PurgeRecords, In
  <2> QED
    BY <2>1, <2>2
<1>20. ASSUME NEW r \in Requests, PurgeRow(r)  PROVE Typed'
  <2>1. PlatformTypeOK' /\ Held'
    BY <1>20 DEF PurgeRow, EraseRecords, RecordStates
  <2>2. ApiTypeOK'
    BY ReplyType, <1>20 DEF PurgeRow, In
  <2> QED
    BY <2>1, <2>2
<1>21. ASSUME NEW r \in Requests, SyncPreview(r)  PROVE Typed'
  <2>1. PlatformTypeOK' /\ Held'
    BY <1>21 DEF SyncPreview, Opens, ServiceStates
  <2>2. ApiTypeOK'
    BY BeginType, <1>21 DEF SyncPreview, Opens
  <2> QED
    BY <2>1, <2>2
<1>22. ASSUME NEW r \in Requests, InsertRecord(r)  PROVE Typed'
  <2>1. PlatformTypeOK' /\ Held'
    BY <1>22 DEF InsertRecord, CreateRecord, RecordStates
  <2>2. ApiTypeOK'
    BY BeginType, ReplyType, <1>22 DEF InsertRecord, CreateRecord
  <2> QED
    BY <2>1, <2>2
<1> QED
  BY <1>1, <1>2, <1>3, <1>4, <1>5, <1>6, <1>7, <1>8, <1>9, <1>10, <1>11,
     <1>12, <1>13, <1>14, <1>15, <1>16, <1>17, <1>18, <1>19, <1>20, <1>21, <1>22
     DEF ApiNext, OpenRequest, ContinueRequest

(* Each step of a reconciliation pass keeps the types.                     *)
LEMMA ReconcilerType ==
  ASSUME TypeOK, ReconcilerNext, UNCHANGED <<workerVars, req>>
  PROVE  TypeOK'
<1> DEFINE Typed ==
      PlatformTypeOK /\ lock \in Clients \cup {Free, Orphaned} /\ ReconcilerTypeOK
<1> SUFFICES Typed'
  BY DEF TypeOK, WorkerTypeOK, ApiTypeOK, workerVars
<1> USE DEF TypeOK, PlatformTypeOK, ReconcilerTypeOK,
        platformVars, recordVars, jobVars, serviceVars
<1>1. ASSUME NEW k \in Passes, ReadServices(k)  PROVE Typed'
  BY <1>1, LatestIsState DEF ReadServices, Snapshot, ServiceStates
<1>2. ASSUME NEW k \in Passes, ListContainers(k)  PROVE Typed'
  BY <1>2, ExpectedIsStatus DEF ListContainers, Snapshot, RecordStates
<1>3. ASSUME NEW k \in Passes, LockService(k)  PROVE Typed'
  BY <1>3 DEF LockService, AcquireStatusLock, StatusLockRefused, Clients,
     Idle, Snapshot, ServiceStates, RecordStates
<1>4. ASSUME NEW k \in Passes, Reconcile(k)  PROVE Typed'
  BY <1>4 DEF Reconcile, ReleaseStatusLock, Idle, Snapshot, ServiceStates,
     RecordStates
<1> QED
  BY <1>1, <1>2, <1>3, <1>4 DEF ReconcilerNext, PassStep

(* So do a flapping container and an expiring lease.                       *)
LEMMA EnvironmentType ==
  ASSUME TypeOK, Flap \/ LeaseEnds, UNCHANGED <<workerVars, req, pass>>
  PROVE  TypeOK'
BY DEF TypeOK, PlatformTypeOK, WorkerTypeOK, ApiTypeOK, ReconcilerTypeOK, Flap,
       LeaseEnds, LeaseExpires, ContainerStates, workerVars, recordVars, jobVars,
       serviceVars

(* Every step keeps the types.                                             *)
LEMMA TypeNext ==
  ASSUME TypeOK, [Next]_vars
  PROVE  TypeOK'
<1>1. CASE WorkerNext /\ UNCHANGED <<req, pass>>
  BY <1>1, WorkerType
<1>2. CASE ApiNext /\ UNCHANGED <<workerVars, pass>>
  BY <1>2, ApiType
<1>3. CASE ReconcilerNext /\ UNCHANGED <<workerVars, req>>
  BY <1>3, ReconcilerType
<1>4. CASE (Flap \/ LeaseEnds) /\ UNCHANGED <<workerVars, req, pass>>
  BY <1>4, EnvironmentType
<1>5. CASE UNCHANGED vars
  BY <1>5 DEF TypeOK, PlatformTypeOK, WorkerTypeOK, ApiTypeOK, ReconcilerTypeOK,
     vars, platformVars, workerVars, recordVars, jobVars, serviceVars
<1> QED
  BY <1>1, <1>2, <1>3, <1>4, <1>5 DEF Next

(* Every reachable state of the pipeline is well typed: no handler writes  *)
(* a status, a container or a local variable outside its type.             *)
THEOREM TypeCorrect == Spec => []TypeOK
BY InitType, TypeNext, PTL DEF Spec

-------------------------------------------------------------------------------
(* The status lock.                                                        *)

(* The tokens of workers, requests and passes are different, and none is   *)
(* taken for a key that is absent or whose owner died.                     *)
LEMMA ClientsDiffer ==
  /\ Clients \cap {Free, Orphaned} = {}
  /\ Workers \cap Requests = {} /\ Workers \cap Passes = {} /\ Requests \cap Passes = {}
BY WorkerAssumption, ApiAssumption, ReconcilerAssumption, ClientAssumption DEF Clients

(* A step of a client that is outside its critical section, and does not   *)
(* touch the lock, leaves the holder where it is.                          *)
LEMMA WorkerOutside ==
  ASSUME TypeOK, LockHeldOnlyInside, UNCHANGED <<lock, req, pass>>,
         NEW w \in Workers, pc[w] \notin LockedPcs,
         \A v \in Workers : v # w => pc'[v] = pc[v]
  PROVE  LockHeldOnlyInside'
BY ClientsDiffer DEF LockHeldOnlyInside, Inside, Clients

(* The same for a request.                                                 *)
LEMMA RequestOutside ==
  ASSUME TypeOK, LockHeldOnlyInside, UNCHANGED <<lock, workerVars, pass>>,
         NEW r \in Requests, req[r].at # "write",
         \A q \in Requests : q # r => req'[q] = req[q]
  PROVE  LockHeldOnlyInside'
BY ClientsDiffer DEF LockHeldOnlyInside, Inside, Clients, workerVars

(* Every step of a worker, except the two that ask for the lock, the two   *)
(* that write under it and a crash, is a step outside.                     *)
LEMMA WorkerSteps ==
  ASSUME TypeOK, NEW w \in Workers, TakeJob(w) \/ HandleJob(w)
  PROVE  \/ LockSuccess(w) \/ LockFailed(w) \/ WriteRunning(w) \/ WriteFailed(w)
         \/ /\ pc[w] \notin LockedPcs
            /\ UNCHANGED lock
            /\ \A v \in Workers : v # w => pc'[v] = pc[v]
<1> USE DEF TypeOK, WorkerTypeOK, LockedPcs, At, Go, Step, platformVars
<1>1. CASE TakeJob(w)
  BY <1>1 DEF TakeJob
<1>2. CASE LoadRecord(w)
  BY <1>2 DEF LoadRecord
<1>3. CASE MarkBuilding(w)
  BY <1>3 DEF MarkBuilding, Throw
<1>4. CASE CaptureOld(w)
  BY <1>4 DEF CaptureOld
<1>5. CASE BuildSucceeds(w)
  BY <1>5 DEF BuildSucceeds
<1>6. CASE ComposeUp(w)
  BY <1>6 DEF ComposeUp, Throw
<1>7. CASE BuildFails(w)
  BY <1>7 DEF BuildFails, Throw
<1>8. CASE ListToStop(w)
  BY <1>8 DEF ListToStop
<1>9. CASE StopOld(w)
  BY <1>9 DEF StopOld
<1>10. CASE CreateNew(w)
  BY <1>10 DEF CreateNew
<1>11. CASE CreateFails(w)
  BY <1>11 DEF CreateFails, Throw
<1>12. CASE StartNew(w)
  BY <1>12 DEF StartNew
<1>13. CASE StartFails(w)
  BY <1>13 DEF StartFails
<1>14. CASE ListToClean(w)
  BY <1>14 DEF ListToClean
<1>15. CASE CleanStop(w)
  BY <1>15 DEF CleanStop
<1>16. CASE CleanRemove(w)
  BY <1>16 DEF CleanRemove
<1>17. CASE ListFails(w)
  BY <1>17 DEF ListFails, Throw
<1>18. CASE RecordSuccess(w)
  BY <1>18 DEF RecordSuccess, Throw
<1>19. CASE UndoNew(w)
  BY <1>19 DEF UndoNew
<1>20. CASE RollbackOne(w)
  BY <1>20 DEF RollbackOne
<1>21. CASE RollbackEnds(w)
  BY <1>21 DEF RollbackEnds
<1>22. CASE RecordFailed(w)
  BY <1>22 DEF RecordFailed
<1>23. CASE CompleteJob(w)
  BY <1>23 DEF CompleteJob, EndJob, ResetLocals
<1>24. CASE FailJob(w)
  BY <1>24 DEF FailJob, EndJob, ResetLocals
<1> QED
  BY <1>1, <1>2, <1>3, <1>4, <1>5, <1>6, <1>7, <1>8, <1>9, <1>10, <1>11,
     <1>12, <1>13, <1>14, <1>15, <1>16, <1>17, <1>18, <1>19, <1>20, <1>21,
     <1>22, <1>23, <1>24
     DEF HandleJob, Deploy, RollBack

(* The lock through a step of a worker.                                    *)
LEMMA WorkerLock ==
  ASSUME TypeOK, LockHeldOnlyInside, WorkerNext, UNCHANGED <<req, pass>>
  PROVE  LockHeldOnlyInside'
<1> USE ClientsDiffer DEF TypeOK, WorkerTypeOK, LockHeldOnlyInside, Inside, Clients,
        LockedPcs, At, Go, Step
<1>1. ASSUME NEW w \in Workers, LockSuccess(w)  PROVE LockHeldOnlyInside'
  BY <1>1 DEF LockSuccess, AcquireStatusLock, StatusLockRefused, Throw
<1>2. ASSUME NEW w \in Workers, LockFailed(w)  PROVE LockHeldOnlyInside'
  BY <1>2 DEF LockFailed, AcquireStatusLock, StatusLockRefused
<1>3. ASSUME NEW w \in Workers, WriteRunning(w)  PROVE LockHeldOnlyInside'
  BY <1>3 DEF WriteRunning, ReleaseStatusLock, Throw
<1>4. ASSUME NEW w \in Workers, WriteFailed(w)  PROVE LockHeldOnlyInside'
  BY <1>4 DEF WriteFailed, ReleaseStatusLock
<1>5. ASSUME NEW w \in Workers, CrashWorker(w)  PROVE LockHeldOnlyInside'
  BY <1>5 DEF CrashWorker, AbandonStatusLock, ResetLocals
<1>6. ASSUME NEW w \in Workers, TakeJob(w) \/ HandleJob(w)  PROVE LockHeldOnlyInside'
  BY <1>1, <1>2, <1>3, <1>4, <1>6, WorkerSteps, WorkerOutside
<1>7. ASSUME NEW d \in Deployments, StalledJob(d)  PROVE LockHeldOnlyInside'
  BY <1>7 DEF StalledJob, workerVars
<1> QED
  BY <1>5, <1>6, <1>7 DEF WorkerNext

(* Every step of a request but LockStatus and WriteStatus is one outside.  *)
LEMMA RequestSteps ==
  ASSUME TypeOK, NEW r \in Requests, OpenRequest(r) \/ ContinueRequest(r)
  PROVE  \/ LockStatus(r) \/ WriteStatus(r)
         \/ /\ req[r].at # "write"
            /\ UNCHANGED lock
            /\ \A q \in Requests : q # r => req'[q] = req[q]
<1> USE DEF TypeOK, ApiTypeOK, In
<1>1. CASE DeployService(r)
  BY <1>1 DEF DeployService, OpenDeployment, CreateRecord, Opens, Begin
<1>2. CASE HandlePushEvent(r)
  BY <1>2 DEF HandlePushEvent, OpenDeployment, CreateRecord, Opens, Begin
<1>3. CASE StopService(r)
  BY <1>3 DEF StopService, Opens, Begin, platformVars
<1>4. CASE RestartService(r)
  BY <1>4 DEF RestartService, Opens, Begin, platformVars
<1>5. CASE SoftDeleteService(r)
  BY <1>5 DEF SoftDeleteService, Opens, Move, Advance
<1>6. CASE RecoverService(r)
  BY <1>6 DEF RecoverService, Opens, Reply, Begin
<1>7. CASE PurgeService(r)
  BY <1>7 DEF PurgeService, Opens, Begin, platformVars
<1>8. CASE Enqueue(r)
  BY <1>8 DEF Enqueue, Move, Advance, Reply, Begin
<1>9. CASE EnqueueFails(r)
  BY <1>9 DEF EnqueueFails, Reply, Begin, platformVars
<1>10. CASE StopListed(r)
  BY <1>10 DEF StopListed, Advance, Reply, Begin
<1>11. CASE RestartCreate(r)
  BY <1>11 DEF RestartCreate, Advance, Reply, Begin
<1>12. CASE RestartStart(r)
  BY <1>12 DEF RestartStart, Move, Advance, Reply, Begin
<1>13. CASE LoopStop(r)
  BY <1>13 DEF LoopStop, Advance
<1>14. CASE LoopRemove(r)
  BY <1>14 DEF LoopRemove, Advance, Reply, Begin
<1>15. CASE ListForDelete(r)
  BY <1>15 DEF ListForDelete, Reply, Begin, platformVars
<1>16. CASE DeleteListed(r)
  BY <1>16 DEF DeleteListed, Advance, Reply, Begin
<1>17. CASE PurgeRecords(r)
  BY <1>17 DEF PurgeRecords, Move, Advance
<1>18. CASE PurgeRow(r)
  BY <1>18 DEF PurgeRow, Reply, Begin
<1>19. CASE SyncPreview(r)
  BY <1>19 DEF SyncPreview, Opens, Begin
<1>20. CASE InsertRecord(r)
  BY <1>20 DEF InsertRecord, CreateRecord, Reply, Begin
<1> QED
  BY <1>1, <1>2, <1>3, <1>4, <1>5, <1>6, <1>7, <1>8, <1>9, <1>10, <1>11,
     <1>12, <1>13, <1>14, <1>15, <1>16, <1>17, <1>18, <1>19, <1>20
     DEF OpenRequest, ContinueRequest

(* The lock through a step of a request.                                   *)
LEMMA RequestLock ==
  ASSUME TypeOK, LockHeldOnlyInside, ApiNext, UNCHANGED <<workerVars, pass>>
  PROVE  LockHeldOnlyInside'
<1> USE ClientsDiffer DEF TypeOK, ApiTypeOK, LockHeldOnlyInside, Inside, Clients,
        In, workerVars, Move, Advance, Reply, Begin, Opened
<1>1. ASSUME NEW r \in Requests, LockStatus(r)  PROVE LockHeldOnlyInside'
  BY <1>1 DEF LockStatus, AcquireStatusLock, StatusLockRefused
<1>2. ASSUME NEW r \in Requests, WriteStatus(r)  PROVE LockHeldOnlyInside'
  BY <1>2 DEF WriteStatus, ReleaseStatusLock
<1> QED
  BY <1>1, <1>2, RequestSteps, RequestOutside DEF ApiNext

(* The lock through a step of a reconciliation pass.                       *)
LEMMA PassLock ==
  ASSUME TypeOK, LockHeldOnlyInside, ReconcilerNext, UNCHANGED <<workerVars, req>>
  PROVE  LockHeldOnlyInside'
<1> USE ClientsDiffer DEF TypeOK, ReconcilerTypeOK, LockHeldOnlyInside, Inside, Clients,
        workerVars, Snapshot, Idle, platformVars
<1>1. ASSUME NEW k \in Passes, ReadServices(k)  PROVE LockHeldOnlyInside'
  BY <1>1 DEF ReadServices
<1>2. ASSUME NEW k \in Passes, ListContainers(k)  PROVE LockHeldOnlyInside'
  BY <1>2 DEF ListContainers
<1>3. ASSUME NEW k \in Passes, LockService(k)  PROVE LockHeldOnlyInside'
  BY <1>3 DEF LockService, AcquireStatusLock, StatusLockRefused
<1>4. ASSUME NEW k \in Passes, Reconcile(k)  PROVE LockHeldOnlyInside'
  BY <1>4 DEF Reconcile, ReleaseStatusLock
<1> QED
  BY <1>1, <1>2, <1>3, <1>4 DEF ReconcilerNext, PassStep

(* Whatever crashes, fails, is refused or loses its lease: the lock never  *)
(* names a client that is not between its acquire and its release.         *)
THEOREM LockSafe == Spec => []LockHeldOnlyInside
<1>1. Init => LockHeldOnlyInside
  BY ClientsDiffer DEF Init, PlatformInit, LockHeldOnlyInside
<1>2. TypeOK /\ LockHeldOnlyInside /\ [Next]_vars => LockHeldOnlyInside'
  <2> SUFFICES ASSUME TypeOK, LockHeldOnlyInside, [Next]_vars
               PROVE  LockHeldOnlyInside'
    OBVIOUS
  <2>1. CASE (Flap \/ LeaseEnds) /\ UNCHANGED <<workerVars, req, pass>>
    BY <2>1, ClientsDiffer
       DEF Flap, LeaseEnds, LeaseExpires, LockHeldOnlyInside, Inside, workerVars,
           Clients
  <2>2. CASE UNCHANGED vars
    BY <2>2 DEF vars, platformVars, workerVars, LockHeldOnlyInside, Inside
  <2> QED
    BY <2>1, <2>2, WorkerLock, RequestLock, PassLock DEF Next
<1> QED
  BY <1>1, <1>2, TypeCorrect, PTL DEF Spec

-------------------------------------------------------------------------------
(***************************************************************************)
(* Jobs and rows: a job that ended agrees with its deployment row.  The    *)
(* proof rests on JobInv, which says who may write a row (the one worker   *)
(* whose job is active) and what the row says meanwhile.                   *)
(***************************************************************************)

-------------------------------------------------------------------------------
(* The inductive invariant.                                                *)

(* A worker that handles a deployment is the only one that does, and the   *)
(* job of that deployment is active.                                       *)
OneOwner ==
  \A w \in Workers :
    /\ pc[w] = "idle" <=> cur[w] = 0
    /\ cur[w] # 0 => job[cur[w]] = "active"
    /\ \A v \in Workers : cur[v] = cur[w] /\ cur[v] # 0 => v = w

(* A job is added once, for a row that was created before: between the two *)
(* the deployment belongs to the one request that created it.              *)
OneSubmitter ==
  /\ \A d \in Deployments : job[d] # "none" => dep[d] # "NONE"
  /\ \A r \in Requests : req[r].at = "enqueue" =>
       /\ req[r].d # 0
       /\ job[req[r].d] = "none"
       /\ dep[req[r].d] # "NONE"
       /\ \A q \in Requests : req[q].at = "enqueue" /\ req[q].d = req[r].d => q = r

(* What the handler wrote before it came where it is.  In the try block    *)
(* the row says BUILDING until it says SUCCESS; the catch block is entered *)
(* from either; and every step may find that the row was erased.           *)
BuildPcs ==
  {"capture", "build", "stoplist", "stopold", "create", "start", "cleanlist",
   "clean", "record"}
CatchPcs == {"undo", "rollback", "recfail"}

Written ==
  \A w \in Workers :
    /\ pc[w] \in BuildPcs => dep[cur[w]] \in {"BUILDING", "GONE"}
    /\ pc[w] \in CatchPcs => dep[cur[w]] \in {"BUILDING", "SUCCESS", "GONE"}
    /\ pc[w] \in {"slock", "swrite", "complete"} => dep[cur[w]] \in {"SUCCESS", "GONE"}
    /\ pc[w] \in {"flock", "fwrite"} => dep[cur[w]] \in {"FAILED", "GONE"}
    /\ pc[w] = "fail" => dep[cur[w]] \in {"FAILED", "GONE"} \/ badEnv[cur[w]]

StallsBounded == \A d \in Deployments : stalls[d] <= MaxStalls

JobInv == TypeOK /\ OneOwner /\ OneSubmitter /\ Written /\ StallsBounded /\ OutcomeAgrees

-------------------------------------------------------------------------------
(* 0 stands for no deployment.                                             *)
LEMMA NoDeploymentZero == 0 \notin Deployments
BY DEF Deployments

(* A counter that may not grow has reached its bound.                      *)
LEMMA AtTheBound == \A a, m \in Nat : a <= m /\ ~(a < m) => a = m
OBVIOUS

(* The invariant holds at the start.                                       *)
LEMMA JobInvInit == Init => JobInv
BY InitType, WorkerAssumption
   DEF Init, PlatformInit, WorkerInit, ApiInit, Opened, JobInv, OneOwner, OneSubmitter,
       Written, BuildPcs, CatchPcs, StallsBounded, OutcomeAgrees

(* The steps of a handler between its writes of the row: through the try   *)
(* block, from there into the catch block, and through that.               *)
Underway(w) ==
  /\ \/ pc[w] \in BuildPcs /\ \E there \in BuildPcs \cup CatchPcs : Go(w, there)
     \/ pc[w] \in CatchPcs /\ \E there \in CatchPcs : Go(w, there)
  /\ UNCHANGED <<cur, dep, badEnv, jobVars>>

(* Steps between two writes of the row keep the invariant.                 *)
LEMMA UnderwayKeeps ==
  ASSUME JobInv, NEW w \in Workers, Underway(w), UNCHANGED req
  PROVE  OneOwner' /\ OneSubmitter' /\ Written' /\ StallsBounded' /\ OutcomeAgrees'
<1> USE DEF JobInv, TypeOK, WorkerTypeOK, Underway, BuildPcs, CatchPcs, Go, jobVars
<1>1. OneOwner'
  BY DEF OneOwner
<1>2. OneSubmitter'
  BY DEF OneSubmitter
<1>3. Written'
  BY DEF Written
<1>4. StallsBounded' /\ OutcomeAgrees'
  BY DEF StallsBounded, OutcomeAgrees
<1> QED
  BY <1>1, <1>2, <1>3, <1>4

(* Which of the steps of the handler those are.                            *)
LEMMA UnderwaySteps ==
  ASSUME JobInv, NEW w \in Workers,
         \/ CaptureOld(w) \/ BuildSucceeds(w) \/ ComposeUp(w) \/ BuildFails(w)
         \/ ListToStop(w) \/ StopOld(w) \/ CreateNew(w) \/ CreateFails(w)
         \/ StartNew(w) \/ StartFails(w) \/ ListToClean(w) \/ CleanStop(w)
         \/ CleanRemove(w) \/ ListFails(w) \/ UndoNew(w) \/ RollbackOne(w)
         \/ RollbackEnds(w)
  PROVE  Underway(w)
<1> USE DEF JobInv, TypeOK, WorkerTypeOK, Underway, BuildPcs, CatchPcs, At, Go, Step, platformVars, recordVars, jobVars
<1>1. CASE CaptureOld(w)
  BY <1>1 DEF CaptureOld
<1>2. CASE BuildSucceeds(w)
  BY <1>2 DEF BuildSucceeds
<1>3. CASE ComposeUp(w)
  BY <1>3 DEF ComposeUp, Throw
<1>4. CASE BuildFails(w)
  BY <1>4 DEF BuildFails, Throw
<1>5. CASE ListToStop(w)
  BY <1>5 DEF ListToStop
<1>6. CASE StopOld(w)
  BY <1>6 DEF StopOld
<1>7. CASE CreateNew(w)
  BY <1>7 DEF CreateNew
<1>8. CASE CreateFails(w)
  BY <1>8 DEF CreateFails, Throw
<1>9. CASE StartNew(w)
  BY <1>9 DEF StartNew
<1>10. CASE StartFails(w)
  BY <1>10 DEF StartFails
<1>11. CASE ListToClean(w)
  BY <1>11 DEF ListToClean
<1>12. CASE CleanStop(w)
  BY <1>12 DEF CleanStop
<1>13. CASE CleanRemove(w)
  BY <1>13 DEF CleanRemove
<1>14. CASE ListFails(w)
  BY <1>14 DEF ListFails, Throw
<1>15. CASE UndoNew(w)
  BY <1>15 DEF UndoNew
<1>16. CASE RollbackOne(w)
  BY <1>16 DEF RollbackOne
<1>17. CASE RollbackEnds(w)
  BY <1>17 DEF RollbackEnds
<1> QED
  BY <1>1, <1>2, <1>3, <1>4, <1>5, <1>6, <1>7, <1>8, <1>9, <1>10, <1>11,
     <1>12, <1>13, <1>14, <1>15, <1>16, <1>17

(* Every step of a worker keeps the invariant.                             *)
LEMMA WorkerKeeps ==
  ASSUME JobInv, WorkerNext, UNCHANGED <<req, pass>>
  PROVE  OneOwner' /\ OneSubmitter' /\ Written' /\ StallsBounded' /\ OutcomeAgrees'
<1> DEFINE Kept == OneOwner' /\ OneSubmitter' /\ Written' /\ StallsBounded' /\ OutcomeAgrees'
<1> USE DEF JobInv, TypeOK, PlatformTypeOK, WorkerTypeOK, ApiTypeOK, Handler, At, Go, Step,
        BuildPcs, CatchPcs, recordVars, jobVars
<1>1. ASSUME NEW w \in Workers, TakeJob(w)  PROVE Kept
  <2>1. OneOwner'
    BY NoDeploymentZero, <1>1 DEF TakeJob, OneOwner
  <2>2. OneSubmitter'
    BY <1>1 DEF TakeJob, OneSubmitter, OneOwner
  <2>3. Written'
    BY <1>1 DEF TakeJob, Written, OneOwner
  <2>4. StallsBounded' /\ OutcomeAgrees'
    BY <1>1 DEF TakeJob, StallsBounded, OutcomeAgrees, Written, OneOwner
  <2> QED
    BY <2>1, <2>2, <2>3, <2>4
<1>2. ASSUME NEW w \in Workers, LoadRecord(w)  PROVE Kept
  <2>1. OneOwner'
    BY <1>2 DEF LoadRecord, platformVars, OneOwner
  <2>2. OneSubmitter'
    BY <1>2 DEF LoadRecord, platformVars, OneSubmitter, OneOwner
  <2>3. Written'
    BY <1>2 DEF LoadRecord, platformVars, Written, OneOwner
  <2>4. StallsBounded' /\ OutcomeAgrees'
    BY <1>2 DEF LoadRecord, platformVars, StallsBounded, OutcomeAgrees,
       Written, OneOwner
  <2> QED
    BY <2>1, <2>2, <2>3, <2>4
<1>3. ASSUME NEW w \in Workers, MarkBuilding(w)  PROVE Kept
  <2>1. OneOwner'
    BY <1>3 DEF MarkBuilding, WriteRecord, RecordIsGone, Throw, OneOwner
  <2>2. OneSubmitter'
    BY <1>3 DEF MarkBuilding, WriteRecord, RecordIsGone, Throw,
       OneSubmitter, OneOwner
  <2>3. Written'
    BY <1>3 DEF MarkBuilding, WriteRecord, RecordIsGone, Throw, Written,
       OneOwner
  <2>4. StallsBounded' /\ OutcomeAgrees'
    BY <1>3 DEF MarkBuilding, WriteRecord, RecordIsGone, Throw,
       StallsBounded, OutcomeAgrees, Written, OneOwner
  <2> QED
    BY <2>1, <2>2, <2>3, <2>4
<1>4. ASSUME NEW w \in Workers, RecordSuccess(w)  PROVE Kept
  <2>1. OneOwner'
    BY <1>4 DEF RecordSuccess, WriteRecord, RecordIsGone, Throw, OneOwner
  <2>2. OneSubmitter'
    BY <1>4 DEF RecordSuccess, WriteRecord, RecordIsGone, Throw,
       OneSubmitter, OneOwner
  <2>3. Written'
    BY <1>4 DEF RecordSuccess, WriteRecord, RecordIsGone, Throw, Written,
       OneOwner
  <2>4. StallsBounded' /\ OutcomeAgrees'
    BY <1>4 DEF RecordSuccess, WriteRecord, RecordIsGone, Throw,
       StallsBounded, OutcomeAgrees, Written, OneOwner
  <2> QED
    BY <2>1, <2>2, <2>3, <2>4
<1>5. ASSUME NEW w \in Workers, LockSuccess(w)  PROVE Kept
  <2>1. OneOwner'
    BY <1>5 DEF LockSuccess, Throw, OneOwner
  <2>2. OneSubmitter'
    BY <1>5 DEF LockSuccess, Throw, OneSubmitter, OneOwner
  <2>3. Written'
    BY <1>5 DEF LockSuccess, Throw, Written, OneOwner
  <2>4. StallsBounded' /\ OutcomeAgrees'
    BY <1>5 DEF LockSuccess, Throw, StallsBounded, OutcomeAgrees, Written,
       OneOwner
  <2> QED
    BY <2>1, <2>2, <2>3, <2>4
<1>6. ASSUME NEW w \in Workers, WriteRunning(w)  PROVE Kept
  <2>1. OneOwner'
    BY <1>6 DEF WriteRunning, Throw, OneOwner
  <2>2. OneSubmitter'
    BY <1>6 DEF WriteRunning, Throw, OneSubmitter, OneOwner
  <2>3. Written'
    BY <1>6 DEF WriteRunning, Throw, Written, OneOwner
  <2>4. StallsBounded' /\ OutcomeAgrees'
    BY <1>6 DEF WriteRunning, Throw, StallsBounded, OutcomeAgrees, Written,
       OneOwner
  <2> QED
    BY <2>1, <2>2, <2>3, <2>4
<1>7. ASSUME NEW w \in Workers, RecordFailed(w)  PROVE Kept
  <2>1. OneOwner'
    BY <1>7 DEF RecordFailed, WriteRecord, RecordIsGone, OneOwner
  <2>2. OneSubmitter'
    BY <1>7 DEF RecordFailed, WriteRecord, RecordIsGone, OneSubmitter,
       OneOwner
  <2>3. Written'
    BY <1>7 DEF RecordFailed, WriteRecord, RecordIsGone, Written, OneOwner
  <2>4. StallsBounded' /\ OutcomeAgrees'
    BY <1>7 DEF RecordFailed, WriteRecord, RecordIsGone, StallsBounded,
       OutcomeAgrees, Written, OneOwner
  <2> QED
    BY <2>1, <2>2, <2>3, <2>4
<1>8. ASSUME NEW w \in Workers, LockFailed(w)  PROVE Kept
  <2>1. OneOwner'
    BY <1>8 DEF LockFailed, OneOwner
  <2>2. OneSubmitter'
    BY <1>8 DEF LockFailed, OneSubmitter, OneOwner
  <2>3. Written'
    BY <1>8 DEF LockFailed, Written, OneOwner
  <2>4. StallsBounded' /\ OutcomeAgrees'
    BY <1>8 DEF LockFailed, StallsBounded, OutcomeAgrees, Written, OneOwner
  <2> QED
    BY <2>1, <2>2, <2>3, <2>4
<1>9. ASSUME NEW w \in Workers, WriteFailed(w)  PROVE Kept
  <2>1. OneOwner'
    BY <1>9 DEF WriteFailed, OneOwner
  <2>2. OneSubmitter'
    BY <1>9 DEF WriteFailed, OneSubmitter, OneOwner
  <2>3. Written'
    BY <1>9 DEF WriteFailed, Written, OneOwner
  <2>4. StallsBounded' /\ OutcomeAgrees'
    BY <1>9 DEF WriteFailed, StallsBounded, OutcomeAgrees, Written, OneOwner
  <2> QED
    BY <2>1, <2>2, <2>3, <2>4
<1>10. ASSUME NEW w \in Workers, CompleteJob(w)  PROVE Kept
  <2>1. OneOwner'
    BY <1>10 DEF CompleteJob, EndJob, ResetLocals, OneOwner
  <2>2. OneSubmitter'
    BY <1>10 DEF CompleteJob, EndJob, ResetLocals, OneSubmitter, OneOwner
  <2>3. Written'
    BY <1>10 DEF CompleteJob, EndJob, ResetLocals, Written, OneOwner
  <2>4. StallsBounded' /\ OutcomeAgrees'
    BY <1>10 DEF CompleteJob, EndJob, ResetLocals, StallsBounded,
       OutcomeAgrees, Written, OneOwner
  <2> QED
    BY <2>1, <2>2, <2>3, <2>4
<1>11. ASSUME NEW w \in Workers, FailJob(w)  PROVE Kept
  <2>1. OneOwner'
    BY <1>11 DEF FailJob, EndJob, ResetLocals, OneOwner
  <2>2. OneSubmitter'
    BY <1>11 DEF FailJob, EndJob, ResetLocals, OneSubmitter, OneOwner
  <2>3. Written'
    BY <1>11 DEF FailJob, EndJob, ResetLocals, Written, OneOwner
  <2>4. StallsBounded' /\ OutcomeAgrees'
    BY <1>11 DEF FailJob, EndJob, ResetLocals, StallsBounded,
       OutcomeAgrees, Written, OneOwner
  <2> QED
    BY <2>1, <2>2, <2>3, <2>4
<1>12. ASSUME NEW w \in Workers, CrashWorker(w)  PROVE Kept
  <2>1. OneOwner'
    BY <1>12 DEF CrashWorker, ResetLocals, OneOwner
  <2>2. OneSubmitter'
    BY <1>12 DEF CrashWorker, ResetLocals, OneSubmitter, OneOwner
  <2>3. Written'
    BY <1>12 DEF CrashWorker, ResetLocals, Written, OneOwner
  <2>4. StallsBounded' /\ OutcomeAgrees'
    BY <1>12 DEF CrashWorker, ResetLocals, StallsBounded, OutcomeAgrees,
       Written, OneOwner
  <2> QED
    BY <2>1, <2>2, <2>3, <2>4
<1>13. ASSUME NEW d \in Deployments, StalledJob(d)  PROVE Kept
  <2>1. OneOwner' /\ OneSubmitter' /\ Written'
    BY <1>13 DEF StalledJob, OneOwner, OneSubmitter, Written, workerVars
  <2>2. StallsBounded'
    BY <1>13, WorkerAssumption DEF StalledJob, StallsBounded
  <2>3. job'[d] = "failed" => stalls'[d] = MaxStalls
    <3>1. stalls[d] \in Nat /\ stalls[d] <= MaxStalls /\ MaxStalls \in Nat
      BY WorkerAssumption DEF StallsBounded
    <3>2. job'[d] = "failed" => ~(stalls[d] < MaxStalls) /\ stalls'[d] = stalls[d]
      BY <1>13 DEF StalledJob
    <3> QED
      BY <3>1, <3>2, AtTheBound
  <2>4. job'[d] # "completed" /\ \A e \in Deployments \ {d} : job'[e] = job[e] /\ stalls'[e] = stalls[e]
    BY <1>13 DEF StalledJob
  <2>5. OutcomeAgrees'
    BY <1>13, <2>3, <2>4 DEF StalledJob, OutcomeAgrees
  <2> QED
    BY <2>1, <2>2, <2>5
<1> QED
  BY <1>1, <1>2, <1>3, <1>4, <1>5, <1>6, <1>7, <1>8, <1>9, <1>10, <1>11,
     <1>12, <1>13, UnderwaySteps, UnderwayKeeps
     DEF WorkerNext, HandleJob, Deploy, RollBack

-------------------------------------------------------------------------------
(* A request that leaves rows and jobs alone and does not become one that  *)
(* will add a job.                                                         *)
Bystander(r) ==
  /\ UNCHANGED <<dep, badEnv, jobVars>>
  /\ \A q \in Requests : q # r => req'[q] = req[q]
  /\ req'[r].at # "enqueue"

(* Such a request keeps the invariant.                                     *)
LEMMA BystanderKeeps ==
  ASSUME JobInv, NEW r \in Requests, Bystander(r), UNCHANGED workerVars
  PROVE  OneOwner' /\ OneSubmitter' /\ Written' /\ StallsBounded' /\ OutcomeAgrees'
<1> USE DEF JobInv, Bystander, jobVars, workerVars
<1>1. OneOwner' /\ Written'
  BY DEF OneOwner, Written
<1>2. OneSubmitter'
  BY DEF OneSubmitter
<1>3. StallsBounded' /\ OutcomeAgrees'
  BY DEF StallsBounded, OutcomeAgrees
<1> QED
  BY <1>1, <1>2, <1>3

(* Which of the steps of a request those are.                              *)
LEMMA BystanderSteps ==
  ASSUME JobInv, NEW r \in Requests,
         \/ EnqueueFails(r) \/ LockStatus(r) \/ WriteStatus(r) \/ StopService(r)
         \/ StopListed(r) \/ RestartService(r) \/ RestartCreate(r) \/ RestartStart(r)
         \/ LoopStop(r) \/ LoopRemove(r) \/ SoftDeleteService(r) \/ ListForDelete(r)
         \/ DeleteListed(r) \/ RecoverService(r) \/ PurgeService(r)
         \/ SyncPreview(r) \/ (InsertRecord(r) /\ row = "purged")
  PROVE  Bystander(r)
<1> USE DEF JobInv, TypeOK, ApiTypeOK, Bystander, In, Reply, Begin, Opened, recordVars, jobVars
<1>1. CASE EnqueueFails(r)
  BY <1>1 DEF EnqueueFails, platformVars
<1>2. CASE LockStatus(r)
  BY <1>2 DEF LockStatus, Move, Advance
<1>3. CASE WriteStatus(r)
  BY <1>3 DEF WriteStatus
<1>4. CASE StopService(r)
  BY <1>4 DEF StopService, Opens, platformVars
<1>5. CASE StopListed(r)
  BY <1>5 DEF StopListed, Advance
<1>6. CASE RestartService(r)
  BY <1>6 DEF RestartService, Opens, platformVars
<1>7. CASE RestartCreate(r)
  BY <1>7 DEF RestartCreate, Advance
<1>8. CASE RestartStart(r)
  BY <1>8 DEF RestartStart, Move, Advance
<1>9. CASE LoopStop(r)
  BY <1>9 DEF LoopStop, Advance
<1>10. CASE LoopRemove(r)
  BY <1>10 DEF LoopRemove, Advance
<1>11. CASE SoftDeleteService(r)
  BY <1>11 DEF SoftDeleteService, Opens, Move, Advance
<1>12. CASE ListForDelete(r)
  BY <1>12 DEF ListForDelete, platformVars
<1>13. CASE DeleteListed(r)
  BY <1>13 DEF DeleteListed, Advance
<1>14. CASE RecoverService(r)
  BY <1>14 DEF RecoverService, Opens
<1>15. CASE PurgeService(r)
  BY <1>15 DEF PurgeService, Opens, platformVars
<1>16. CASE SyncPreview(r)
  BY <1>16 DEF SyncPreview, Opens
<1>17. CASE InsertRecord(r) /\ row = "purged"
  BY <1>17 DEF InsertRecord
<1> QED
  BY <1>1, <1>2, <1>3, <1>4, <1>5, <1>6, <1>7, <1>8, <1>9, <1>10, <1>11,
     <1>12, <1>13, <1>14, <1>15, <1>16, <1>17

(* Every step of a request keeps the invariant.                            *)
LEMMA RequestKeeps ==
  ASSUME JobInv, ApiNext, UNCHANGED <<workerVars, pass>>
  PROVE  OneOwner' /\ OneSubmitter' /\ Written' /\ StallsBounded' /\ OutcomeAgrees'
<1> DEFINE Kept == OneOwner' /\ OneSubmitter' /\ Written' /\ StallsBounded' /\ OutcomeAgrees'
<1> USE DEF JobInv, TypeOK, PlatformTypeOK, WorkerTypeOK, ApiTypeOK, Handler, In,
        recordVars, jobVars, workerVars
<1>1. ASSUME NEW r \in Requests, NEW op \in OpSet, CreateRecord(r, op), UNCHANGED jobVars
      PROVE  Kept
  <2>1. OneOwner'
    BY <1>1 DEF CreateRecord, Begin, Opened, OneOwner, OneSubmitter
  <2>2. OneSubmitter'
    BY NoDeploymentZero, <1>1 DEF CreateRecord, Begin, Opened,
       OneSubmitter
  <2>3. Written'
    BY <1>1 DEF CreateRecord, Begin, Opened, Written, OneOwner,
       OneSubmitter
  <2>4. StallsBounded' /\ OutcomeAgrees'
    BY <1>1 DEF CreateRecord, Begin, Opened, StallsBounded,
       OutcomeAgrees, OneSubmitter
  <2> QED
    BY <2>1, <2>2, <2>3, <2>4
<1>2. ASSUME NEW r \in Requests, Enqueue(r)  PROVE Kept
  <2>1. OneOwner'
    BY <1>2 DEF Enqueue, Move, Advance, Reply, Begin, Opened, OneOwner,
       OneSubmitter
  <2>2. OneSubmitter'
    <3>1. req[r].at = "enqueue" /\ req'[r].at # "enqueue"
      BY <1>2 DEF Enqueue, Move, Advance, Reply, Begin, Opened
    <3>2. \A q \in Requests \ {r} : req'[q] = req[q]
      BY <1>2 DEF Enqueue, Move, Advance, Reply, Begin, Opened
    <3>3. dep' = dep /\ \A e \in Deployments : e # req[r].d => job'[e] = job[e]
      BY <1>2 DEF Enqueue
    <3> HIDE DEF JobInv, TypeOK, ApiTypeOK, PlatformTypeOK, Handler, In
    <3>4. OneSubmitter
      BY DEF JobInv
    <3>5. \A e \in Deployments : job'[e] # "none" => dep'[e] # "NONE"
      BY <3>1, <3>3, <3>4 DEF OneSubmitter
    <3>6. ASSUME NEW q \in Requests, req'[q].at = "enqueue"
          PROVE  /\ q # r
                 /\ req'[q] = req[q]
                 /\ req[q].at = "enqueue"
      BY <3>1, <3>2, <3>6
    <3>7. ASSUME NEW q \in Requests, req'[q].at = "enqueue"
          PROVE  /\ req'[q].d # 0
                 /\ dep'[req'[q].d] # "NONE"
                 /\ \A p \in Requests :
                      req'[p].at = "enqueue" /\ req'[p].d = req'[q].d => p = q
      BY <3>3, <3>4, <3>6, <3>7 DEF OneSubmitter
    <3>8. ASSUME NEW q \in Requests, req'[q].at = "enqueue"
          PROVE  job'[req'[q].d] = "none"
      <4>1. req[q].d # req[r].d
        BY <3>1, <3>4, <3>6, <3>8 DEF OneSubmitter
      <4>2. req[q].d \in Deployments
        BY <3>4, <3>6, <3>8 DEF OneSubmitter, JobInv, TypeOK, ApiTypeOK, Handler
      <4> QED
        BY <3>3, <3>4, <3>6, <3>8, <4>1, <4>2 DEF OneSubmitter
    <3> QED
      BY <3>5, <3>7, <3>8 DEF OneSubmitter
  <2>3. Written'
    BY <1>2 DEF Enqueue, Move, Advance, Reply, Begin, Opened, Written,
       OneOwner, OneSubmitter
  <2>4. StallsBounded' /\ OutcomeAgrees'
    BY <1>2 DEF Enqueue, Move, Advance, Reply, Begin, Opened,
       StallsBounded, OutcomeAgrees, OneSubmitter
  <2> QED
    BY <2>1, <2>2, <2>3, <2>4
<1>3. ASSUME NEW r \in Requests, PurgeRecords(r)  PROVE Kept
  <2>1. OneOwner'
    BY <1>3 DEF PurgeRecords, EraseRecords, Move, Advance, OneOwner,
       OneSubmitter
  <2>2. OneSubmitter'
    BY NoDeploymentZero, <1>3 DEF PurgeRecords, EraseRecords, Move,
       Advance, OneSubmitter
  <2>3. Written'
    BY <1>3 DEF PurgeRecords, EraseRecords, Move, Advance, Written,
       BuildPcs, CatchPcs, OneOwner, OneSubmitter
  <2>4. StallsBounded' /\ OutcomeAgrees'
    BY <1>3 DEF PurgeRecords, EraseRecords, Move, Advance, StallsBounded,
       OutcomeAgrees, OneSubmitter
  <2> QED
    BY <2>1, <2>2, <2>3, <2>4
<1>4. ASSUME NEW r \in Requests, PurgeRow(r)  PROVE Kept
  <2>1. OneOwner'
    BY <1>4 DEF PurgeRow, EraseRecords, Reply, Begin, Opened, OneOwner,
       OneSubmitter
  <2>2. OneSubmitter'
    BY NoDeploymentZero, <1>4 DEF PurgeRow, EraseRecords, Reply, Begin,
       Opened, OneSubmitter
  <2>3. Written'
    BY <1>4 DEF PurgeRow, EraseRecords, Reply, Begin, Opened, Written,
       BuildPcs, CatchPcs, OneOwner, OneSubmitter
  <2>4. StallsBounded' /\ OutcomeAgrees'
    BY <1>4 DEF PurgeRow, EraseRecords, Reply, Begin, Opened,
       StallsBounded, OutcomeAgrees, OneSubmitter
  <2> QED
    BY <2>1, <2>2, <2>3, <2>4
<1>5. ASSUME NEW r \in Requests, DeployService(r) \/ HandlePushEvent(r)  PROVE Kept
  BY <1>1, <1>5 DEF DeployService, HandlePushEvent, OpenDeployment, OpSet
<1>6. ASSUME NEW r \in Requests, InsertRecord(r)  PROVE Kept
  <2>1. CASE row = "purged"
    BY <1>6, <2>1, BystanderSteps, BystanderKeeps
  <2>2. CASE row # "purged"
    BY <1>1, <1>6, <2>2 DEF InsertRecord, OpSet
  <2> QED
    BY <2>1, <2>2
<1> QED
  BY <1>2, <1>3, <1>4, <1>5, <1>6, BystanderSteps, BystanderKeeps
     DEF ApiNext, OpenRequest, ContinueRequest

(* Reconciliation, flapping containers and expiring leases touch neither   *)
(* rows nor jobs.                                                          *)
LEMMA OthersKeep ==
  ASSUME JobInv, UNCHANGED <<dep, badEnv, jobVars, workerVars, req>>
  PROVE  OneOwner' /\ OneSubmitter' /\ Written' /\ StallsBounded' /\ OutcomeAgrees'
BY DEF JobInv, OneOwner, OneSubmitter, Written, StallsBounded, OutcomeAgrees, jobVars,
       workerVars

(* Every step keeps the invariant.                                         *)
LEMMA JobInvNext ==
  ASSUME JobInv, [Next]_vars
  PROVE  JobInv'
<1>1. TypeOK'
  BY TypeNext DEF JobInv
<1>2. CASE ReconcilerNext /\ UNCHANGED <<workerVars, req>>
  BY <1>1, <1>2, OthersKeep
     DEF JobInv, ReconcilerNext, PassStep, ReadServices, ListContainers, LockService,
         Reconcile, platformVars, recordVars
<1>3. CASE (Flap \/ LeaseEnds) /\ UNCHANGED <<workerVars, req, pass>>
  BY <1>1, <1>3, OthersKeep DEF JobInv, Flap, LeaseEnds, recordVars
<1>4. CASE UNCHANGED vars
  BY <1>1, <1>4, OthersKeep DEF JobInv, vars, platformVars, recordVars
<1> QED
  BY <1>1, <1>2, <1>3, <1>4, WorkerKeeps, RequestKeeps DEF JobInv, Next

(* Who may write a row, and what it says meanwhile, holds in every         *)
(* reachable state: the inductive invariant of the rows and jobs.          *)
THEOREM JobInvHolds == Spec => []JobInv
BY JobInvInit, JobInvNext, PTL DEF Spec

(* However workers crash, jobs are delivered again, locks are refused and  *)
(* rows erased under a running handler: a job that completed left SUCCESS, *)
(* one that failed left FAILED, with the three exceptions OutcomeAgrees    *)
(* lists and no other.                                                     *)
THEOREM OutcomeCorrect == Spec => []OutcomeAgrees
<1>1. JobInv => OutcomeAgrees
  BY DEF JobInv
<1> QED
  BY <1>1, JobInvHolds, PTL

-------------------------------------------------------------------------------
(* A purged service and its rows.                                          *)

(* The handler writes the row of its job and no other row, and it never    *)
(* touches the service row.                                                *)
Writable == {"BUILDING", "SUCCESS", "FAILED"}

LEMMA WorkerRows ==
  ASSUME WorkerNext
  PROVE  /\ UNCHANGED <<row, mode>>
         /\ \/ dep' = dep
            \/ \E w \in Workers, s \in Writable : WriteRecord(w, s) /\ pc[w] # "idle"
<1> USE DEF WorkerNext, HandleJob, At, Go, Step, Throw, platformVars, recordVars,
        serviceVars, RecordIsGone, Writable
<1>1. ASSUME NEW w \in Workers,
             \/ TakeJob(w) \/ LoadRecord(w) \/ CompleteJob(w) \/ FailJob(w) \/ CrashWorker(w)
      PROVE  UNCHANGED <<row, mode, dep>>
  BY <1>1 DEF TakeJob, LoadRecord, CompleteJob, FailJob, CrashWorker, EndJob
<1>2. ASSUME NEW w \in Workers,
             \/ CaptureOld(w) \/ BuildSucceeds(w) \/ ComposeUp(w) \/ BuildFails(w)
             \/ ListToStop(w) \/ StopOld(w) \/ CreateNew(w) \/ CreateFails(w)
             \/ StartNew(w) \/ StartFails(w)
      PROVE  UNCHANGED <<row, mode, dep>>
  BY <1>2 DEF CaptureOld, BuildSucceeds, ComposeUp, BuildFails, ListToStop, StopOld,
     CreateNew, CreateFails, StartNew, StartFails
<1>3. ASSUME NEW w \in Workers,
             \/ ListToClean(w) \/ CleanStop(w) \/ CleanRemove(w) \/ ListFails(w)
             \/ LockSuccess(w) \/ WriteRunning(w) \/ UndoNew(w) \/ RollbackOne(w)
             \/ RollbackEnds(w) \/ LockFailed(w) \/ WriteFailed(w)
      PROVE  UNCHANGED <<row, mode, dep>>
  BY <1>3 DEF ListToClean, CleanStop, CleanRemove, ListFails, LockSuccess, WriteRunning,
     UndoNew, RollbackOne, RollbackEnds, LockFailed, WriteFailed
<1>4. ASSUME NEW w \in Workers, MarkBuilding(w) \/ RecordSuccess(w) \/ RecordFailed(w)
      PROVE  /\ UNCHANGED <<row, mode>>
             /\ \/ dep' = dep
                \/ \E s \in Writable : WriteRecord(w, s) /\ pc[w] # "idle"
  <2>1. UNCHANGED <<row, mode>>
    BY <1>4 DEF MarkBuilding, RecordSuccess, RecordFailed, WriteRecord
  <2>2. dep' = dep \/ \E s \in Writable : WriteRecord(w, s) /\ pc[w] # "idle"
    BY <1>4 DEF MarkBuilding, RecordSuccess, RecordFailed
  <2> QED
    BY <2>1, <2>2
<1>5. ASSUME NEW d \in Deployments, StalledJob(d)  PROVE UNCHANGED <<row, mode, dep>>
  BY <1>5 DEF StalledJob
<1> QED
  BY <1>1, <1>2, <1>3, <1>4, <1>5 DEF Deploy, RollBack

(* A request makes a row only while the service has one, erases all of     *)
(* them when it purges the service, and never brings a purged one back.    *)
LEMMA RequestRows ==
  ASSUME ApiNext
  PROVE  \/ UNCHANGED <<dep, row>>
         \/ row # "purged" /\ row' # "purged"
         \/ \A d \in Deployments : dep'[d] \in {"NONE", "GONE"}
<1> DEFINE Goal == \/ UNCHANGED <<dep, row>>
                   \/ row # "purged" /\ row' # "purged"
                   \/ \A d \in Deployments : dep'[d] \in {"NONE", "GONE"}
<1> USE DEF platformVars, recordVars, serviceVars, Opens
<1>1. ASSUME NEW r \in Requests,
             DeployService(r) \/ HandlePushEvent(r) \/ SyncPreview(r) \/ InsertRecord(r)
      PROVE  Goal
  BY <1>1 DEF DeployService, HandlePushEvent, OpenDeployment, SyncPreview, InsertRecord
<1>2. ASSUME NEW r \in Requests, SoftDeleteService(r) \/ RecoverService(r)  PROVE Goal
  BY <1>2 DEF SoftDeleteService, RecoverService
<1>3. ASSUME NEW r \in Requests, PurgeRecords(r) \/ PurgeRow(r)  PROVE Goal
  BY <1>3 DEF PurgeRecords, PurgeRow, EraseRecords
<1>4. ASSUME NEW r \in Requests,
             \/ Enqueue(r) \/ EnqueueFails(r) \/ LockStatus(r) \/ WriteStatus(r)
             \/ StopService(r) \/ StopListed(r) \/ RestartService(r) \/ RestartCreate(r)
             \/ RestartStart(r) \/ LoopStop(r) \/ LoopRemove(r) \/ ListForDelete(r)
             \/ DeleteListed(r) \/ PurgeService(r)
      PROVE  UNCHANGED <<dep, row>>
  BY <1>4 DEF Enqueue, EnqueueFails, LockStatus, WriteStatus, StopService, StopListed,
     RestartService, RestartCreate, RestartStart, LoopStop, LoopRemove, ListForDelete,
     DeleteListed, PurgeService
<1> QED
  BY <1>1, <1>2, <1>3, <1>4 DEF ApiNext, OpenRequest, ContinueRequest

(* A row that a handler writes was made before, so it is one that a purge  *)
(* would have erased: no handler brings a row of a purged service back.    *)
LEMMA NoRowRevived ==
  ASSUME JobInv, NoOrphanRecords, NEW w \in Workers, NEW s, WriteRecord(w, s),
         pc[w] # "idle", row' = row
  PROVE  NoOrphanRecords'
<1>1. cur[w] \in Deployments /\ job[cur[w]] = "active"
  BY DEF JobInv, TypeOK, WorkerTypeOK, OneOwner
<1>2. dep[cur[w]] \notin {"NONE", "GONE"}
  BY <1>1 DEF JobInv, OneSubmitter, WriteRecord
<1> QED
  BY <1>1, <1>2 DEF NoOrphanRecords

(* The rows of a purged service stay erased through every step.            *)
LEMMA OrphansNext ==
  ASSUME JobInv, NoOrphanRecords, [Next]_vars
  PROVE  NoOrphanRecords'
<1>1. CASE WorkerNext
  BY <1>1, WorkerRows, NoRowRevived DEF NoOrphanRecords
<1>2. CASE ApiNext
  BY <1>2, RequestRows DEF NoOrphanRecords
<1>3. CASE ReconcilerNext
  BY <1>3 DEF ReconcilerNext, PassStep, ReadServices, ListContainers, LockService,
     Reconcile, platformVars, recordVars, serviceVars, NoOrphanRecords
<1>4. CASE Flap \/ LeaseEnds
  BY <1>4 DEF Flap, LeaseEnds, recordVars, serviceVars, NoOrphanRecords
<1>5. CASE UNCHANGED vars
  BY <1>5 DEF vars, platformVars, recordVars, serviceVars, NoOrphanRecords
<1> QED
  BY <1>1, <1>2, <1>3, <1>4, <1>5 DEF Next

(* For any number of requests, workers and crashes: a purged service       *)
(* leaves no row, whatever was created, queued or written while            *)
(* WebhookController.deleteService was erasing it.                         *)
THEOREM PurgedLeavesNoRow == Spec => []NoOrphanRecords
<1>1. Init => NoOrphanRecords
  BY DEF Init, PlatformInit, NoOrphanRecords
<1> QED
  BY <1>1, OrphansNext, JobInvHolds, PTL DEF Spec

-------------------------------------------------------------------------------
(***************************************************************************)
(* The pipeline implements module DeploymentRecord, for every number of    *)
(* deployments, workers, requests and crashes: the rows are the records,   *)
(* and a job that completed or failed is closed.  One lemma per component: *)
(* each of its steps is a step of the abstract specification or changes    *)
(* neither rows nor jobs.                                                  *)
(***************************************************************************)
Allowed == Rows!Next \/ UNCHANGED <<dep, Phase>>

(* Phase is a function of the state of each job alone.                     *)
LEMMA PhaseOf ==
  \A d \in Deployments :
    Phase[d] = IF job[d] \in {"completed", "failed"} THEN "closed" ELSE job[d]
BY DEF Phase

(* Steps that leave rows and jobs alone are stuttering steps.              *)
LEMMA Stutter == UNCHANGED <<dep, job>> => Allowed
BY DEF Allowed, Phase

(* When one job changes its state, so does its phase, and no other.        *)
LEMMA JobMoved ==
  ASSUME JobInv, NEW d \in Deployments, NEW s, job' = [job EXCEPT ![d] = s]
  PROVE  Phase' = [Phase EXCEPT ![d] =
                     IF s \in {"completed", "failed"} THEN "closed" ELSE s]
BY DEF JobInv, TypeOK, PlatformTypeOK, Phase

(* A row written by the handler of an active job moves as Move allows.     *)
LEMMA RecordMoved ==
  ASSUME JobInv, NEW w \in Workers, pc[w] # "idle", UNCHANGED job,
         NEW s \in {"BUILDING", "SUCCESS", "FAILED"}, WriteRecord(w, s),
         <<dep[cur[w]], s>> \in Rows!Moves
  PROVE  Allowed
<1>1. cur[w] \in Deployments /\ job[cur[w]] = "active"
  BY DEF JobInv, TypeOK, WorkerTypeOK, OneOwner
<1>2. Phase[cur[w]] = "active"
  BY <1>1, PhaseOf
<1>3. dep' = [dep EXCEPT ![cur[w]] = s] /\ Phase' = Phase
  BY DEF WriteRecord, Phase
<1>4. Rows!Move(cur[w])
  BY <1>2, <1>3 DEF Rows!Move
<1> QED
  BY <1>1, <1>4 DEF Allowed, Rows!Next

(* Each step of a worker is one of the abstract specification.             *)
LEMMA WorkerImplements ==
  ASSUME JobInv, WorkerNext
  PROVE  Allowed
<1> USE DEF JobInv, TypeOK, PlatformTypeOK, WorkerTypeOK, At, recordVars, jobVars
<1>1. ASSUME NEW w \in Workers, TakeJob(w)  PROVE Allowed
  <2>1. PICK d \in Deployments : job[d] = "waiting" /\ job' = [job EXCEPT ![d] = "active"]
    BY <1>1 DEF TakeJob
  <2>2. Phase[d] = "waiting" /\ Phase' = [Phase EXCEPT ![d] = "active"]
    BY <2>1, PhaseOf, JobMoved
  <2>3. Rows!Begin(d)
    BY <1>1, <2>2 DEF TakeJob, Rows!Begin
  <2> QED
    BY <2>3 DEF Allowed, Rows!Next
<1>2. ASSUME NEW w \in Workers, MarkBuilding(w)  PROVE Allowed
  <2>1. dep[cur[w]] \in {"QUEUED", "BUILDING", "SUCCESS", "FAILED", "GONE"}
    BY <1>2 DEF MarkBuilding, OneOwner, OneSubmitter, RecordStates
  <2>2. CASE WriteRecord(w, "BUILDING")
    <3>1. <<dep[cur[w]], "BUILDING">> \in Rows!Moves
      BY <2>1, <2>2 DEF WriteRecord, Rows!Moves
    <3> QED
      BY <1>2, <2>2, <3>1, RecordMoved DEF MarkBuilding
  <2>3. CASE RecordIsGone(w)
    BY <1>2, <2>3, Stutter DEF MarkBuilding, RecordIsGone
  <2> QED
    BY <1>2, <2>2, <2>3 DEF MarkBuilding
<1>3. ASSUME NEW w \in Workers, RecordSuccess(w)  PROVE Allowed
  <2>1. CASE WriteRecord(w, "SUCCESS")
    <3>1. dep[cur[w]] = "BUILDING"
      BY <1>3, <2>1 DEF RecordSuccess, WriteRecord, Written, BuildPcs
    <3>2. <<dep[cur[w]], "SUCCESS">> \in Rows!Moves
      BY <3>1 DEF Rows!Moves
    <3> QED
      BY <1>3, <2>1, <3>2, RecordMoved DEF RecordSuccess
  <2>2. CASE RecordIsGone(w)
    BY <1>3, <2>2, Stutter DEF RecordSuccess, RecordIsGone
  <2> QED
    BY <1>3, <2>1, <2>2 DEF RecordSuccess
<1>4. ASSUME NEW w \in Workers, RecordFailed(w)  PROVE Allowed
  <2>1. CASE WriteRecord(w, "FAILED")
    <3>1. dep[cur[w]] \in {"BUILDING", "SUCCESS"}
      BY <1>4, <2>1 DEF RecordFailed, WriteRecord, Written, CatchPcs
    <3>2. <<dep[cur[w]], "FAILED">> \in Rows!Moves
      BY <3>1 DEF Rows!Moves
    <3> QED
      BY <1>4, <2>1, <3>2, RecordMoved DEF RecordFailed
  <2>2. CASE RecordIsGone(w)
    BY <1>4, <2>2, Stutter DEF RecordFailed, RecordIsGone
  <2> QED
    BY <1>4, <2>1, <2>2 DEF RecordFailed
<1>5. ASSUME NEW w \in Workers, CompleteJob(w) \/ FailJob(w)  PROVE Allowed
  <2>1. PICK s \in {"completed", "failed", "waiting"} :
          job' = [job EXCEPT ![cur[w]] = s] /\ UNCHANGED dep
    BY <1>5 DEF CompleteJob, FailJob, EndJob
  <2>2. cur[w] \in Deployments /\ job[cur[w]] = "active"
    BY <1>5 DEF CompleteJob, FailJob, EndJob, OneOwner
  <2>3. Phase[cur[w]] = "active" /\ \/ Phase' = [Phase EXCEPT ![cur[w]] = "closed"]
                                    \/ Phase' = [Phase EXCEPT ![cur[w]] = "waiting"]
    BY <2>1, <2>2, PhaseOf, JobMoved
  <2>4. Rows!Leave(cur[w])
    BY <2>1, <2>3 DEF Rows!Leave
  <2> QED
    BY <2>2, <2>4 DEF Allowed, Rows!Next
<1>6. ASSUME NEW d \in Deployments, StalledJob(d)  PROVE Allowed
  <2>1. PICK s \in {"waiting", "failed"} : job' = [job EXCEPT ![d] = s]
    BY <1>6 DEF StalledJob
  <2>2. Phase[d] = "active" /\ \/ Phase' = [Phase EXCEPT ![d] = "closed"]
                               \/ Phase' = [Phase EXCEPT ![d] = "waiting"]
    BY <1>6, <2>1, PhaseOf, JobMoved DEF StalledJob
  <2>3. Rows!Leave(d)
    BY <1>6, <2>2 DEF StalledJob, Rows!Leave
  <2> QED
    BY <2>3 DEF Allowed, Rows!Next
<1>7. ASSUME NEW w \in Workers,
             \/ LoadRecord(w) \/ LockSuccess(w) \/ WriteRunning(w) \/ LockFailed(w)
             \/ WriteFailed(w) \/ CrashWorker(w)
      PROVE  UNCHANGED <<dep, job>>
  BY <1>7 DEF LoadRecord, LockSuccess, WriteRunning, LockFailed, WriteFailed,
     CrashWorker, platformVars
<1>8. ASSUME NEW w \in Workers, Underway(w)  PROVE UNCHANGED <<dep, job>>
  BY <1>8 DEF Underway
<1> QED
  BY <1>1, <1>2, <1>3, <1>4, <1>5, <1>6, <1>7, <1>8, Stutter, UnderwaySteps
     DEF WorkerNext, HandleJob, Deploy, RollBack

(* So is each step of an API handler.                                      *)
LEMMA ApiImplements ==
  ASSUME JobInv, ApiNext
  PROVE  Allowed
<1> USE DEF JobInv, TypeOK, PlatformTypeOK, ApiTypeOK, Handler, In, recordVars, jobVars
<1>1. ASSUME NEW r \in Requests, NEW op, CreateRecord(r, op), UNCHANGED job
      PROVE  Allowed
  <2>1. PICK d \in Deployments : dep[d] = "NONE" /\ dep' = [dep EXCEPT ![d] = "QUEUED"]
    BY <1>1 DEF CreateRecord
  <2>2. Rows!Create(d)
    BY <1>1, <2>1 DEF Rows!Create, Phase
  <2> QED
    BY <2>2 DEF Allowed, Rows!Next
<1>2. ASSUME NEW r \in Requests, Enqueue(r)  PROVE Allowed
  <2>1. /\ req[r].d \in Deployments
        /\ job[req[r].d] = "none"
        /\ dep[req[r].d] # "NONE"
    BY <1>2 DEF Enqueue, OneSubmitter
  <2>2. Phase[req[r].d] = "none" /\ Phase' = [Phase EXCEPT ![req[r].d] = "waiting"]
    BY <1>2, <2>1, PhaseOf, JobMoved DEF Enqueue
  <2>3. Rows!Submit(req[r].d)
    BY <1>2, <2>1, <2>2 DEF Enqueue, Rows!Submit
  <2> QED
    BY <2>1, <2>3 DEF Allowed, Rows!Next
<1>3. ASSUME NEW r \in Requests, PurgeRecords(r) \/ PurgeRow(r)  PROVE Allowed
  <2>1. EraseRecords /\ UNCHANGED Phase
    BY <1>3 DEF PurgeRecords, PurgeRow, Phase
  <2>2. Rows!Erase
    BY <2>1 DEF EraseRecords, Rows!Erase
  <2> QED
    BY <2>2 DEF Allowed, Rows!Next
<1>4. ASSUME NEW r \in Requests, Bystander(r)  PROVE Allowed
  BY <1>4, Stutter DEF Bystander
<1>5. ASSUME NEW r \in Requests, DeployService(r) \/ HandlePushEvent(r)  PROVE Allowed
  BY <1>1, <1>5 DEF DeployService, HandlePushEvent, OpenDeployment
<1>6. ASSUME NEW r \in Requests, InsertRecord(r)  PROVE Allowed
  BY <1>1, <1>4, <1>6, BystanderSteps DEF InsertRecord
<1> QED
  BY <1>2, <1>3, <1>4, <1>5, <1>6, BystanderSteps
     DEF ApiNext, OpenRequest, ContinueRequest

(* Passes, flapping containers and expiring leases stutter.                *)
LEMMA OthersStutter ==
  ASSUME ReconcilerNext \/ Flap \/ LeaseEnds
  PROVE  UNCHANGED <<dep, job>>
BY DEF ReconcilerNext, PassStep, ReadServices, ListContainers, LockService,
       Reconcile, Flap, LeaseEnds, platformVars, recordVars, jobVars

(* The initial states correspond.                                          *)
LEMMA InitImplements == Init => Rows!Init
BY DEF Init, PlatformInit, Rows!Init, Phase

(* So every step is an abstract one, or stutters.                          *)
LEMMA NextImplements == JobInv /\ [Next]_vars => [Rows!Next]_<<dep, Phase>>
<1> SUFFICES ASSUME JobInv, [Next]_vars  PROVE Allowed
  BY DEF Allowed
<1>1. CASE UNCHANGED vars
  BY <1>1, Stutter DEF vars, platformVars, recordVars, jobVars
<1>2. CASE Next
  BY <1>2, WorkerImplements, ApiImplements, OthersStutter, Stutter DEF Next
<1> QED
  BY <1>1, <1>2

(* Whatever dies, stalls, fails or is erased, a row is written only on     *)
(* behalf of its active job, outcomes are taken back only before the job   *)
(* ends, a job that ended never runs again and an erased row stays erased. *)
THEOREM RowsImplemented == Spec => RecordsKept
<1>1. Init => Rows!Init
  BY InitImplements
<1>2. JobInv /\ [Next]_vars => [Rows!Next]_Rows!recordVars
  BY NextImplements DEF Rows!recordVars
<1> QED
  BY <1>1, <1>2, JobInvHolds, PTL DEF Spec, RecordsKept, Rows!Spec

-------------------------------------------------------------------------------
(***************************************************************************)
(* The containers of a service where one worker's deployments are the only *)
(* thing that touches them: what a deployment replaces, what a failed one  *)
(* gives back, and how many run at a time.  Each result names what of the  *)
(* setting it needs; module Deployment's findings show what happens        *)
(* without (two workers, a lock that is refused).                          *)
(***************************************************************************)

(* The setting of the properties "where deployments are the only thing     *)
(* that touches containers": one worker, no operation of the API on        *)
(* containers, none that flaps, and no compose file, whose containers      *)
(* docker compose replaces.                                                *)
Undisturbed ==
  /\ \A v, w \in Workers : v = w
  /\ Ops \subseteq {"deploy", "push", "sync", "recover"}
  /\ ~Flapping
  /\ "compose" \notin Modes

(* The lock is not refused, and Docker restarts what it is asked to.       *)
Obliging == ~LockTimeouts /\ ~RestartFaults

-------------------------------------------------------------------------------
(* The setting holds in every state.                                       *)

QuietStates == {"new", "insert", "enqueue", "lock", "write", "end"}

Quiet ==
  /\ \A r \in Requests : req[r].at \in QuietStates
  /\ row # "purged"
  /\ \A d \in Deployments : dep[d] # "GONE" /\ mode[d] # "compose"
  /\ \A c \in Containers : ctr[c] # "restarting"

(* No row that exists changes its mode, or vanishes.                       *)
ModesStay ==
  \A d \in Deployments : dep[d] # "NONE" => dep'[d] # "NONE" /\ mode'[d] = mode[d]

(* While no request erases anything, none touches a container either.      *)
LEMMA QuietRequests ==
  ASSUME Undisturbed, Quiet, TypeOK, ApiNext
  PROVE  /\ ctr' = ctr
         /\ Quiet'
         /\ ModesStay
<1> DEFINE Goal == ctr' = ctr /\ Quiet' /\ ModesStay
<1> USE DEF platformVars, recordVars, serviceVars, Undisturbed, Quiet, QuietStates, TypeOK,
        PlatformTypeOK, ApiTypeOK, ModesStay, Opens, In, Begin, Opened, Reply, Move, Advance
<1>1. ASSUME NEW r \in Requests, NEW op, CreateRecord(r, op), UNCHANGED <<row, ctr>>
      PROVE  Goal
  BY <1>1 DEF CreateRecord
<1>2. ASSUME NEW r \in Requests,
             DeployService(r) \/ HandlePushEvent(r) \/ SyncPreview(r) \/ InsertRecord(r)
      PROVE  Goal
  BY <1>1, <1>2 DEF DeployService, HandlePushEvent, OpenDeployment, SyncPreview, InsertRecord
<1>3. ASSUME NEW r \in Requests,
             \/ StopService(r) \/ RestartService(r) \/ SoftDeleteService(r) \/ PurgeService(r)
      PROVE  FALSE
  BY <1>3 DEF StopService, RestartService, SoftDeleteService, PurgeService
<1>4. ASSUME NEW r \in Requests,
             \/ StopListed(r) \/ RestartCreate(r) \/ RestartStart(r)
             \/ LoopStop(r) \/ LoopRemove(r) \/ ListForDelete(r)
             \/ DeleteListed(r) \/ PurgeRecords(r) \/ PurgeRow(r)
      PROVE  FALSE
  BY <1>4 DEF StopListed, RestartCreate, RestartStart, LoopStop, LoopRemove,
     ListForDelete, DeleteListed, PurgeRecords, PurgeRow
<1>5. ASSUME NEW r \in Requests,
             \/ Enqueue(r) \/ EnqueueFails(r) \/ LockStatus(r) \/ WriteStatus(r)
             \/ RecoverService(r)
      PROVE  Goal
  BY <1>5 DEF Enqueue, EnqueueFails, LockStatus, WriteStatus, RecoverService
<1> QED
  BY <1>2, <1>3, <1>4, <1>5 DEF ApiNext, OpenRequest, ContinueRequest

(* Steps that leave the worker alone leave the containers alone.           *)
Elsewhere == UNCHANGED <<ctr, workerVars>> /\ Quiet' /\ ModesStay

OthersNext ==
  \/ ApiNext /\ UNCHANGED <<workerVars, pass>>
  \/ ReconcilerNext /\ UNCHANGED <<workerVars, req>>
  \/ (Flap \/ LeaseEnds) /\ UNCHANGED <<workerVars, req, pass>>

LEMMA OthersElsewhere ==
  ASSUME Undisturbed, Quiet, TypeOK, OthersNext
  PROVE  Elsewhere
<1> USE DEF Elsewhere, ModesStay
<1>1. CASE ApiNext /\ UNCHANGED <<workerVars, pass>>
  BY <1>1, QuietRequests
<1>2. CASE ReconcilerNext /\ UNCHANGED <<workerVars, req>>
  BY <1>2 DEF ReconcilerNext, PassStep, ReadServices, ListContainers, LockService,
     Reconcile, platformVars, recordVars, serviceVars, Quiet
<1>3. CASE (Flap \/ LeaseEnds) /\ UNCHANGED <<workerVars, req, pass>>
  BY <1>3 DEF Undisturbed, Flap, LeaseEnds, recordVars, serviceVars, Quiet
<1> QED
  BY <1>1, <1>2, <1>3 DEF OthersNext

-------------------------------------------------------------------------------
(* What a deployment replaces.                                             *)

ReplacedPcs == {"record", "slock", "swrite"}
StartedPcs == {"cleanlist", "clean"} \cup ReplacedPcs

(* The handler's two kinds of containers.  It knows of no old ones before  *)
(* it captured them; the new one runs once it was started, and the loop    *)
(* that removes the others never holds it.                                 *)
Replaces(w) ==
  /\ pc[w] \in {"start", "undo", "complete"} \cup StartedPcs => made[w] \in Containers
  /\ pc[w] \notin {"start", "undo", "complete"} \cup StartedPcs => made[w] = NoContainer
  /\ pc[w] \in {"idle", "load", "mark", "capture"} => olds[w] = {}
  /\ pc[w] = "start" => ctr[made[w]] = "created"
  /\ pc[w] \in StartedPcs => ctr[made[w]] = "running"
  /\ pc[w] # "clean" => halted[w] = NoContainer
  /\ pc[w] = "clean" =>
       /\ todo[w] = Present \ {made[w]}
       /\ halted[w] # NoContainer => halted[w] \in todo[w] /\ ctr[halted[w]] # "running"
  /\ pc[w] \in ReplacedPcs => Present = {made[w]}

ReplaceInv == \A w \in Workers : Replaces(w)

-------------------------------------------------------------------------------
(* How many run.                                                           *)

AtMostOne(S) == \A c, d \in S : c = d
AllRecreate == \A d \in Deployments : dep[d] # "NONE" => mode[d] = "recreate"

(* Where every deployment asked for it, what runs while one is under way.  *)
Alone(w) ==
  /\ pc[w] \in {"build", "stoplist"} => Running = olds[w]
  /\ pc[w] \in {"build", "stoplist", "stopold", "create", "start", "cleanlist"} =>
       AtMostOne(olds[w])
  /\ pc[w] = "stopold" => Running \subseteq todo[w]
  /\ pc[w] \in {"create", "start"} => Running = {}
  /\ pc[w] \in {"undo"} \cup StartedPcs => Running \subseteq {made[w]} /\ AtMostOne(olds[w])
  /\ pc[w] = "rollback" => AtMostOne(Running \cup todo[w])

OneInv ==
  AllRecreate => AtMostOne(Running) /\ \A w \in Workers : Alone(w)

-------------------------------------------------------------------------------
(* What a failure gives back.                                              *)

(* What ran when the deployment began still runs or is only stopped, until *)
(* the new container is up; the rollback has nothing else to start.        *)
Restores(w) ==
  /\ pc[w] \in {"build", "stoplist", "stopold", "create", "start", "cleanlist", "undo"} =>
       /\ \A c \in olds[w] : ctr[c] \in {"running", "exited"}
       /\ made[w] \notin olds[w]
  /\ pc[w] = "rollback" =>
       \A c \in olds[w] : ctr[c] = "running" \/ (ctr[c] = "exited" /\ c \in todo[w])
  /\ pc[w] \in {"recfail", "flock", "fwrite", "fail"} => olds[w] \subseteq Running

RestoreInv == \A w \in Workers : Restores(w)

-------------------------------------------------------------------------------
(* What stays up.                                                          *)

(* Containers are only stopped before the new one runs where the service   *)
(* asked for it; otherwise what ran still runs.                            *)
StaysUp(w) ==
  /\ pc[w] \in {"stoplist", "stopold"} => mode[cur[w]] = "recreate"
  /\ pc[w] \in {"build", "create", "start", "cleanlist", "undo"} =>
       mode[cur[w]] = "recreate" \/ olds[w] \subseteq Running

UpInv == \A w \in Workers : StaysUp(w)

-------------------------------------------------------------------------------
(* Steps of the worker.                                                    *)

(* The setting holds after every step of the worker.                       *)
LEMMA QuietWorker ==
  ASSUME Undisturbed, Quiet, TypeOK, WorkerNext, UNCHANGED <<req, pass>>
  PROVE  Quiet'
<1> USE DEF Quiet, TypeOK, PlatformTypeOK, platformVars, At
<1>1. /\ \A r \in Requests : req'[r].at \in QuietStates
      /\ row' # "purged"
      /\ \A d \in Deployments : dep'[d] # "GONE" /\ mode'[d] # "compose"
  BY WorkerRows DEF WriteRecord, Writable
<1>2. ASSUME NEW w \in Workers,
             \/ TakeJob(w) \/ LoadRecord(w) \/ CompleteJob(w) \/ FailJob(w) \/ CrashWorker(w)
             \/ MarkBuilding(w) \/ CaptureOld(w) \/ BuildSucceeds(w) \/ BuildFails(w)
             \/ ListToStop(w) \/ CreateFails(w) \/ StartFails(w) \/ ListToClean(w)
             \/ ListFails(w) \/ RecordSuccess(w) \/ LockSuccess(w) \/ WriteRunning(w)
             \/ RollbackEnds(w) \/ RecordFailed(w) \/ LockFailed(w) \/ WriteFailed(w)
      PROVE  ctr' = ctr
  BY <1>2 DEF TakeJob, LoadRecord, CompleteJob, FailJob, CrashWorker, EndJob, MarkBuilding,
     CaptureOld, BuildSucceeds, BuildFails, ListToStop, CreateFails, StartFails, ListToClean,
     ListFails, RecordSuccess, LockSuccess, WriteRunning, RollbackEnds, RecordFailed,
     LockFailed, WriteFailed
<1>3. ASSUME NEW w \in Workers,
             \/ StopOld(w) \/ CreateNew(w) \/ StartNew(w) \/ CleanStop(w) \/ CleanRemove(w)
             \/ UndoNew(w) \/ RollbackOne(w)
      PROVE  \A c \in Containers : ctr'[c] # "restarting"
  BY <1>3 DEF StopOld, Stopped, CreateNew, StartNew, CleanStop, CleanRemove, Removed,
     UndoNew, RollbackOne, Restarted
<1>4. ASSUME NEW w \in Workers, ComposeUp(w)  PROVE \A c \in Containers : ctr'[c] # "restarting"
  BY <1>4 DEF ComposeUp
<1>5. ASSUME NEW d \in Deployments, StalledJob(d)  PROVE ctr' = ctr
  BY <1>5 DEF StalledJob
<1>6. \A c \in Containers : ctr'[c] # "restarting"
  BY <1>2, <1>3, <1>4, <1>5 DEF WorkerNext, HandleJob, Deploy, RollBack
<1> QED
  BY <1>1, <1>6

(* The one worker handles a job whose row exists, and does not compose.    *)
LEMMA Handled ==
  ASSUME JobInv, Quiet, NEW w \in Workers, pc[w] # "idle"
  PROVE  /\ cur[w] \in Deployments
         /\ dep[cur[w]] \notin {"NONE", "GONE"}
         /\ mode[cur[w]] \in {"rolling", "recreate"}
<1>1. cur[w] \in Deployments /\ job[cur[w]] = "active"
  BY DEF JobInv, TypeOK, WorkerTypeOK, OneOwner
<1> QED
  BY <1>1 DEF JobInv, TypeOK, PlatformTypeOK, ModeSet, OneSubmitter, Quiet

-------------------------------------------------------------------------------
(* The new container through each step of the handler.                     *)
LEMMA ReplacesStep ==
  ASSUME Undisturbed, Quiet, JobInv, NEW w \in Workers, Replaces(w),
         TakeJob(w) \/ HandleJob(w) \/ CrashWorker(w)
  PROVE  Replaces(w)'
<1> USE DEF JobInv, TypeOK, PlatformTypeOK, WorkerTypeOK, ContainerStates, PcStates, LockedPcs,
        platformVars, At, Go, Step, Replaces, StartedPcs, ReplacedPcs, Present
<1>1. CASE TakeJob(w) \/ LoadRecord(w)
  BY <1>1, Handled, PlatformAssumption DEF TakeJob, LoadRecord
<1>2. CASE CompleteJob(w) \/ FailJob(w) \/ CrashWorker(w)
  BY <1>2, PlatformAssumption DEF CompleteJob, FailJob, CrashWorker, EndJob, ResetLocals
<1>3. CASE MarkBuilding(w) \/ CaptureOld(w) \/ BuildFails(w) \/ CreateFails(w) \/ ListFails(w)
  BY <1>3, PlatformAssumption DEF MarkBuilding, CaptureOld, BuildFails, CreateFails, ListFails, Throw
<1>4. CASE BuildSucceeds(w) \/ ListToStop(w)
  BY <1>4, PlatformAssumption DEF BuildSucceeds, ListToStop
<1>5. CASE ComposeUp(w)
  BY <1>5, Handled DEF ComposeUp
<1>6. CASE StopOld(w)
  BY <1>6, PlatformAssumption DEF StopOld
<1>7. CASE CreateNew(w)
  BY <1>7, FreshIsNew, PlatformAssumption DEF CreateNew
<1>8. CASE StartNew(w) \/ StartFails(w)
  BY <1>8, PlatformAssumption DEF StartNew, StartFails
<1>9. CASE ListToClean(w)
  BY <1>9, PlatformAssumption DEF ListToClean
<1>10. CASE CleanStop(w)
  BY <1>10, PlatformAssumption DEF CleanStop, Stopped, Quiet
<1>11. CASE CleanRemove(w)
  BY <1>11, PlatformAssumption DEF CleanRemove, Removed, Quiet
<1>12. CASE RecordSuccess(w) \/ LockSuccess(w) \/ WriteRunning(w)
  BY <1>12, PlatformAssumption DEF RecordSuccess, LockSuccess, WriteRunning, Throw
<1>13. CASE UndoNew(w)
  BY <1>13, PlatformAssumption DEF UndoNew
<1>14. CASE RollbackOne(w) \/ RollbackEnds(w)
  BY <1>14, PlatformAssumption DEF RollbackOne, RollbackEnds
<1>15. CASE RecordFailed(w) \/ LockFailed(w) \/ WriteFailed(w)
  BY <1>15, PlatformAssumption DEF RecordFailed, LockFailed, WriteFailed
<1> QED
  BY <1>1, <1>2, <1>3, <1>4, <1>5, <1>6, <1>7, <1>8, <1>9, <1>10, <1>11, <1>12, <1>13,
     <1>14, <1>15 DEF HandleJob, Deploy, RollBack

(* What runs through each step of the handler, where every deployment is   *)
(* to be recreated.                                                        *)
LEMMA AloneStep ==
  ASSUME Undisturbed, Quiet, JobInv, NEW w \in Workers, Replaces(w), Alone(w),
         AllRecreate, AtMostOne(Running),
         TakeJob(w) \/ HandleJob(w) \/ CrashWorker(w)
  PROVE  AtMostOne(Running)' /\ Alone(w)'
<1> DEFINE Goal == AtMostOne(Running)' /\ Alone(w)'
<1> USE DEF JobInv, TypeOK, PlatformTypeOK, WorkerTypeOK, PcStates, LockedPcs, platformVars,
        At, Go, Step, Replaces, StartedPcs, ReplacedPcs, Running, AtMostOne, Alone
<1>1. CASE TakeJob(w) \/ LoadRecord(w)
  BY <1>1 DEF TakeJob, LoadRecord
<1>2. CASE CompleteJob(w) \/ FailJob(w) \/ CrashWorker(w)
  BY <1>2 DEF CompleteJob, FailJob, CrashWorker, EndJob, ResetLocals
<1>3. CASE MarkBuilding(w) \/ CaptureOld(w) \/ BuildFails(w) \/ CreateFails(w) \/ ListFails(w)
  BY <1>3, PlatformAssumption DEF MarkBuilding, CaptureOld, BuildFails, CreateFails,
     ListFails, Throw
<1>4. CASE BuildSucceeds(w)
  <2>1. mode[cur[w]] = "recreate"
    BY <1>4, Handled DEF BuildSucceeds, AllRecreate
  <2> QED
    BY <1>4, <2>1 DEF BuildSucceeds
<1>5. CASE ListToStop(w)
  BY <1>5 DEF ListToStop, Present
<1>6. CASE ComposeUp(w)
  BY <1>6, Handled DEF ComposeUp
<1>7. CASE StopOld(w)
  BY <1>7 DEF StopOld, Stopped
<1>8. CASE CreateNew(w)
  BY <1>8, FreshIsNew DEF CreateNew
<1>9. CASE StartNew(w) \/ StartFails(w)
  BY <1>9 DEF StartNew, StartFails
<1>10. CASE ListToClean(w)
  BY <1>10 DEF ListToClean
<1>11. CASE CleanStop(w) \/ CleanRemove(w)
  BY <1>11 DEF CleanStop, CleanRemove, Stopped, Removed
<1>12. CASE RecordSuccess(w) \/ LockSuccess(w) \/ WriteRunning(w)
  BY <1>12, PlatformAssumption DEF RecordSuccess, LockSuccess, WriteRunning, Throw
<1>13. CASE UndoNew(w)
  BY <1>13 DEF UndoNew
<1>14. CASE RollbackOne(w) \/ RollbackEnds(w)
  BY <1>14 DEF RollbackOne, RollbackEnds, Restarted
<1>15. CASE RecordFailed(w) \/ LockFailed(w) \/ WriteFailed(w)
  BY <1>15 DEF RecordFailed, LockFailed, WriteFailed
<1> QED
  BY <1>1, <1>2, <1>3, <1>4, <1>5, <1>6, <1>7, <1>8, <1>9, <1>10, <1>11, <1>12, <1>13,
     <1>14, <1>15 DEF HandleJob, Deploy, RollBack

(* What ran before through each step of the handler.                       *)
LEMMA RestoresStep ==
  ASSUME Undisturbed, Obliging, Quiet, JobInv, NEW w \in Workers, Replaces(w), Restores(w),
         TakeJob(w) \/ HandleJob(w) \/ CrashWorker(w)
  PROVE  Restores(w)'
<1> USE DEF JobInv, TypeOK, PlatformTypeOK, WorkerTypeOK, PcStates, LockedPcs, platformVars,
        At, Go, Step, Replaces, StartedPcs, ReplacedPcs, Running, Restores
<1>1. CASE TakeJob(w) \/ LoadRecord(w)
  BY <1>1 DEF TakeJob, LoadRecord
<1>2. CASE CompleteJob(w) \/ FailJob(w) \/ CrashWorker(w)
  BY <1>2 DEF CompleteJob, FailJob, CrashWorker, EndJob, ResetLocals
<1>3. CASE MarkBuilding(w) \/ CaptureOld(w) \/ BuildFails(w) \/ CreateFails(w) \/ ListFails(w)
  BY <1>3, PlatformAssumption DEF MarkBuilding, CaptureOld, BuildFails, CreateFails, ListFails, Throw
<1>4. CASE BuildSucceeds(w) \/ ListToStop(w)
  BY <1>4 DEF BuildSucceeds, ListToStop
<1>5. CASE ComposeUp(w)
  BY <1>5, Handled DEF ComposeUp
<1>6. CASE StopOld(w)
  BY <1>6 DEF StopOld, Stopped
<1>7. CASE CreateNew(w)
  BY <1>7, FreshIsNew DEF CreateNew
<1>8. CASE StartNew(w) \/ StartFails(w)
  BY <1>8 DEF StartNew, StartFails
<1>9. CASE ListToClean(w)
  BY <1>9 DEF ListToClean
<1>10. CASE CleanStop(w) \/ CleanRemove(w)
  BY <1>10 DEF CleanStop, CleanRemove
<1>11. CASE RecordSuccess(w) \/ LockSuccess(w) \/ WriteRunning(w)
  BY <1>11, Handled DEF RecordSuccess, RecordIsGone, LockSuccess, StatusLockRefused, WriteRunning, Obliging, Quiet
<1>12. CASE UndoNew(w)
  BY <1>12 DEF UndoNew
<1>13. CASE RollbackOne(w) \/ RollbackEnds(w)
  BY <1>13 DEF RollbackOne, RollbackEnds, Restarted, Obliging
<1>14. CASE RecordFailed(w) \/ LockFailed(w) \/ WriteFailed(w)
  BY <1>14 DEF RecordFailed, LockFailed, WriteFailed
<1> QED
  BY <1>1, <1>2, <1>3, <1>4, <1>5, <1>6, <1>7, <1>8, <1>9, <1>10, <1>11, <1>12, <1>13,
     <1>14 DEF HandleJob, Deploy, RollBack

(* What stays up through each step of the handler.                         *)
LEMMA StaysUpStep ==
  ASSUME Undisturbed, Obliging, Quiet, JobInv, NEW w \in Workers, Replaces(w), Restores(w),
         StaysUp(w), TakeJob(w) \/ HandleJob(w) \/ CrashWorker(w)
  PROVE  StaysUp(w)'
<1> USE DEF JobInv, TypeOK, PlatformTypeOK, WorkerTypeOK, PcStates, LockedPcs, platformVars,
        recordVars, At, Go, Step, Replaces, StartedPcs, ReplacedPcs, Running, StaysUp
<1>1. CASE TakeJob(w) \/ LoadRecord(w)
  BY <1>1 DEF TakeJob, LoadRecord
<1>2. CASE CompleteJob(w) \/ FailJob(w) \/ CrashWorker(w)
  BY <1>2 DEF CompleteJob, FailJob, CrashWorker, EndJob, ResetLocals
<1>3. CASE MarkBuilding(w) \/ CaptureOld(w) \/ BuildFails(w) \/ CreateFails(w)
  BY <1>3, PlatformAssumption DEF MarkBuilding, WriteRecord, CaptureOld, BuildFails, CreateFails, Throw
<1>4. CASE ListFails(w)
  BY <1>4 DEF ListFails, Throw
<1>5. CASE BuildSucceeds(w) \/ ListToStop(w)
  BY <1>5, Handled DEF BuildSucceeds, ListToStop
<1>6. CASE ComposeUp(w)
  BY <1>6, Handled DEF ComposeUp
<1>7. CASE StopOld(w)
  BY <1>7 DEF StopOld
<1>8. CASE CreateNew(w)
  BY <1>8, FreshIsNew DEF CreateNew
<1>9. CASE StartNew(w) \/ StartFails(w)
  BY <1>9 DEF StartNew, StartFails
<1>10. CASE ListToClean(w)
  BY <1>10 DEF ListToClean
<1>11. CASE CleanStop(w) \/ CleanRemove(w)
  BY <1>11 DEF CleanStop, CleanRemove
<1>12. CASE RecordSuccess(w) \/ LockSuccess(w) \/ WriteRunning(w)
  BY <1>12, Handled DEF RecordSuccess, RecordIsGone, LockSuccess, StatusLockRefused, WriteRunning, Obliging, Quiet
<1>13. CASE UndoNew(w)
  BY <1>13 DEF UndoNew
<1>14. CASE RollbackOne(w) \/ RollbackEnds(w)
  BY <1>14 DEF RollbackOne, RollbackEnds
<1>15. CASE RecordFailed(w) \/ LockFailed(w) \/ WriteFailed(w)
  BY <1>15 DEF RecordFailed, LockFailed, WriteFailed
<1> QED
  BY <1>1, <1>2, <1>3, <1>4, <1>5, <1>6, <1>7, <1>8, <1>9, <1>10, <1>11, <1>12, <1>13,
     <1>14, <1>15 DEF HandleJob, Deploy, RollBack

-------------------------------------------------------------------------------
(* The invariants through every step.                                      *)

(* What holds whatever fails, and what holds when nothing is refused.      *)
ContainerInv == JobInv /\ Quiet /\ ReplaceInv /\ OneInv
ObligedInv == ContainerInv /\ RestoreInv /\ UpInv

(* A deployment is asked for in another mode, or in the same.              *)
LEMMA SameModes ==
  ASSUME TypeOK, ModesStay
  PROVE  AllRecreate' => AllRecreate
BY DEF ModesStay, AllRecreate

(* The modes through a step of the worker.                                 *)
LEMMA WorkerModes ==
  ASSUME JobInv, WorkerNext
  PROVE  ModesStay
<1> USE DEF JobInv, TypeOK, PlatformTypeOK, ModesStay
<1>1. mode' = mode
  BY WorkerRows
<1>2. ASSUME NEW w \in Workers, NEW s \in Writable, WriteRecord(w, s)
      PROVE  \A d \in Deployments : dep[d] # "NONE" => dep'[d] # "NONE"
  BY <1>2 DEF WriteRecord, Writable
<1> QED
  BY <1>1, <1>2, WorkerRows

(* Steps that touch neither the worker nor a container.                    *)
LEMMA AsideKeeps ==
  ASSUME ContainerInv, UNCHANGED <<ctr, workerVars>>, ModesStay
  PROVE  /\ ReplaceInv' /\ OneInv'
         /\ RestoreInv => RestoreInv'
         /\ UpInv => UpInv'
<1> USE DEF workerVars
<1>1. ReplaceInv'
  BY DEF ContainerInv, ReplaceInv, Replaces, Present
<1>2. OneInv'
  <2>1. SUFFICES ASSUME AllRecreate'  PROVE OneInv'
    BY DEF OneInv
  <2>2. AllRecreate
    BY <2>1, SameModes DEF ContainerInv, JobInv
  <2> QED
    BY <2>2 DEF ContainerInv, OneInv, Alone, Running, AtMostOne
<1>3. RestoreInv => RestoreInv'
  BY DEF RestoreInv, Restores, Running
<1>4. UpInv => UpInv'
  <2>1. ASSUME NEW w \in Workers, StaysUp(w)  PROVE StaysUp(w)'
    <3>1. pc[w] # "idle" => mode'[cur[w]] = mode[cur[w]]
      BY Handled DEF ContainerInv, ModesStay
    <3> QED
      BY <2>1, <3>1 DEF StaysUp, Running
  <2> QED
    BY <2>1 DEF UpInv
<1> QED
  BY <1>1, <1>2, <1>3, <1>4

(* The invariants hold at the start.                                       *)
LEMMA ContainerInit == Undisturbed /\ Init => ObligedInv
BY JobInvInit
   DEF Undisturbed, Init, PlatformInit, WorkerInit, ApiInit, Opened, ObligedInv, ContainerInv,
       Quiet, QuietStates, ReplaceInv, Replaces, StartedPcs, ReplacedPcs, Present, OneInv,
       AtMostOne, Running, Alone, RestoreInv, Restores, UpInv, StaysUp

(* What a step of the worker keeps.                                        *)
LEMMA WorkerContainers ==
  ASSUME Undisturbed, ContainerInv, WorkerNext, UNCHANGED <<req, pass>>
  PROVE  /\ ReplaceInv' /\ OneInv'
         /\ Obliging /\ RestoreInv => RestoreInv'
         /\ Obliging /\ RestoreInv /\ UpInv => UpInv'
<1>1. CASE \E d \in Deployments : StalledJob(d)
  <2>1. UNCHANGED <<ctr, workerVars>>
    BY <1>1 DEF StalledJob
  <2> QED
    BY <2>1, WorkerModes, AsideKeeps DEF ContainerInv
<1>2. CASE \E w \in Workers : TakeJob(w) \/ HandleJob(w) \/ CrashWorker(w)
  <2>1. PICK w \in Workers : TakeJob(w) \/ HandleJob(w) \/ CrashWorker(w)
    BY <1>2
  <2>2. \A v \in Workers : v = w
    BY DEF Undisturbed
  <2>3. ReplaceInv'
    BY <2>1, <2>2, ReplacesStep DEF ContainerInv, ReplaceInv
  <2>4. OneInv'
    <3>1. SUFFICES ASSUME AllRecreate'  PROVE OneInv'
      BY DEF OneInv
    <3>2. AllRecreate
      BY <3>1, WorkerModes, SameModes DEF ContainerInv, JobInv
    <3>3. AtMostOne(Running)' /\ Alone(w)'
      BY <2>1, <3>2, AloneStep DEF ContainerInv, ReplaceInv, OneInv
    <3> QED
      BY <2>2, <3>3 DEF OneInv
  <2>5. Obliging /\ RestoreInv => RestoreInv'
    BY <2>1, <2>2, RestoresStep DEF ContainerInv, ReplaceInv, RestoreInv
  <2>6. Obliging /\ RestoreInv /\ UpInv => UpInv'
    BY <2>1, <2>2, StaysUpStep DEF ContainerInv, ReplaceInv, RestoreInv, UpInv
  <2> QED
    BY <2>3, <2>4, <2>5, <2>6
<1> QED
  BY <1>1, <1>2 DEF WorkerNext

(* What every step keeps.                                                  *)
LEMMA ContainersNext ==
  ASSUME Undisturbed, ContainerInv, [Next]_vars
  PROVE  /\ ContainerInv'
         /\ Obliging /\ ObligedInv => ObligedInv'
<1> DEFINE Kept == /\ ReplaceInv' /\ OneInv'
                   /\ Obliging /\ RestoreInv => RestoreInv'
                   /\ Obliging /\ RestoreInv /\ UpInv => UpInv'
<1>1. JobInv'
  BY JobInvNext DEF ContainerInv
<1>2. CASE WorkerNext /\ UNCHANGED <<req, pass>>
  <2>1. Quiet'
    BY <1>2, QuietWorker DEF ContainerInv, JobInv
  <2>2. Kept
    BY <1>2, WorkerContainers
  <2> QED
    BY <1>1, <2>1, <2>2 DEF ContainerInv, ObligedInv
<1>3. CASE OthersNext
  <2>1. Elsewhere
    BY <1>3, OthersElsewhere DEF ContainerInv, JobInv
  <2>2. Kept
    BY <2>1, AsideKeeps DEF Elsewhere
  <2> QED
    BY <1>1, <2>1, <2>2 DEF Elsewhere, ContainerInv, ObligedInv
<1>4. CASE UNCHANGED vars
  <2>1. UNCHANGED <<ctr, workerVars>> /\ ModesStay
    BY <1>4 DEF vars, platformVars, recordVars, ModesStay
  <2>2. Kept
    BY <2>1, AsideKeeps
  <2>3. Quiet'
    BY <1>4 DEF ContainerInv, Quiet, vars, platformVars, recordVars, serviceVars
  <2> QED
    BY <1>1, <2>2, <2>3 DEF ContainerInv, ObligedInv
<1> QED
  BY <1>2, <1>3, <1>4 DEF Next, OthersNext

(* Where deployments of one worker are all there is, the invariant of the  *)
(* containers holds whatever fails or is refused.                          *)
THEOREM ContainersHold ==
  ASSUME Undisturbed
  PROVE  Spec => []ContainerInv
<1>1. Init => ContainerInv
  BY ContainerInit DEF ObligedInv
<1>2. ContainerInv /\ [Next]_vars => ContainerInv'
  BY ContainersNext
<1> QED
  BY <1>1, <1>2, PTL DEF Spec

(* The stronger one, where besides nothing is refused.                     *)
THEOREM ObligedHold ==
  ASSUME Undisturbed, Obliging
  PROVE  Spec => []ObligedInv
<1>1. Init => ObligedInv
  BY ContainerInit
<1>2. ObligedInv /\ [Next]_vars => ObligedInv'
  BY ContainersNext DEF ObligedInv
<1> QED
  BY <1>1, <1>2, PTL DEF Spec

(* For any number of deployments, containers, crashes and redeliveries: a  *)
(* deployment about to be recorded as a success has replaced every other   *)
(* container, the leftovers of crashed and failed attempts included.       *)
THEOREM OneSurvivor ==
  ASSUME Undisturbed
  PROVE  Spec => []SoleSurvivor
<1>1. ContainerInv => SoleSurvivor
  BY DEF ContainerInv, ReplaceInv, Replaces, StartedPcs, ReplacedPcs, SoleSurvivor
<1> QED
  BY <1>1, ContainersHold, PTL

(* A set of which any two members are equal has at most one.               *)
LEMMA AtMostOneCounts ==
  ASSUME NEW S, AtMostOne(S)
  PROVE  Cardinality(S) <= 1
<1>1. CASE S = {}
  BY <1>1, FS_EmptySet
<1>2. CASE S # {}
  <2>1. PICK c : c \in S
    BY <1>2
  <2>2. S = {c}
    BY <2>1 DEF AtMostOne
  <2>3. Cardinality({c}) = 1
    BY FS_Singleton, Zenon
  <2> QED
    BY <2>2, <2>3
<1> QED
  BY <1>1, <1>2

(* For any number of them: where every deployment asks to be recreated,    *)
(* two containers never run at once, whichever step fails or crashes.      *)
THEOREM OneWrites ==
  ASSUME Undisturbed
  PROVE  Spec => []OneWriter
<1>1. ContainerInv => OneWriter
  BY AtMostOneCounts DEF ContainerInv, OneInv, AllRecreate, OneWriter
<1> QED
  BY <1>1, ContainersHold, PTL

(* A deployment that failed, at whichever step and after whichever crash   *)
(* of an earlier attempt, leaves running what ran when it began.           *)
THEOREM FailureRestores ==
  ASSUME Undisturbed, Obliging
  PROVE  Spec => []RollbackRestores
<1>1. ObligedInv => RollbackRestores
  BY DEF ObligedInv, RestoreInv, Restores, RollbackRestores
<1> QED
  BY <1>1, ObligedHold, PTL

-------------------------------------------------------------------------------
(* The last container that runs goes down only where the service asked for *)
(* it, or with a failed deployment that had found nothing running.         *)
GoesDown == Running # {} /\ Running' = {}
MayGoDown ==
  \E w \in Workers :
    /\ cur[w] # 0
    /\ mode[cur[w]] = "recreate" \/ (pc[w] = "undo" /\ olds[w] = {})

(* Where the new container already runs, the loop leaves it.               *)
LEMMA StepStaysUp ==
  ASSUME Undisturbed, ObligedInv, NEW w \in Workers,
         TakeJob(w) \/ HandleJob(w) \/ CrashWorker(w), GoesDown
  PROVE  MayGoDown
<1> USE DEF ObligedInv, ContainerInv, JobInv, TypeOK, PlatformTypeOK, WorkerTypeOK,
        platformVars, At, Go, Step, GoesDown, Running
<1>1. CASE StopOld(w)
  BY <1>1, Handled, NoDeploymentZero DEF StopOld, MayGoDown, UpInv, StaysUp
<1>2. CASE UndoNew(w)
  <2>1. made[w] \notin olds[w] /\ (mode[cur[w]] = "recreate" \/ olds[w] \subseteq Running)
    BY <1>2 DEF UndoNew, RestoreInv, Restores, UpInv, StaysUp
  <2>2. mode[cur[w]] = "recreate" \/ olds[w] = {}
    BY <1>2, <2>1 DEF UndoNew
  <2> QED
    BY <1>2, <2>2, Handled, NoDeploymentZero DEF UndoNew, MayGoDown
<1>3. CASE CleanStop(w) \/ CleanRemove(w)
  <2>1. made[w] \in Running /\ made[w] \notin todo[w] /\ (halted[w] # NoContainer => halted[w] \in todo[w])
    BY <1>3 DEF CleanStop, CleanRemove, ReplaceInv, Replaces, StartedPcs
  <2>2. made[w] \in Running'
    BY <1>3, <2>1 DEF CleanStop, CleanRemove
  <2> QED
    BY <2>2
<1>4. CASE CreateNew(w)
  BY <1>4, FreshIsNew DEF CreateNew
<1>5. CASE StartNew(w) \/ RollbackOne(w)
  BY <1>5 DEF StartNew, RollbackOne, Restarted
<1>6. CASE ComposeUp(w)
  BY <1>6, FreshIsNew DEF ComposeUp
<1> QED
  BY <1>1, <1>2, <1>3, <1>4, <1>5, <1>6
     DEF HandleJob, Deploy, RollBack, TakeJob, LoadRecord, CompleteJob, FailJob, CrashWorker,
         EndJob, MarkBuilding, CaptureOld, BuildSucceeds, BuildFails, ListToStop, CreateFails,
         StartFails, ListToClean, ListFails, RecordSuccess, LockSuccess, WriteRunning,
         RollbackEnds, RecordFailed, LockFailed, WriteFailed

(* A service that is up stays up, whatever fails or crashes, unless its    *)
(* deployments are to be recreated.                                        *)
THEOREM StaysUpAlways ==
  ASSUME Undisturbed, Obliging
  PROVE  Spec => ZeroDowntime
<1>1. ObligedInv /\ [Next]_vars => [GoesDown => MayGoDown]_vars
  <2> SUFFICES ASSUME ObligedInv, Next, GoesDown  PROVE MayGoDown
    OBVIOUS
  <2>1. CASE \E w \in Workers : TakeJob(w) \/ HandleJob(w) \/ CrashWorker(w)
    BY <2>1, StepStaysUp
  <2>2. CASE \E d \in Deployments : StalledJob(d)
    BY <2>2 DEF StalledJob, GoesDown, Running
  <2>3. CASE OthersNext
    BY <2>3, OthersElsewhere DEF Elsewhere, ObligedInv, ContainerInv, JobInv, GoesDown, Running
  <2> QED
    BY <2>1, <2>2, <2>3 DEF Next, WorkerNext, OthersNext
<1> QED
  BY <1>1, ObligedHold, PTL DEF Spec, ZeroDowntime, GoesDown, MayGoDown
===============================================================================
