---------------------------- MODULE LifecycleProofs ----------------------------
(***************************************************************************)
(* The life of one service, for any number of requests at once, lapses and *)
(* passes of the clean-up: what is erased leaves nothing in Docker, what   *)
(* is deleted does not run, and only what was deleted for thirty days is   *)
(* erased, up to the circumstances the properties name.                    *)
(***************************************************************************)
EXTENDS Lifecycle, TLAPS

-------------------------------------------------------------------------------
(* The inductive invariant.                                                *)

(* From the removal of the containers on, and without a row, what is in    *)
(* Docker belongs to a deployment that has not recorded its success yet.   *)
Erasing == purge \in {"rows", "row"} \/ ~Exists
ErasureInv ==
  /\ ~Exists => deployment = "none"
  /\ Erasing /\ container # "none" =>
       \/ job = "started"
       \/ odd \cap {"left-while-purged", "docker-refused", "project-deleted"} # {}

(* Nothing is deployed to a deleted service, and its containers go with    *)
(* the request that deleted it.                                            *)
DeletionInv ==
  Deleted =>
    \/ /\ job = "idle"
       /\ container = "running" => \E r \in Requests : Stands(r, "delete", "act")
    \/ odd \cap {"deployed-while-deleted", "died-while-deleting", "docker-refused"} # {}

(* What the clean-up listed is still what it listed, and no request that   *)
(* read the service before it aged is still about to delete it.            *)
AgeInv ==
  /\ purge # "idle" =>
       \/ Exists /\ service.deleted = "30-days-ago"
       \/ odd \cap {"touched-while-purged", "project-deleted"} # {}
  /\ service.deleted = "30-days-ago" => \A r \in Requests : ~Stands(r, "delete", "read")
  /\ "project-deleted" \in odd => ~Exists

LifecycleInv == LifecycleTypeOK /\ ErasureInv /\ DeletionInv /\ AgeInv

-------------------------------------------------------------------------------
(* A row is not the absence of one.                                        *)
LEMMA RowExists == NewRow \in Row /\ NoService \notin Row /\ NoService.deleted = "gone"
<1>1. NewRow \in Row
  BY DEF NewRow, Row, StatusSet
<1>2. NoService.deleted = "gone"
  BY DEF NoService, NewRow
<1>3. NoService \notin Row
  BY <1>2 DEF Row
<1> QED
  BY <1>1, <1>2, <1>3

(* What happens to a row leaves a row.                                     *)
LEMMA RowStays ==
  ASSUME LifecycleTypeOK, Exists
  PROVE  /\ service \in Row
         /\ \A s \in StatusSet :
              SetStatus(s) => service' \in Row /\ Exists' /\ service'.deleted = service.deleted
         /\ \A d \in {"no", "recently", "30-days-ago"} :
              service' = [service EXCEPT !.deleted = d]
                => service' \in Row /\ Exists' /\ service'.deleted = d
         /\ \A b \in BOOLEAN :
              service' = [service EXCEPT !.protected = b]
                => service' \in Row /\ Exists' /\ service'.deleted = service.deleted
<1>1. service \in Row
  BY DEF LifecycleTypeOK, Exists
<1>2. ASSUME NEW s \in StatusSet, SetStatus(s)  PROVE service' \in Row /\ service'.deleted = service.deleted
  BY <1>1, <1>2 DEF SetStatus, Row
<1>3. ASSUME NEW d \in {"no", "recently", "30-days-ago"}, service' = [service EXCEPT !.deleted = d]
      PROVE  service' \in Row /\ service'.deleted = d
  BY <1>1, <1>3 DEF Row
<1>4. ASSUME NEW b \in BOOLEAN, service' = [service EXCEPT !.protected = b]
      PROVE  service' \in Row /\ service'.deleted = service.deleted
  BY <1>1, <1>4 DEF Row
<1>5. service' \in Row => Exists'
  BY RowExists DEF Exists
<1> QED
  BY <1>1, <1>2, <1>3, <1>4, <1>5

LEMMA LifecycleBegins == LifecycleInit => LifecycleInv
<1> SUFFICES ASSUME LifecycleInit  PROVE LifecycleInv
  OBVIOUS
<1>0. service \in Row
  BY RowExists DEF LifecycleInit
<1>1. request \in [Requests -> [op : OperationSet \cup {"none"}, at : RequestStates]]
  BY DEF LifecycleInit, NoRequest, RequestStates
<1>2. pass \in [at : {"idle", "read"}, seen : StatusSet, expected : StatusSet]
  BY DEF LifecycleInit, StatusSet
<1>3. LifecycleTypeOK
  <2>1. 0 \in 0 .. MaxRequests /\ 0 \in 0 .. MaxLapses /\ 0 \in 0 .. MaxPurges
    BY LifecycleAssumption
  <2>2. odd \subseteq Odd
    BY DEF LifecycleInit
  <2> QED
    BY <1>0, <1>1, <1>2, <2>1, <2>2, Zenon DEF LifecycleInit, LifecycleTypeOK
<1>4. Exists /\ service.deleted = "no"
  BY RowExists DEF LifecycleInit, Exists, NewRow
<1>5. ErasureInv /\ DeletionInv /\ AgeInv
  BY <1>4 DEF LifecycleInit, ErasureInv, DeletionInv, AgeInv, Erasing, Deleted
<1> QED
  BY <1>3, <1>5 DEF LifecycleInv

(* Wherever a request goes on to, its record keeps its form.               *)
RequestsKept == request' \in [Requests -> [op : OperationSet \cup {"none"}, at : RequestStates]]
LEMMA RequestStays ==
  ASSUME LifecycleTypeOK, NEW r \in Requests
  PROVE  /\ Ends(r) => RequestsKept
         /\ \A at \in RequestStates : GoTo(r, at) => RequestsKept
<1>1. ASSUME Ends(r)  PROVE RequestsKept
  BY <1>1 DEF Ends, RequestsKept, NoRequest, RequestStates, LifecycleTypeOK
<1>2. ASSUME NEW at \in RequestStates, GoTo(r, at)  PROVE RequestsKept
  BY <1>2 DEF GoTo, RequestsKept, LifecycleTypeOK
<1> QED
  BY <1>1, <1>2

(* What a request does to the variables.                                   *)
LEMMA RequestsTyped ==
  ASSUME LifecycleTypeOK, NEW r \in Requests, RequestStep(r)
  PROVE  LifecycleTypeOK'
<1>0. {"read", "act", "write"} \subseteq RequestStates
  BY DEF RequestStates
<1>1. CASE Reads(r)
  BY <1>1, LifecycleAssumption DEF Reads, LifecycleTypeOK, RequestStates
<1>2. CASE Upsert(r) \/ Recover(r) \/ Protect(r)
  <2>1. service' \in Row \cup {NoService}
    BY <1>2, RowStays, RowExists DEF Upsert, Recover, Protect, Revives, LifecycleTypeOK
  <2>2. RequestsKept
    BY <1>2, RequestStays DEF Upsert, Recover, Protect
  <2>3. odd' \subseteq Odd
    BY <1>2 DEF Upsert, Recover, Protect, Revives, Note, Odd, LifecycleTypeOK
  <2>4. UNCHANGED <<deployment, job, container>> /\ OnlyRequest
    BY <1>2 DEF Upsert, Recover, Protect
  <2> QED
    BY <2>1, <2>2, <2>3, <2>4 DEF RequestsKept, OnlyRequest, LifecycleTypeOK
<1>3. CASE Queue(r)
  <2>1. RequestsKept
    BY <1>3, <1>0, RequestStays DEF Queue
  <2>2. odd' \subseteq Odd
    BY <1>3 DEF Queue, Note, Odd, LifecycleTypeOK
  <2> QED
    BY <1>3, <2>1, <2>2 DEF Queue, RequestsKept, OnlyRequest, LifecycleTypeOK
<1>4. CASE StopContainer(r) \/ WriteStatus(r)
  <2>1. service' \in Row \cup {NoService}
    BY <1>4, RowStays DEF StopContainer, WriteStatus, LifecycleTypeOK, StatusSet
  <2>2. RequestsKept
    BY <1>4, <1>0, RequestStays DEF StopContainer, WriteStatus
  <2> QED
    BY <1>4, <2>1, <2>2 DEF StopContainer, WriteStatus, RequestsKept, OnlyRequest, LifecycleTypeOK
<1>5. CASE SoftDelete(r) \/ RemoveContainers(r) \/ Dies(r)
  <2>1. service' \in Row \cup {NoService}
    BY <1>5, RowStays DEF SoftDelete, RemoveContainers, Dies, LifecycleTypeOK
  <2>2. RequestsKept
    BY <1>5, <1>0, RequestStays DEF SoftDelete, RemoveContainers, Dies
  <2>3. odd' \subseteq Odd
    BY <1>5 DEF SoftDelete, RemoveContainers, Dies, Note, Odd, LifecycleTypeOK
  <2>4. UNCHANGED <<deployment, job>> /\ container' \in {container, "none"} /\ OnlyRequest
    BY <1>5 DEF SoftDelete, RemoveContainers, Dies
  <2> QED
    BY <2>1, <2>2, <2>3, <2>4 DEF RequestsKept, OnlyRequest, LifecycleTypeOK
<1> QED
  BY <1>1, <1>2, <1>3, <1>4, <1>5 DEF RequestStep

(* What everything else does to them.                                      *)
LEMMA OthersTyped ==
  ASSUME LifecycleTypeOK, ErasureInv,
         EraseProject \/ JobStep \/ WorkerDies \/ Lapse \/ Pay \/ PassStep \/ PurgeStep
  PROVE  LifecycleTypeOK'
<1>1. CASE EraseProject
  BY <1>1 DEF EraseProject, Note, Odd, OnlyRequest, LifecycleTypeOK
<1>2. CASE JobStep \/ WorkerDies
  <2>1. service' \in Row \cup {NoService}
    <3>1. service' = service \/ \E st \in StatusSet : SetStatus(st) /\ Exists
      BY <1>2 DEF JobStep, Build, Start, BuildFails, Record, Undo, WorkerDies, RecordsFailure,
         StatusSet, ErasureInv
    <3> QED
      BY <3>1, RowStays DEF LifecycleTypeOK
  <2>2. odd' \subseteq Odd
    BY <1>2 DEF JobStep, Build, Start, BuildFails, Record, Undo, WorkerDies, Leaves, Note, Odd,
       LifecycleTypeOK
  <2>3. /\ deployment' \in {"none", "QUEUED", "SUCCESS", "FAILED"}
        /\ job' \in {"idle", "queued", "built", "started"}
        /\ container' \in {"none", "exited", "running"}
    BY <1>2 DEF JobStep, Build, Start, BuildFails, Record, Undo, WorkerDies, RecordsFailure,
       MayRunAgain, LifecycleTypeOK
  <2>4. OnlyJob
    BY <1>2 DEF JobStep, Build, Start, BuildFails, Record, Undo, WorkerDies
  <2> QED
    BY <2>1, <2>2, <2>3, <2>4 DEF OnlyJob, LifecycleTypeOK
<1>3. CASE Lapse \/ Pay
  <2>1. lapsed' \in BOOLEAN /\ lapses' \in 0 .. MaxLapses
    <3>1. lapsed' \in BOOLEAN
      BY <1>3 DEF Lapse, Pay
    <3>2. lapses \in 0 .. MaxLapses
      BY DEF LifecycleTypeOK
    <3>3. CASE Lapse
      <4>1. lapses < MaxLapses /\ lapses' = lapses + 1
        BY <3>3, Zenon DEF Lapse
      <4> QED
        BY <3>1, <3>2, <4>1, LifecycleAssumption
    <3>4. CASE Pay
      BY <3>1, <3>2, <3>4, Zenon DEF Pay
    <3> QED
      BY <1>3, <3>3, <3>4
  <2>2. UNCHANGED <<service, check, pass>> /\ OnlyPasses
    BY <1>3 DEF Lapse, Pay
  <2> QED
    BY <2>1, <2>2 DEF OnlyPasses, LifecycleTypeOK
<1>4. CASE PassStep
  <2>1. service' \in Row \cup {NoService}
    BY <1>4, RowStays DEF PassStep, FindLapsed, FindServices, Suspend, ReadAll, Reconcile,
       LifecycleTypeOK, StatusSet
  <2>2. pass' \in [at : {"idle", "read"}, seen : StatusSet, expected : StatusSet]
    <3>1. Expected \in StatusSet
      BY DEF Expected, StatusSet, LifecycleTypeOK
    <3>2. CASE ReadAll
      BY <3>1, <3>2, RowStays DEF ReadAll, Row
    <3>3. CASE Reconcile
      BY <3>3 DEF Reconcile, StatusSet
    <3> QED
      BY <1>4, <3>2, <3>3 DEF PassStep, FindLapsed, FindServices, Suspend, LifecycleTypeOK
  <2>3. check' \in {"idle", "subscription", "service"} /\ UNCHANGED <<lapsed, lapses>> /\ OnlyPasses
    BY <1>4 DEF PassStep, FindLapsed, FindServices, Suspend, ReadAll, Reconcile, LifecycleTypeOK
  <2> QED
    BY <2>1, <2>2, <2>3 DEF OnlyPasses, LifecycleTypeOK
<1>5. CASE PurgeStep
  <2>1. service' \in Row \cup {NoService}
    BY <1>5, RowStays DEF PurgeStep, Ages, ListExpired, PurgeContainers, PurgeDeployments, PurgeService,
       LifecycleTypeOK
  <2>2. odd' \subseteq Odd
    BY <1>5 DEF PurgeStep, Ages, ListExpired, PurgeContainers, PurgeDeployments, PurgeService,
       Note, Odd, LifecycleTypeOK
  <2>3. /\ deployment' \in {deployment, "none"} /\ UNCHANGED job
        /\ container' \in {container, "none"} /\ OnlyPurge
        /\ purge' \in {purge, "idle", "listed", "rows", "row"}
    BY <1>5 DEF PurgeStep, Ages, ListExpired, PurgeContainers, PurgeDeployments, PurgeService
  <2>4. purges' \in 0 .. MaxPurges
    <3>1. purges \in 0 .. MaxPurges
      BY DEF LifecycleTypeOK
    <3>2. CASE ListExpired
      <4>1. purges < MaxPurges /\ purges' = purges + 1
        BY <3>2, Zenon DEF ListExpired
      <4> QED
        BY <3>1, <4>1, LifecycleAssumption
    <3>3. CASE Ages
      BY <3>3, RowStays DEF Ages, LifecycleTypeOK
    <3>4. CASE PurgeContainers \/ PurgeDeployments \/ PurgeService
      BY <3>1, <3>4 DEF PurgeContainers, PurgeDeployments, PurgeService
    <3> QED
      BY <1>5, <3>2, <3>3, <3>4 DEF PurgeStep
  <2> QED
    BY <2>1, <2>2, <2>3, <2>4 DEF OnlyPurge, LifecycleTypeOK
<1> QED
  BY <1>1, <1>2, <1>3, <1>4, <1>5

(* The other requests stand where they stood.                              *)
LEMMA OthersStand ==
  ASSUME LifecycleTypeOK, NEW r \in Requests
  PROVE  /\ Ends(r) => /\ request'[r] = NoRequest
                       /\ \A q \in Requests \ {r} : request'[q] = request[q]
         /\ \A at \in RequestStates :
              GoTo(r, at) => /\ request'[r].op = request[r].op /\ request'[r].at = at
                             /\ \A q \in Requests \ {r} : request'[q] = request[q]
<1>1. ASSUME Ends(r)  PROVE /\ request'[r] = NoRequest
                            /\ \A q \in Requests \ {r} : request'[q] = request[q]
  BY <1>1 DEF Ends, LifecycleTypeOK
<1>2. ASSUME NEW at \in RequestStates, GoTo(r, at)
      PROVE  /\ request'[r].op = request[r].op /\ request'[r].at = at
             /\ \A q \in Requests \ {r} : request'[q] = request[q]
  BY <1>2 DEF GoTo, LifecycleTypeOK
<1> QED
  BY <1>1, <1>2

-------------------------------------------------------------------------------
DateKept == (Exists' <=> Exists) /\ service'.deleted = service.deleted
DateNow(d) == Exists' /\ service'.deleted = d

(* A request keeps the invariant, one step per action.                      *)
LEMMA RequestsKeep ==
  ASSUME LifecycleInv, NEW r \in Requests, RequestStep(r)
  PROVE  ErasureInv' /\ DeletionInv' /\ AgeInv'
<1> USE DEF LifecycleInv
<1>0. {"read", "act", "write"} \subseteq RequestStates /\ NoRequest.op = "none" /\ NoRequest.at = "new"
  BY DEF RequestStates, NoRequest
<1>1. CASE Reads(r)
  <2>1. UNCHANGED <<service, deployment, job, container, odd, purge>>
    BY <1>1 DEF Reads
  <2>2. PICK op \in Operations : Admits(op) /\ request' = [request EXCEPT ![r] = [op |-> op, at |-> "read"]]
    BY <1>1 DEF Reads
  <2>3. /\ request[r].at = "new" /\ request'[r].op = op /\ request'[r].at = "read"
        /\ \A q \in Requests \ {r} : request'[q] = request[q]
    BY <1>1, <2>2 DEF Reads, LifecycleTypeOK
  <2>4. op = "delete" => Live
    BY <2>2 DEF Admits
  <2> QED
    BY <2>1, <2>3, <2>4 DEF ErasureInv, DeletionInv, AgeInv, Erasing, Exists, Deleted, Live, Stands
<1>2. CASE Upsert(r)
  <2>1. UNCHANGED <<deployment, job, container, purge>> /\ odd \subseteq odd'
    BY <1>2 DEF Upsert, Revives, Note, OnlyRequest
  <2>2. /\ request[r].op = "post" /\ request'[r].op = "none"
        /\ \A q \in Requests \ {r} : request'[q] = request[q]
    BY <1>2, <1>0, OthersStand DEF Upsert, Stands
  <2>3. \/ Exists /\ DateNow("no") /\ (purge # "idle" => "touched-while-purged" \in odd')
           /\ ("project-deleted" \in odd' => "project-deleted" \in odd)
        \/ ~Exists /\ DateNow("no") /\ "project-deleted" \notin odd /\ odd' = odd
        \/ DateKept /\ odd' = odd
    <3>1. CASE Exists /\ Revives
      BY <3>1, RowStays DEF Revives, Note, DateNow
    <3>2. CASE ~Exists /\ "project-deleted" \notin odd /\ service' = NewRow /\ UNCHANGED odd
      <4>1. DateNow("no")
        BY <3>2, RowExists DEF DateNow, Exists, NewRow
      <4> QED
        BY <3>2, <4>1
    <3>3. CASE UNCHANGED <<service, odd>>
      BY <3>3 DEF DateKept, Exists
    <3> QED
      BY <1>2, <3>1, <3>2, <3>3 DEF Upsert
  <2>4. ErasureInv'
    BY <2>1, <2>3 DEF ErasureInv, Erasing, DateNow, DateKept
  <2>5. DeletionInv'
    BY <2>1, <2>2, <2>3 DEF DeletionInv, Deleted, Stands, DateNow, DateKept
  <2>6. AgeInv'
    BY <2>1, <2>2, <2>3 DEF AgeInv, Stands, DateNow, DateKept
  <2> QED
    BY <2>4, <2>5, <2>6
<1>3. CASE Recover(r) \/ Protect(r)
  <2>1. UNCHANGED <<deployment, job, container, purge>> /\ odd \subseteq odd'
    BY <1>3 DEF Recover, Protect, Revives, Note, OnlyRequest
  <2>2. /\ request[r].op # "delete" /\ request'[r].op = "none"
        /\ \A q \in Requests \ {r} : request'[q] = request[q]
    BY <1>3, <1>0, OthersStand DEF Recover, Protect, Stands
  <2>3. \/ Exists /\ DateNow("no") /\ (purge # "idle" => "touched-while-purged" \in odd')
           /\ ("project-deleted" \in odd' => "project-deleted" \in odd)
        \/ DateKept /\ odd' = odd
    <3>1. CASE Exists /\ Revives
      BY <3>1, RowStays DEF Revives, Note, DateNow
    <3>2. CASE UNCHANGED <<service, odd>>
      BY <3>2 DEF DateKept, Exists
    <3>3. CASE Protect(r) /\ Exists
      BY <3>3, RowStays DEF Protect, DateKept
    <3> QED
      BY <1>3, <3>1, <3>2, <3>3 DEF Recover, Protect
  <2>4. ErasureInv'
    BY <2>1, <2>3 DEF ErasureInv, Erasing, DateNow, DateKept
  <2>5. DeletionInv'
    BY <2>1, <2>2, <2>3 DEF DeletionInv, Deleted, Stands, DateNow, DateKept
  <2>6. AgeInv'
    BY <2>1, <2>2, <2>3 DEF AgeInv, Stands, DateNow, DateKept
  <2> QED
    BY <2>4, <2>5, <2>6
<1>4. CASE Queue(r)
  <2>1. UNCHANGED <<service, container, purge>>
    BY <1>4 DEF Queue, OnlyRequest
  <2>2. /\ request[r].op = "deploy" /\ request'[r].op \in {"deploy", "none"}
        /\ \A q \in Requests \ {r} : request'[q] = request[q]
    BY <1>4, <1>0, OthersStand DEF Queue, Stands
  <2>3. /\ job = "idle" /\ odd \subseteq odd'
        /\ odd' \subseteq odd \cup {"deployed-while-deleted", "touched-while-purged"}
        /\ deployment' # deployment => Exists
        /\ Deleted => "deployed-while-deleted" \in odd'
    BY <1>4 DEF Queue, Note, Deleted
  <2> QED
    BY <2>1, <2>2, <2>3 DEF ErasureInv, DeletionInv, AgeInv, Erasing, Exists, Deleted, Stands
<1>5. CASE StopContainer(r) \/ WriteStatus(r)
  <2>1. UNCHANGED <<deployment, job, purge, odd>> /\ DateKept
    <3>1. CASE UNCHANGED service
      BY <1>5, <3>1 DEF StopContainer, WriteStatus, OnlyRequest, DateKept, Exists
    <3>2. CASE Exists /\ WriteStatus(r)
      <4>1. SetStatus("STOPPED") \/ SetStatus("DEPLOYING")
        BY <3>2 DEF WriteStatus
      <4> QED
        BY <3>2, <4>1, RowStays DEF WriteStatus, OnlyRequest, DateKept, StatusSet
    <3> QED
      BY <1>5, <3>1, <3>2 DEF StopContainer, WriteStatus
  <2>2. /\ request[r].op # "delete" /\ request'[r].op # "delete"
        /\ \A q \in Requests \ {r} : request'[q] = request[q]
    BY <1>5, <1>0, OthersStand DEF StopContainer, WriteStatus, Stands
  <2>3. container' = container \/ (container # "none" /\ container' = "exited")
    <3>1. CASE StopContainer(r)
      BY <3>1 DEF StopContainer
    <3>2. CASE WriteStatus(r)
      BY <3>2 DEF WriteStatus, SetStatus
    <3> QED
      BY <1>5, <3>1, <3>2
  <2> QED
    BY <2>1, <2>2, <2>3 DEF ErasureInv, DeletionInv, AgeInv, Erasing, Deleted, Stands, DateKept
<1>6. CASE SoftDelete(r)
  <2>1. UNCHANGED <<deployment, job, container, purge>> /\ Stands(r, "delete", "read")
    BY <1>6 DEF SoftDelete, OnlyRequest
  <2>2. \A q \in Requests \ {r} : request'[q] = request[q]
    BY <1>6, <1>0, OthersStand DEF SoftDelete
  <2>3. CASE Exists
    <3>1. DateNow("recently")
      BY <1>6, <2>3, RowStays DEF SoftDelete, DateNow
    <3>2. request'[r].op = "delete" /\ request'[r].at = "act"
      BY <1>6, <2>1, <2>3, <1>0, OthersStand DEF SoftDelete, Stands
    <3>3. /\ odd \subseteq odd' /\ odd' \subseteq odd \cup {"deployed-while-deleted"}
          /\ job # "idle" => "deployed-while-deleted" \in odd'
      BY <1>6, <2>3 DEF SoftDelete, Note
    <3>4. ErasureInv'
      BY <2>1, <2>3, <3>1, <3>3 DEF ErasureInv, Erasing, DateNow
    <3>5. DeletionInv'
      BY <2>1, <3>2, <3>3 DEF DeletionInv, Stands
    <3>6. AgeInv'
      BY <2>1, <2>3, <3>1, <3>3 DEF AgeInv, DateNow
    <3> QED
      BY <3>4, <3>5, <3>6
  <2>4. CASE ~Exists
    <3>1. UNCHANGED <<service, odd>> /\ request'[r] = NoRequest
      BY <1>6, <2>4, OthersStand DEF SoftDelete
    <3> QED
      BY <1>0, <2>1, <2>2, <2>4, <3>1 DEF ErasureInv, DeletionInv, AgeInv, Erasing, Exists, Deleted, Stands
  <2> QED
    BY <2>3, <2>4
<1>7. CASE RemoveContainers(r)
  <2>1. UNCHANGED <<service, deployment, job, purge>>
    BY <1>7 DEF RemoveContainers, OnlyRequest
  <2>2. /\ request'[r] = NoRequest /\ \A q \in Requests \ {r} : request'[q] = request[q]
    BY <1>7, OthersStand DEF RemoveContainers
  <2>3. \/ container' = "none" /\ odd' = odd
        \/ container' = container /\ odd' = odd \cup {"docker-refused"}
    BY <1>7 DEF RemoveContainers, Note
  <2> QED
    BY <1>0, <2>1, <2>2, <2>3 DEF ErasureInv, DeletionInv, AgeInv, Erasing, Exists, Deleted, Stands
<1>8. CASE Dies(r)
  <2>1. UNCHANGED <<service, deployment, job, container, purge>>
    BY <1>8 DEF Dies, OnlyRequest
  <2>2. /\ request'[r] = NoRequest /\ \A q \in Requests \ {r} : request'[q] = request[q]
    BY <1>8, OthersStand DEF Dies
  <2>3. /\ odd \subseteq odd' /\ odd' \subseteq odd \cup {"died-while-deleting"}
        /\ Stands(r, "delete", "act") => "died-while-deleting" \in odd'
    BY <1>8 DEF Dies, Note
  <2> QED
    BY <1>0, <2>1, <2>2, <2>3 DEF ErasureInv, DeletionInv, AgeInv, Erasing, Exists, Deleted, Stands
<1> QED
  BY <1>1, <1>2, <1>3, <1>4, <1>5, <1>6, <1>7, <1>8 DEF RequestStep

(* What a job does to rows: a status and the outcome of a deployment that   *)
(* is there.                                                               *)
LEMMA JobsWrite ==
  ASSUME LifecycleInv, JobStep \/ WorkerDies
  PROVE  /\ DateKept /\ UNCHANGED <<request, purge>> /\ job # "idle"
         /\ deployment = "none" <=> deployment' = "none"
         /\ odd \subseteq odd' /\ odd' \subseteq odd \cup {"left-while-purged", "docker-refused"}
<1> USE DEF LifecycleInv
<1>1. UNCHANGED <<request, purge>> /\ job # "idle"
  BY DEF JobStep, Build, Start, BuildFails, Record, Undo, WorkerDies, OnlyJob
<1>2. deployment = "none" <=> deployment' = "none"
  BY DEF JobStep, Build, Start, BuildFails, Record, Undo, WorkerDies, RecordsFailure
<1>3. odd \subseteq odd' /\ odd' \subseteq odd \cup {"left-while-purged", "docker-refused"}
  BY DEF JobStep, Build, Start, BuildFails, Record, Undo, WorkerDies, Leaves, Note
<1>4. service' = service \/ \E st \in StatusSet : SetStatus(st) /\ Exists
  BY DEF JobStep, Build, Start, BuildFails, Record, Undo, WorkerDies, RecordsFailure, StatusSet,
     ErasureInv
<1>5. DateKept
  BY <1>4, RowStays DEF DateKept, Exists
<1> QED
  BY <1>1, <1>2, <1>3, <1>5

(* A deployment keeps the invariant, and so does the death of its worker:  *)
(* the circumstances note what is left in Docker.                          *)
LEMMA JobsKeep ==
  ASSUME LifecycleInv, JobStep \/ WorkerDies
  PROVE  ErasureInv' /\ DeletionInv' /\ AgeInv'
<1> USE DEF LifecycleInv
<1>1. AgeInv'
  BY JobsWrite DEF AgeInv, DateKept, Stands
<1>2. DeletionInv'
  BY JobsWrite DEF DeletionInv, Deleted, DateKept
<1>3. ErasureInv'
  <2>1. Erasing' => Erasing
    BY JobsWrite DEF Erasing, DateKept
  <2>2. ~Exists' => deployment' = "none"
    BY JobsWrite DEF ErasureInv, DateKept
  <2>3. ASSUME Erasing, container' # "none", job' # "started"
        PROVE  odd' \cap {"left-while-purged", "docker-refused", "project-deleted"} # {}
    <3>1. CASE BuildFails \/ WorkerDies \/ Record
      <4>1. odd' = odd \cup {"left-while-purged"}
        BY <2>3, <3>1 DEF BuildFails, WorkerDies, Record, Leaves, Note, Erasing
      <4> QED
        BY <4>1
    <3>2. CASE Undo
      <4>1. odd' = odd \cup {"docker-refused"}
        BY <2>3, <3>2 DEF Undo, Note
      <4> QED
        BY <4>1
    <3>3. CASE Build
      <4>1. job = "queued" /\ UNCHANGED <<container, odd>>
        BY <3>3 DEF Build
      <4> QED
        BY <2>3, <4>1 DEF ErasureInv
    <3>4. CASE Start
      BY <2>3, <3>4 DEF Start
    <3> QED
      BY <3>1, <3>2, <3>3, <3>4 DEF JobStep
  <2> QED
    BY <2>1, <2>2, <2>3 DEF ErasureInv
<1> QED
  BY <1>1, <1>2, <1>3

(* So do the passes, which write no more than a status.                    *)
LEMMA PassesKeep ==
  ASSUME LifecycleInv, Lapse \/ Pay \/ PassStep
  PROVE  ErasureInv' /\ DeletionInv' /\ AgeInv'
<1> USE DEF LifecycleInv
<1>1. UNCHANGED <<deployment, job, container, request, purge, odd>>
  <2>1. OnlyPasses
    BY Zenon DEF Lapse, Pay, PassStep, FindLapsed, FindServices, Suspend, ReadAll, Reconcile
  <2> QED
    BY <2>1 DEF OnlyPasses
<1>2. DateKept
  <2>1. CASE UNCHANGED service
    BY <2>1 DEF DateKept, Exists
  <2>2. CASE (Suspend \/ Reconcile) /\ Exists /\ ~UNCHANGED service
    <3>1. \E s \in StatusSet : SetStatus(s)
      BY <2>2 DEF Suspend, Reconcile, StatusSet, LifecycleTypeOK
    <3> QED
      BY <2>2, <3>1, RowStays DEF DateKept
  <2> QED
    BY <2>1, <2>2 DEF Lapse, Pay, PassStep, FindLapsed, FindServices, Suspend, ReadAll, Reconcile
<1> QED
  BY <1>1, <1>2 DEF ErasureInv, DeletionInv, AgeInv, Erasing, Deleted, Stands, DateKept

(* And the erasures.                                                       *)
LEMMA ErasuresKeep ==
  ASSUME LifecycleInv, EraseProject \/ PurgeStep
  PROVE  ErasureInv' /\ DeletionInv' /\ AgeInv'
<1> USE DEF LifecycleInv
<1>0. service' = NoService => ~Exists' /\ service'.deleted = "gone"
  BY RowExists DEF Exists
<1>1. CASE EraseProject
  <2>1. /\ service' = NoService /\ deployment' = "none" /\ odd' = odd \cup {"project-deleted"}
        /\ UNCHANGED <<job, container, request, purge>>
    BY <1>1 DEF EraseProject, Note, OnlyRequest
  <2> QED
    BY <1>0, <2>1 DEF ErasureInv, DeletionInv, AgeInv, Erasing, Deleted
<1>2. CASE Ages
  <2>1. UNCHANGED <<deployment, container, purge, job, odd>> /\ Deleted /\ job = "idle"
    BY <1>2 DEF Ages, Deleted
  <2>2. UNCHANGED request /\ \A r \in Requests : request[r].op = "none"
    <3>1. NoRequest.op = "none"
      BY DEF NoRequest
    <3> QED
      BY <1>2, <3>1, RowStays DEF Ages, OnlyPurge
  <2>3. Exists /\ DateNow("30-days-ago")
    BY <1>2, RowStays DEF Ages, DateNow
  <2> QED
    BY <2>1, <2>2, <2>3 DEF ErasureInv, DeletionInv, AgeInv, Erasing, Deleted, Stands, DateNow
<1>3. CASE ListExpired
  <2>1. /\ UNCHANGED <<service, deployment, job, container, request>>
        /\ Exists /\ service.deleted = "30-days-ago" /\ purge' = "listed"
    BY <1>3 DEF ListExpired, OnlyPurge
  <2>2. odd \subseteq odd' /\ odd' \subseteq odd \cup {"touched-while-purged"}
    BY <1>3 DEF ListExpired, Note
  <2> QED
    BY <2>1, <2>2 DEF ErasureInv, DeletionInv, AgeInv, Erasing, Exists, Deleted, Stands
<1>4. CASE PurgeContainers \/ PurgeDeployments
  <2>1. /\ UNCHANGED <<service, job, request>> /\ purge # "idle"
        /\ deployment' \in {deployment, "none"}
    BY <1>4 DEF PurgeContainers, PurgeDeployments, OnlyPurge
  <2>2. \/ container' = "none" /\ odd' = odd
        \/ container' = container /\ odd' = odd \cup {"docker-refused"}
        \/ purge = "rows" /\ UNCHANGED <<container, odd>>
    BY <1>4 DEF PurgeContainers, PurgeDeployments, Note
  <2> QED
    BY <2>1, <2>2 DEF ErasureInv, DeletionInv, AgeInv, Erasing, Exists, Deleted, Stands
<1>5. CASE PurgeService
  <2>1. /\ service' = NoService /\ deployment' = "none" /\ purge = "row" /\ purge' = "idle"
        /\ UNCHANGED <<job, container, request, odd>>
    BY <1>5 DEF PurgeService, OnlyPurge
  <2> QED
    BY <1>0, <2>1 DEF ErasureInv, DeletionInv, AgeInv, Erasing, Deleted
<1> QED
  BY <1>1, <1>2, <1>3, <1>4, <1>5 DEF PurgeStep

-------------------------------------------------------------------------------
LEMMA LifecycleNextStep == LifecycleInv /\ [LifecycleNext]_lifecycleVars => LifecycleInv'
<1> SUFFICES ASSUME LifecycleInv, [LifecycleNext]_lifecycleVars  PROVE LifecycleInv'
  OBVIOUS
<1>1. CASE \E r \in Requests : RequestStep(r)
  BY <1>1, RequestsTyped, RequestsKeep DEF LifecycleInv
<1>2. CASE EraseProject \/ JobStep \/ WorkerDies \/ Lapse \/ Pay \/ PassStep \/ PurgeStep
  BY <1>2, OthersTyped, JobsKeep, PassesKeep, ErasuresKeep DEF LifecycleInv
<1>3. CASE UNCHANGED lifecycleVars
  <2>1. LifecycleTypeOK'
    BY <1>3 DEF lifecycleVars, LifecycleInv, LifecycleTypeOK
  <2>2. (ErasureInv /\ DeletionInv /\ AgeInv)'
    BY <1>3 DEF lifecycleVars, LifecycleInv, ErasureInv, DeletionInv, AgeInv, Erasing, Exists, Deleted, Stands
  <2> QED
    BY <2>1, <2>2 DEF LifecycleInv
<1> QED
  BY <1>1, <1>2, <1>3 DEF LifecycleNext

(* The invariant holds throughout, and with it the types.                  *)
THEOREM LifecycleHolds == LifecycleSpec => []LifecycleInv
BY LifecycleBegins, LifecycleNextStep, PTL DEF LifecycleSpec

(* Every reachable state is well typed: requests, clean-up and schedule    *)
(* leave rows, containers and their own places within their types.         *)
THEOREM LifecycleTyped == LifecycleSpec => []LifecycleTypeOK
<1>1. LifecycleInv => LifecycleTypeOK
  BY DEF LifecycleInv
<1> QED
  BY <1>1, LifecycleHolds, PTL

(* A service that the clean-up erased (permanentlyDeleteServices) has no   *)
(* container left, whatever requests, passes and deployments do meanwhile   *)
(* that fail, retry or lose their worker, but for what ErasedLeavesNothing *)
(* names: a container that is left while the clean-up is under way, or     *)
(* after it, that Docker refused to remove, or of a deleted project.       *)
THEOREM ErasedIsGone == LifecycleSpec => []ErasedLeavesNothing
<1>1. LifecycleInv => ErasedLeavesNothing
  BY DEF LifecycleInv, ErasureInv, Erasing, ErasedLeavesNothing
<1> QED
  BY <1>1, LifecycleHolds, PTL

(* A deleted service does not run.                                         *)
THEOREM DeletedIsStopped == LifecycleSpec => []DeletedStops
<1>1. LifecycleInv => DeletedStops
  BY DEF LifecycleInv, DeletionInv, DeletedStops
<1> QED
  BY <1>1, LifecycleHolds, PTL

(* Nothing is erased before its thirty days have passed.                   *)
LEMMA ErasesTheOld ==
  ASSUME LifecycleInv, [LifecycleNext]_lifecycleVars, Exists, service' = NoService
  PROVE  \/ service.deleted = "30-days-ago"
         \/ "touched-while-purged" \in odd
         \/ "project-deleted" \in odd' \ odd
<1> USE DEF LifecycleInv
<1>0. ~Exists'
  BY DEF Exists
<1>1. ASSUME NEW r \in Requests, RequestStep(r)  PROVE FALSE
  <2>1. CASE service' = service
    BY <2>1, <1>0 DEF Exists
  <2>2. CASE Upsert(r) \/ Recover(r) \/ SoftDelete(r)
    <3>1. service' = [service EXCEPT !.deleted = "no"] \/ service' = [service EXCEPT !.deleted = "recently"]
      BY <2>2, <1>0 DEF Upsert, Recover, SoftDelete, Revives, Exists
    <3> QED
      BY <3>1, <1>0, RowStays
  <2>3. CASE Protect(r)
    BY <2>3, <1>0, RowStays DEF Protect
  <2>4. CASE WriteStatus(r)
    <3>1. SetStatus("STOPPED") \/ SetStatus("DEPLOYING")
      BY <2>4 DEF WriteStatus
    <3> QED
      BY <3>1, <1>0, RowStays DEF StatusSet
  <2> QED
    BY <1>1, <2>1, <2>2, <2>3, <2>4
    DEF RequestStep, Reads, Queue, StopContainer, RemoveContainers, Dies
<1>2. CASE EraseProject
  BY <1>2 DEF EraseProject, Note
<1>3. CASE PurgeService
  BY <1>3 DEF PurgeService, AgeInv
<1>4. CASE Ages
  BY <1>0, <1>4, RowStays DEF Ages
<1>5. CASE JobStep \/ WorkerDies
  BY <1>0, <1>5, JobsWrite DEF DateKept
<1>6. CASE Lapse \/ Pay \/ PassStep
  <2>1. service' = service \/ \E s \in StatusSet : SetStatus(s)
    BY <1>6 DEF Lapse, Pay, PassStep, FindLapsed, FindServices, Suspend, ReadAll, Reconcile,
       StatusSet, LifecycleTypeOK
  <2> QED
    BY <2>1, <1>0, RowStays DEF Exists
<1>7. CASE ListExpired \/ PurgeContainers \/ PurgeDeployments
  BY <1>7, <1>0 DEF ListExpired, PurgeContainers, PurgeDeployments, Exists
<1>8. CASE UNCHANGED lifecycleVars
  BY <1>8, <1>0 DEF lifecycleVars, Exists
<1> QED
  BY <1>1, <1>2, <1>3, <1>4, <1>5, <1>6, <1>7, <1>8 DEF LifecycleNext, PurgeStep

(* The clean-up erases what is deleted for thirty days, but for the        *)
(* circumstances the property names.                                       *)
THEOREM NothingErasedEarly == LifecycleSpec => ErasedAfter30Days
<1>1. LifecycleInv /\ [LifecycleNext]_lifecycleVars =>
        [Exists /\ service' = NoService =>
           \/ service.deleted = "30-days-ago"
           \/ "touched-while-purged" \in odd
           \/ "project-deleted" \in odd' \ odd]_lifecycleVars
  BY ErasesTheOld
<1> QED
  BY <1>1, LifecycleHolds, PTL DEF LifecycleSpec, ErasedAfter30Days
===============================================================================
