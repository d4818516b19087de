------------------------------ MODULE Reconciler ------------------------------
(***************************************************************************)
(* StatusReconciliationService, apps/api/src/utils/statusReconciliation.ts:*)
(* every 30 seconds read all services with their latest deployment, list   *)
(* the containers, and then, service by service and under its lock, write  *)
(* the status this snapshot calls for.  A pass is not kept from starting   *)
(* while an earlier one runs, so Passes may hold more than one.            *)
(***************************************************************************)
EXTENDS Platform

CONSTANT Passes     \* reconciliation passes that may be under way at once

ASSUME ReconcilerAssumption == Passes \cap {Free, Orphaned} = {}

VARIABLE pass       \* pass[k]: the local state of pass k

Snapshot(here, seen, latest, expected) ==
  [at |-> here, seen |-> seen, latest |-> latest, expected |-> expected]
Idle == Snapshot("idle", "IDLE", "NONE", "IDLE")

ReconcilerInit == pass = [k \in Passes |-> Idle]

ReconcilerTypeOK ==
  pass \in [Passes ->
    [at : {"idle", "list", "lock", "write"},
     seen : ServiceStates,
     latest : RecordStates,
     expected : ServiceStates]]

-------------------------------------------------------------------------------
(* prisma.service.findMany, soft-deleted services included.                *)
ReadServices(k) ==
  /\ pass[k].at = "idle"
  /\ row # "purged"
  /\ pass' = [pass EXCEPT ![k] = Snapshot("list", status, LatestRecord, "IDLE")]
  /\ UNCHANGED platformVars

(* docker.listContainers; what follows reads nothing more, so the expected *)
(* status is settled here.                                                 *)
ListContainers(k) ==
  /\ pass[k].at = "list"
  /\ pass' = [pass EXCEPT ![k] =
                Snapshot("lock", pass[k].seen, "NONE",
                         ExpectedStatus(pass[k].latest, {ctr[c] : c \in Present}))]
  /\ UNCHANGED platformVars

(* A refused lock is logged and the service is left to the next pass.      *)
LockService(k) ==
  /\ pass[k].at = "lock"
  /\ \/ /\ AcquireStatusLock(k)
        /\ pass' = [pass EXCEPT ![k] =
                      Snapshot("write", pass[k].seen, "NONE", pass[k].expected)]
     \/ StatusLockRefused /\ pass' = [pass EXCEPT ![k] = Idle]
  /\ UNCHANGED <<recordVars, jobVars, serviceVars, ctr>>

(* Mutant: a service that says DEPLOYING is left to its deployment.        *)
Reconcile_SkipDeploying(k) ==
  /\ pass[k].at = "write"
  /\ IF pass[k].seen \notin {pass[k].expected, "DEPLOYING"} /\ row # "purged"
     THEN status' = pass[k].expected
     ELSE UNCHANGED status
  /\ ReleaseStatusLock(k)
  /\ pass' = [pass EXCEPT ![k] = Idle]
  /\ UNCHANGED <<row, recordVars, jobVars, ctr>>

Reconcile(k) ==
  /\ pass[k].at = "write"
  /\ IF pass[k].seen # pass[k].expected /\ row # "purged"
     THEN status' = pass[k].expected
     ELSE UNCHANGED status
  /\ ReleaseStatusLock(k)
  /\ pass' = [pass EXCEPT ![k] = Idle]
  /\ UNCHANGED <<row, recordVars, jobVars, ctr>>

PassStep(k) ==
  ReadServices(k) \/ ListContainers(k) \/ LockService(k) \/ Reconcile(k)

ReconcilerNext == \E k \in Passes : PassStep(k)
===============================================================================
