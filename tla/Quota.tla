--------------------------------- MODULE Quota ---------------------------------
(***************************************************************************)
(* The services one user may have: subscription.middleware admits a        *)
(* creation by status and by number, ServiceManagementService looks the    *)
(* name up and creates or revives, and recovery is admitted by nobody.     *)
(* A service is what its name in its environment is: there is one of a     *)
(* name at most (the unique index).                                        *)
(***************************************************************************)
EXTENDS Integers, FiniteSets

CONSTANTS
  Names,          \* names a service may have
  Callers,        \* requests handled at once, each one after the other
  Plans,          \* plans the subscription may have, of PlanNames
  MaxRecoveries   \* bound: recoveries of deleted services

PlanNames == {"FREE", "STARTER", "PRO", "ENTERPRISE"}

ASSUME QuotaAssumption ==
  /\ IsFiniteSet(Names) /\ IsFiniteSet(Callers) /\ Callers # {}
  /\ Plans \subseteq PlanNames /\ "FREE" \in Plans
  /\ MaxRecoveries \in Nat

VARIABLES
  kept,        \* kept[n]: the service named n: none, live or deleted
  plan,        \* of the subscription; FREE without one
  standing,    \* of the subscription
  caller,      \* caller[c]: where a creation stands, and of which name
  ceiling,     \* history: the largest limit so far
  recoveries   \* history: recoveries so far

quotaVars == <<kept, plan, standing, caller, ceiling, recoveries>>

Standings == {"ACTIVE", "PAST_DUE-in-grace", "lapsed"}
CallerStates == {"idle", "count", "find", "create", "update"}
Caller(at, name) == [at |-> at, name |-> name]
NoName == "no-name"
IdleCaller == Caller("idle", NoName)

(* PLAN_LIMITS: the number of services, -1 for any number.                 *)
MaxServices(p) ==
  CASE p = "FREE" -> 1 [] p = "STARTER" -> 5 [] p = "PRO" -> 20 [] p = "ENTERPRISE" -> -1

LiveNames == {n \in Names : kept[n] = "live"}
Admitted == {c \in Callers : caller[c].at \in {"find", "create", "update"}}

QuotaInit ==
  /\ kept = [n \in Names |-> "none"]
  /\ plan = "FREE" /\ standing = "ACTIVE"
  /\ caller = [c \in Callers |-> IdleCaller]
  /\ ceiling = MaxServices("FREE")
  /\ recoveries = 0

QuotaTypeOK ==
  /\ kept \in [Names -> {"none", "live", "deleted"}]
  /\ plan \in Plans /\ standing \in Standings
  /\ caller \in [Callers -> [at : CallerStates, name : Names \cup {NoName}]]
  /\ ceiling \in Int /\ recoveries \in 0 .. MaxRecoveries

-------------------------------------------------------------------------------
At(c, here) == caller[c].at = here
To(c, there) == caller' = [caller EXCEPT ![c].at = there]
End(c) == caller' = [caller EXCEPT ![c] = IdleCaller]

(* requireActiveSubscription.                                              *)
MayCreate == standing \in {"ACTIVE", "PAST_DUE-in-grace"}

CheckStatus(c) ==
  /\ At(c, "idle") /\ MayCreate
  /\ \E n \in Names : caller' = [caller EXCEPT ![c] = Caller("count", n)]
  /\ UNCHANGED <<kept, plan, standing, ceiling, recoveries>>

(* Mutant: the limit itself is still admitted.                             *)
HasRoom_AtLimit == MaxServices(plan) = -1 \/ Cardinality(LiveNames) <= MaxServices(plan)

(* enforceResourceLimits: live services against the limit of the plan.     *)
HasRoom == MaxServices(plan) = -1 \/ Cardinality(LiveNames) < MaxServices(plan)

CheckLimit(c) ==
  /\ At(c, "count")
  /\ IF HasRoom THEN To(c, "find") ELSE End(c)
  /\ UNCHANGED <<kept, plan, standing, ceiling, recoveries>>

(* findByNameAndEnvironment finds deleted services too.                    *)
FindByName(c) ==
  /\ At(c, "find")
  /\ To(c, IF kept[caller[c].name] = "none" THEN "create" ELSE "update")
  /\ UNCHANGED <<kept, plan, standing, ceiling, recoveries>>

(* The unique index refuses a second creation, an update of a service that *)
(* was erased fails: either way nothing is written.                        *)
CreateOrUpdate(c) ==
  /\ At(c, "create") \/ At(c, "update")
  /\ LET n == caller[c].name IN
       IF At(c, "create") <=> kept[n] = "none"
       THEN kept' = [kept EXCEPT ![n] = "live"]
       ELSE UNCHANGED kept
  /\ End(c)
  /\ UNCHANGED <<plan, standing, ceiling, recoveries>>

-------------------------------------------------------------------------------
OnlyService == UNCHANGED <<plan, standing, caller, ceiling>>

DeleteService(n) ==
  /\ kept[n] = "live"
  /\ kept' = [kept EXCEPT ![n] = "deleted"]
  /\ UNCHANGED recoveries /\ OnlyService

(* POST /services/:id/recover asks neither for a subscription nor for room. *)
RecoverService(n) ==
  /\ kept[n] = "deleted" /\ recoveries < MaxRecoveries
  /\ kept' = [kept EXCEPT ![n] = "live"]
  /\ recoveries' = recoveries + 1
  /\ OnlyService

EraseService(n) ==
  /\ kept[n] = "deleted"
  /\ kept' = [kept EXCEPT ![n] = "none"]
  /\ UNCHANGED recoveries /\ OnlyService

(* A webhook changes the row of the subscription.                          *)
ChangePlan(p) ==
  /\ plan' = p
  /\ ceiling' = IF ceiling = -1 \/ MaxServices(p) = -1 THEN -1
                ELSE IF MaxServices(p) > ceiling THEN MaxServices(p) ELSE ceiling
  /\ UNCHANGED <<kept, standing, caller, recoveries>>

ChangeStanding(s) ==
  /\ standing' = s
  /\ UNCHANGED <<kept, plan, caller, ceiling, recoveries>>

QuotaNext ==
  \/ \E c \in Callers : CheckStatus(c) \/ CheckLimit(c) \/ FindByName(c) \/ CreateOrUpdate(c)
  \/ \E n \in Names : DeleteService(n) \/ RecoverService(n) \/ EraseService(n)
  \/ \E p \in Plans : ChangePlan(p)
  \/ \E s \in Standings : ChangeStanding(s)

QuotaSpec == QuotaInit /\ [][QuotaNext]_quotaVars

-------------------------------------------------------------------------------
(* The limit is exceeded by requests that were admitted together, by        *)
(* recoveries and by a plan that became smaller, and by nothing else: the   *)
(* services live and those about to be are no more than the largest limit  *)
(* so far, one less than the requests handled at once, and the recoveries. *)
LimitHeld ==
  ceiling # -1 =>
    Cardinality(LiveNames) + Cardinality(Admitted)
      <= ceiling + (Cardinality(Callers) - 1) + recoveries
===============================================================================
