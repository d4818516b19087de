------------------------------ MODULE Enforcement ------------------------------
(***************************************************************************)
(* The subscription check against the clock: subscriptionCheckWorker warns  *)
(* and suspends a user whose renewal failed, by the hours since the end of *)
(* the period, and subscription.middleware lets that user in or not.       *)
(* Times are hours.                                                        *)
(***************************************************************************)
EXTENDS Integers

CONSTANTS
  Step,       \* bound: the clock moves by so many hours
  Horizon,    \* bound: the last hour
  PeriodEnd   \* hour at which the paid period ends

ASSUME EnforcementAssumption ==
  Step \in Nat \ {0} /\ Horizon \in Nat /\ PeriodEnd \in Nat

VARIABLES
  now,          \* hour
  account,      \* the subscription row
  failedAt,     \* hour the renewal failed, Never before
  announced,    \* the webhook of the failure was handled
  look,         \* the check: idle, or what it read
  lastLook,     \* hour of the last check
  suspended,    \* the user's services are SUSPENDED
  warnedDays    \* history: days on which a past due user was warned

enforcementVars ==
  <<now, account, failedAt, announced, look, lastLook, suspended, warnedDays>>

Never == -1
Day == 24
Month == 30 * Day
GraceDays == 7
WarningDays == {1, 3, 5, 7}
AccountStates == {"ACTIVE", "PAST_DUE", "UNPAID", "CANCELED"}

EnforcementInit ==
  /\ now = 0
  /\ account = [status |-> "ACTIVE", end |-> PeriodEnd, warned |-> Never, suspended |-> Never]
  /\ failedAt = Never /\ announced = FALSE
  /\ look = [at |-> "idle"]
  /\ lastLook = 0
  /\ suspended = FALSE
  /\ warnedDays = {}

EnforcementTypeOK ==
  /\ now \in 0 .. Horizon
  /\ account \in [status : AccountStates, end : Nat, warned : Nat \cup {Never},
                  suspended : Nat \cup {Never}]
  /\ failedAt \in Nat \cup {Never} /\ announced \in BOOLEAN
  /\ look.at \in {"idle", "read"}
  /\ lastLook \in 0 .. Horizon
  /\ suspended \in BOOLEAN
  /\ warnedDays \subseteq 0 .. GraceDays

-------------------------------------------------------------------------------
(* Time passes.  The check runs at least once a day (every hour in the     *)
(* code) and takes less than a step; the failed payment is known before a  *)
(* day is over.                                                            *)
Tick ==
  /\ now + Step <= Horizon
  /\ look.at = "idle" /\ now + Step - lastLook <= Day
  /\ failedAt # Never /\ ~announced => now + Step - failedAt < Day
  /\ now' = now + Step
  /\ UNCHANGED <<account, failedAt, announced, look, lastLook, suspended, warnedDays>>

(* The renewal at the end of the period fails.                             *)
PeriodUnpaid ==
  /\ account.status = "ACTIVE" /\ failedAt = Never /\ now = account.end
  /\ failedAt' = now
  /\ UNCHANGED <<now, account, announced, look, lastLook, suspended, warnedDays>>

(* handleInvoicePaymentFailed: the status alone.                           *)
PaymentFailed ==
  /\ failedAt # Never /\ ~announced
  /\ announced' = TRUE
  /\ account' = [account EXCEPT !.status = "PAST_DUE"]
  /\ UNCHANGED <<now, failedAt, look, lastLook, suspended, warnedDays>>

(* handleSubscriptionUpdated: the status and Stripe's period, which is the *)
(* new one, unpaid or not.                                                 *)
SubscriptionUpdated ==
  /\ failedAt # Never /\ account.end = PeriodEnd
  /\ announced' = TRUE
  /\ account' = [account EXCEPT !.status = "PAST_DUE", !.end = @ + Month]
  /\ UNCHANGED <<now, failedAt, look, lastLook, suspended, warnedDays>>

(* Stripe gives up, or the user cancels.                                   *)
SubscriptionEnds ==
  /\ account.status = "PAST_DUE"
  /\ \E s \in {"UNPAID", "CANCELED"} : account' = [account EXCEPT !.status = s]
  /\ UNCHANGED <<now, failedAt, announced, look, lastLook, suspended, warnedDays>>

(* The reconciliation replaces SUSPENDED by what the containers say.       *)
StatusReplaced ==
  /\ suspended /\ suspended' = FALSE
  /\ UNCHANGED <<now, account, failedAt, announced, look, lastLook, warnedDays>>

-------------------------------------------------------------------------------
(* processSubscriptionCheck: what needs attention is read once.            *)
ReadAccounts ==
  /\ look.at = "idle"
  /\ lastLook' = now
  /\ look' = IF account.status = "ACTIVE" THEN look ELSE [at |-> "read", row |-> account]
  /\ UNCHANGED <<now, account, failedAt, announced, suspended, warnedDays>>

SinceEnd(row) == now - row.end
DaysSinceEnd(row) == SinceEnd(row) \div Day

(* Mutant: days are taken for hours.                                       *)
WithinGrace_Hours(row) == SinceEnd(row) >= 0 /\ SinceEnd(row) < GraceDays

WithinGrace(row) == SinceEnd(row) >= 0 /\ SinceEnd(row) < GraceDays * Day

(* No warning in the last 20 hours, no suspension in the last hour.        *)
WarnAgain(row) == row.warned = Never \/ now - row.warned > 20
SuspendAgain(row) == row.suspended = Never \/ now - row.suspended > 1

Warns(row) ==
  IF row.status = "PAST_DUE"
  THEN WithinGrace(row) /\ DaysSinceEnd(row) \in WarningDays /\ WarnAgain(row)
  ELSE SuspendAgain(row) /\ WarnAgain(row)

Suspends(row) ==
  /\ row.status = "PAST_DUE" => ~WithinGrace(row)
  /\ SuspendAgain(row)

(* It acts on what it read, whatever the webhooks wrote since.             *)
Act ==
  /\ look.at = "read"
  /\ look' = [at |-> "idle"]
  /\ suspended' = (suspended \/ Suspends(look.row))
  /\ account' = [account EXCEPT
       !.warned = IF Warns(look.row) THEN now ELSE @,
       !.suspended = IF Suspends(look.row) /\ ~suspended THEN now ELSE @]
  /\ warnedDays' = IF Warns(look.row) /\ look.row.status = "PAST_DUE"
                   THEN warnedDays \cup {DaysSinceEnd(look.row)} ELSE warnedDays
  /\ UNCHANGED <<now, failedAt, announced, lastLook>>

EnforcementNext ==
  \/ Tick \/ PeriodUnpaid \/ PaymentFailed \/ SubscriptionUpdated \/ SubscriptionEnds
  \/ StatusReplaced \/ ReadAccounts \/ Act

EnforcementSpec == EnforcementInit /\ [][EnforcementNext]_enforcementVars

-------------------------------------------------------------------------------
Expires ==
  /\ ~suspended /\ suspended'
  /\ look.row.status = "PAST_DUE" /\ look.row.end = PeriodEnd

(* Who is suspended because the grace period of the unpaid period is over  *)
(* was warned on its first, third and fifth day.  The seventh, which is in *)
(* the code's list too, is after the end of the grace period.              *)
WarnedFirst == [][Expires => {1, 3, 5} \subseteq warnedDays]_enforcementVars

(* A user whose renewal failed keeps the services for seven days from the  *)
(* end of the paid period, unless Stripe ended the subscription.           *)
GraceKept ==
  [][~suspended /\ suspended' /\ look.row.status = "PAST_DUE"
       => now - PeriodEnd >= GraceDays * Day]_enforcementVars
===============================================================================
