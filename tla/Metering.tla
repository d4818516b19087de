-------------------------------- MODULE Metering --------------------------------
(***************************************************************************)
(* Usage of running containers: the collection job reads Docker's counters, *)
(* takes the difference to what Redis holds of the last collection, writes *)
(* one record per service and reports the sums to Stripe.  An attempt that *)
(* fails is made again with a period of its own, up to Attempts times.     *)
(* Each service has one container; traffic stands for the two cumulative   *)
(* metrics, minutes for the two that count the interval.                   *)
(***************************************************************************)
EXTENDS Integers, FiniteSets, FiniteSetsExt

CONSTANTS
  Metered,      \* services with a running container
  Payer,        \* Payer[s]: the subscription that pays for s
  Interval,     \* minutes between two collections
  Attempts,     \* attempts of one job
  MaxTraffic,   \* bound: what one service ever sends
  MaxPeriods,   \* bound: jobs
  MaxFaults     \* bound: failures of Redis, Docker, Postgres, Stripe, restarts

ASSUME MeteringAssumption ==
  /\ IsFiniteSet(Metered) /\ DOMAIN Payer = Metered
  /\ Interval \in Nat \ {0} /\ Attempts \in Nat \ {0}
  /\ MaxTraffic \in Nat /\ MaxPeriods \in Nat /\ MaxFaults \in Nat

VARIABLES
  sent,       \* sent[s]: all traffic of s
  counter,    \* counter[s]: Docker's counter, since the container started
  previous,   \* previous[s]: the counter kept in Redis, Unknown without one
  known,      \* services that have a row
  collector,  \* the job: where it stands, its attempt, what it holds
  traffic,    \* traffic[s]: the sum of the records of s
  minutes,    \* minutes[s]: the same for the time it ran
  billed,     \* billed[u]: hours reported to Stripe
  periods,    \* jobs begun
  repeats,    \* history: attempts after one that had recorded
  unstored,   \* history: services whose counter Redis did not take
  faults      \* failures so far

meteringVars == <<sent, counter, previous, known, collector, traffic, minutes, billed,
                  periods, repeats, unstored, faults>>

Unknown == -1
Payers == {Payer[s] : s \in Metered}
NoJob == [at |-> "idle", attempt |-> 0, sample |-> [s \in {} |-> 0],
          todo |-> {}, delta |-> [s \in {} |-> 0]]

MeteringInit ==
  /\ sent = [s \in Metered |-> 0] /\ counter = sent
  /\ previous = [s \in Metered |-> Unknown]
  /\ known = Metered
  /\ collector = NoJob
  /\ traffic = sent /\ minutes = sent
  /\ billed = [u \in Payers |-> 0]
  /\ periods = 0 /\ repeats = 0 /\ unstored = {} /\ faults = 0

MeteringTypeOK ==
  /\ sent \in [Metered -> 0 .. MaxTraffic] /\ counter \in [Metered -> 0 .. MaxTraffic]
  /\ previous \in [Metered -> Nat \cup {Unknown}]
  /\ known \subseteq Metered /\ unstored \subseteq Metered
  /\ collector.at \in {"idle", "collect", "calculate", "record", "report"}
  /\ collector.attempt \in 0 .. Attempts /\ collector.todo \subseteq Metered
  /\ traffic \in [Metered -> Nat] /\ minutes \in [Metered -> Nat]
  /\ billed \in [Payers -> Nat]
  /\ periods \in 0 .. MaxPeriods /\ faults \in 0 .. MaxFaults

-------------------------------------------------------------------------------
Containers == <<sent, counter, known>>
Books == <<traffic, minutes, billed>>
Fault == faults < MaxFaults /\ faults' = faults + 1

Sends(s) ==
  /\ sent[s] < MaxTraffic
  /\ sent' = [sent EXCEPT ![s] = @ + 1] /\ counter' = [counter EXCEPT ![s] = @ + 1]
  /\ UNCHANGED <<previous, known, collector, Books, periods, repeats, unstored, faults>>

(* Docker starts the same container again: its counters begin at zero.     *)
RestartsAt0(s) ==
  /\ counter[s] > 0
  /\ counter' = [counter EXCEPT ![s] = 0]
  /\ Fault
  /\ UNCHANGED <<sent, previous, known, collector, Books, periods, repeats, unstored>>

(* No collection for a day: the key in Redis expires.                      *)
KeyExpires(s) ==
  /\ collector.at = "idle" /\ previous[s] # Unknown
  /\ previous' = [previous EXCEPT ![s] = Unknown]
  /\ Fault
  /\ UNCHANGED <<Containers, collector, Books, periods, repeats, unstored>>

(* The row of a service goes with its project; its container runs on.      *)
RowGoes(s) ==
  /\ s \in known
  /\ known' = known \ {s}
  /\ Fault
  /\ UNCHANGED <<sent, counter, previous, collector, Books, periods, repeats, unstored>>

-------------------------------------------------------------------------------
BeginJob ==
  /\ collector.at = "idle" /\ periods < MaxPeriods
  /\ collector' = [NoJob EXCEPT !.at = "collect", !.attempt = 1]
  /\ periods' = periods + 1
  /\ UNCHANGED <<Containers, previous, Books, repeats, unstored, faults>>

(* Thrown by any step: BullMQ makes another attempt, or the job has failed. *)
Again ==
  /\ collector' = IF collector.attempt < Attempts
                  THEN [NoJob EXCEPT !.at = "collect", !.attempt = collector.attempt + 1]
                  ELSE NoJob
  /\ repeats' = IF collector.at = "report" /\ collector.attempt < Attempts
                THEN repeats + 1 ELSE repeats

(* collectAllMetrics: a container whose statistics fail is left out; the   *)
(* list of containers that fails is thrown.                                *)
CollectAllMetrics ==
  /\ collector.at = "collect"
  /\ \/ /\ UNCHANGED repeats
        /\ \E S \in SUBSET Metered :
             /\ IF S = Metered THEN UNCHANGED faults ELSE Fault
             /\ collector' = IF S = {} THEN NoJob
                             ELSE [collector EXCEPT !.at = "calculate", !.todo = S,
                                                    !.sample = [s \in S |-> counter[s]]]
     \/ Fault /\ Again
  /\ UNCHANGED <<Containers, previous, Books, periods, unstored>>

(* Mutant: a counter that began anew counts negatively.                    *)
DeltaOf_Signed(now, before) == IF before = Unknown THEN 0 ELSE now - before

(* calculateUsage: nothing without a previous value, never less than zero. *)
DeltaOf(now, before) ==
  IF before = Unknown THEN 0 ELSE IF now > before THEN now - before ELSE 0

(* One container: read the previous value, keep the present one.  Errors of *)
(* Redis are logged; a value that could not be read counts as none.        *)
CalculateUsage(s) ==
  /\ collector.at = "calculate" /\ s \in collector.todo
  /\ \E read, stored \in BOOLEAN :
       /\ IF read /\ stored THEN UNCHANGED faults ELSE Fault
       /\ LET before == IF read THEN previous[s] ELSE Unknown
              rest == collector.todo \ {s}
          IN collector' = [collector EXCEPT
               !.todo = rest, !.at = IF rest = {} THEN "record" ELSE @,
               !.delta = [t \in DOMAIN @ \cup {s} |->
                            IF t = s THEN DeltaOf(collector.sample[s], before) ELSE @[t]]]
       /\ IF stored
          THEN previous' = [previous EXCEPT ![s] = collector.sample[s]] /\ UNCHANGED unstored
          ELSE unstored' = unstored \cup {s} /\ UNCHANGED previous
  /\ UNCHANGED <<Containers, Books, periods, repeats>>

(* Mutant: one record after the other, until one fails.                    *)
RecordUsage_OneByOne ==
  /\ collector.at = "record"
  /\ LET S == DOMAIN collector.sample \cap known IN
       /\ traffic' = [s \in Metered |->
                        traffic[s] + IF s \in S THEN collector.delta[s] ELSE 0]
       /\ minutes' = [s \in Metered |-> minutes[s] + IF s \in S THEN Interval ELSE 0]
       /\ IF S = DOMAIN collector.sample
          THEN collector' = [collector EXCEPT !.at = "report"] /\ UNCHANGED repeats
          ELSE Again
  /\ UNCHANGED <<Containers, previous, billed, periods, unstored, faults>>

(* recordUsage: all records or none; a record of a service without a row   *)
(* breaks the foreign key, and with it the records of all others.          *)
RecordUsage ==
  /\ collector.at = "record"
  /\ LET S == DOMAIN collector.sample IN
       \/ /\ S \subseteq known
          /\ traffic' = [s \in Metered |->
                           traffic[s] + IF s \in S THEN collector.delta[s] ELSE 0]
          /\ minutes' = [s \in Metered |->
                           minutes[s] + IF s \in S THEN Interval ELSE 0]
          /\ collector' = [collector EXCEPT !.at = "report"]
          /\ UNCHANGED <<repeats, faults>>
       \/ /\ ~(S \subseteq known)
          /\ Again /\ UNCHANGED <<traffic, minutes, faults>>
       \/ /\ S \subseteq known
          /\ Fault /\ Again /\ UNCHANGED <<traffic, minutes>>
  /\ UNCHANGED <<Containers, previous, billed, periods, unstored>>

(* Math.round, half up, of minutes to hours.                               *)
Rounded(m) == (m + 30) \div 60

(* reportToStripe sums what this attempt recorded, for each subscription on *)
(* its own, and increments.  More than one failure in five is thrown, with *)
(* the others already reported.                                            *)
ReportToStripe ==
  /\ collector.at = "report"
  /\ \E F \in SUBSET Payers :
       LET Of(u) == {s \in DOMAIN collector.sample : s \in known /\ Payer[s] = u} IN
       /\ billed' = [u \in Payers |->
            billed[u] + IF u \in F THEN 0 ELSE Rounded(Interval * Cardinality(Of(u)))]
       /\ IF F = {} THEN UNCHANGED faults ELSE Fault
       /\ IF 5 * Cardinality(F) > Cardinality(Payers)
          THEN Again
          ELSE collector' = NoJob /\ UNCHANGED repeats
  /\ UNCHANGED <<Containers, previous, traffic, minutes, periods, unstored>>

(* The worker dies: BullMQ finds the job stalled and starts it again, or   *)
(* gives it up.                                                            *)
WorkerDies ==
  /\ collector.at # "idle"
  /\ \/ /\ collector' = [NoJob EXCEPT !.at = "collect", !.attempt = collector.attempt]
        /\ repeats' = IF collector.at = "report" THEN repeats + 1 ELSE repeats
     \/ collector' = NoJob /\ UNCHANGED repeats
  /\ Fault
  /\ UNCHANGED <<Containers, previous, Books, periods, unstored>>

MeteringNext ==
  \/ \E s \in Metered : Sends(s) \/ RestartsAt0(s) \/ KeyExpires(s) \/ RowGoes(s)
                          \/ CalculateUsage(s)
  \/ BeginJob \/ CollectAllMetrics \/ RecordUsage \/ ReportToStripe \/ WorkerDies

MeteringSpec == MeteringInit /\ [][MeteringNext]_meteringVars

-------------------------------------------------------------------------------
(* However attempts fail and are made again, and containers start anew, no *)
(* traffic is recorded twice; only a counter that Redis did not take may   *)
(* be counted again.  The time a service ran is recorded once per          *)
(* collection; once more only for an attempt made again after one that had *)
(* recorded.                                                               *)
UsageOnce == \A s \in Metered :
  /\ s \notin unstored => traffic[s] <= sent[s]
  /\ minutes[s] <= Interval * (periods + repeats)
===============================================================================
