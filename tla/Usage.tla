--------------------------------- MODULE Usage ----------------------------------
(***************************************************************************)
(* What a user is told about usage.  The collection job appends records of *)
(* an interval each; BillingController answers three questions about them: *)
(* the current period of the subscription, any period of the past, one     *)
(* service.  A question is a few awaits, between which periods are renewed, *)
(* services are erased, and records come in.                               *)
(***************************************************************************)
EXTENDS Integers, FiniteSets

CONSTANTS
  Charged,      \* services whose usage is recorded
  MakerOf,      \* MakerOf[s]: the user of the row
  TeamOf,       \* TeamOf[s]: the organization of its project, or NoTeam
  NoTeam,
  Reader,       \* the user who asks
  Stretch,      \* ticks between two collections, and of each record
  Term,         \* ticks of a paid period
  Longest,      \* ticks of a year
  MaxTime,      \* bound: the clock
  MaxRecords    \* bound: records

ASSUME UsageAssumption ==
  /\ IsFiniteSet(Charged) /\ DOMAIN MakerOf = Charged /\ DOMAIN TeamOf = Charged
  /\ Stretch \in Nat \ {0} /\ Term \in Nat \ {0} /\ Longest \in Nat
  /\ MaxTime \in Nat /\ MaxRecords \in Nat

VARIABLES
  time,      \* the clock
  ledger,    \* UsageRecord: [service, from, to]
  charged,   \* services that have a row
  term,      \* currentPeriodStart and currentPeriodEnd of the reader's row
  inquiry,   \* the request under way
  answer     \* the last answer

usageVars == <<time, ledger, charged, term, inquiry, answer>>

Forever == MaxTime + Term    \* ten years from now
Window(from, to) == [from |-> from, to |-> to]
NoPeriod == Window(-1, -1)
NoAnswer == [from |-> -1, to |-> -1, scope |-> {}, counted |-> {}, cost |-> 0]
NotAsked == [at |-> "none", from |-> -1, to |-> -1, scope |-> {}]
UsageTeams == {TeamOf[s] : s \in Charged} \ {NoTeam}
Entries == [service : Charged, from : 0 .. MaxTime, to : 0 .. MaxTime]

UsageInit ==
  /\ time = 0 /\ ledger = {} /\ charged = Charged
  /\ term = NoPeriod
  /\ inquiry = NotAsked /\ answer = NoAnswer

UsageTypeOK ==
  /\ time \in 0 .. MaxTime
  /\ ledger \subseteq Entries
  /\ charged \subseteq Charged
  /\ term \in {NoPeriod} \cup {Window(a, a + Term) : a \in 0 .. MaxTime}
  /\ inquiry.at \in {"none", "services", "sum"} /\ inquiry.scope \subseteq Charged
  /\ answer.counted \subseteq Entries /\ answer.cost \in Nat

-------------------------------------------------------------------------------
Told == <<inquiry, answer>>

Passes ==
  /\ time < MaxTime /\ time' = time + 1
  /\ UNCHANGED <<ledger, charged, term, Told>>

(* recordUsage: all of a collection at once, for the interval before the   *)
(* attempt began.  A repeated attempt has an interval of its own.          *)
RecordInterval(S, end) ==
  /\ S # {} /\ S \subseteq charged
  /\ end >= Stretch /\ end \in {time - 1, time}
  /\ ledger' = ledger \cup {[service |-> s, from |-> end - Stretch, to |-> end] : s \in S}
  /\ Cardinality(ledger') <= MaxRecords
  /\ UNCHANGED <<time, charged, term, Told>>

(* A service is erased, and its records with it.                           *)
EraseCharged(s) ==
  /\ s \in charged
  /\ charged' = charged \ {s}
  /\ ledger' = {r \in ledger : r.service # s}
  /\ UNCHANGED <<time, term, Told>>

(* Webhooks write the periods of a subscription: the first one starts now, *)
(* each other one where the one before it ends.  A canceled subscription   *)
(* keeps its last.                                                         *)
WritePeriod ==
  /\ \/ term = NoPeriod /\ term' = Window(time, time + Term)
     \/ term # NoPeriod /\ time >= term.to /\ term' = Window(term.to, term.to + Term)
  /\ UNCHANGED <<time, ledger, charged, Told>>

-------------------------------------------------------------------------------
AsksFor(at, from, to, scope) ==
  /\ inquiry = NotAsked
  /\ inquiry' = [at |-> at, from |-> from, to |-> to, scope |-> scope]
  /\ UNCHANGED <<time, ledger, charged, term, answer>>

OwnServices(t) ==
  {s \in Charged : MakerOf[s] = Reader /\ (t # NoTeam => TeamOf[s] = t)}

(* getSubscription: without a row, the FREE plan from now on.              *)
CurrentPeriod == IF term = NoPeriod THEN Window(time, Forever) ELSE term

GetUsage == AsksFor("services", CurrentPeriod.from, CurrentPeriod.to, OwnServices(NoTeam))

(* What is not in order is answered at once.                               *)
ValidDates(from, to) == from <= to /\ to <= time /\ to - from <= Longest

(* An organization, if the reader is a member of it, narrows the reader's  *)
(* own services; those of its other members stay out.                      *)
GetUsageHistory(t, from, to) ==
  /\ ValidDates(from, to)
  /\ AsksFor("services", from, to, OwnServices(t))

(* Any service the reader made, or of an organization of the reader; who   *)
(* is a member may change between any two questions.                       *)
GetServiceUsage(s, from, to) ==
  /\ ValidDates(from, to)
  /\ s \in charged /\ (MakerOf[s] = Reader \/ TeamOf[s] # NoTeam)
  /\ AsksFor("sum", from, to, {s})

(* getAggregatedUsage: the ids of the services first, then their records.  *)
AnswerWith(counted, cost) ==
  /\ answer' = [from |-> inquiry.from, to |-> inquiry.to, scope |-> inquiry.scope,
                counted |-> counted, cost |-> cost]
  /\ inquiry' = NotAsked

FindCharged ==
  /\ inquiry.at = "services"
  /\ IF inquiry.scope \cap charged = {} THEN AnswerWith({}, 0)
     ELSE inquiry' = [inquiry EXCEPT !.at = "sum"] /\ UNCHANGED answer
  /\ UNCHANGED <<time, ledger, charged, term>>

(* Mutant: records that overlap the period.                                *)
InPeriod_Overlapping(r, from, to) == r.to >= from /\ r.from <= to

InPeriod(r, from, to) == r.from >= from /\ r.to <= to

(* In cents, rounded half up, for n records of four hundredths of a GB.    *)
BandwidthPrice == 12
CalculateCost(n) == (BandwidthPrice * 4 * n + 50) \div 100

SumUp ==
  /\ inquiry.at = "sum"
  /\ LET counted == {r \in ledger : /\ r.service \in inquiry.scope
                                    /\ InPeriod(r, inquiry.from, inquiry.to)}
     IN AnswerWith(counted, CalculateCost(Cardinality(counted)))
  /\ UNCHANGED <<time, ledger, charged, term>>

QueryFails ==
  /\ inquiry # NotAsked
  /\ inquiry' = NotAsked
  /\ UNCHANGED <<time, ledger, charged, term, answer>>

UsageNext ==
  \/ Passes \/ WritePeriod
  \/ \E S \in SUBSET Charged, end \in 0 .. MaxTime : RecordInterval(S, end)
  \/ \E s \in Charged : EraseCharged(s)
  \/ GetUsage
  \/ \E from, to \in 0 .. MaxTime :
       \/ \E t \in UsageTeams \cup {NoTeam} : GetUsageHistory(t, from, to)
       \/ \E s \in Charged : GetServiceUsage(s, from, to)
  \/ FindCharged \/ SumUp \/ QueryFails

UsageSpec == UsageInit /\ [][UsageNext]_usageVars

-------------------------------------------------------------------------------
Touching(p, q) == p.to <= q.from \/ q.to <= p.from
Wider(q, p) == q.from <= p.from /\ p.to <= q.to /\ p.scope \subseteq q.scope

(* An answer agrees with the one before it, however far apart they are:    *)
(* periods that only touch share no record, so that two billing periods    *)
(* never count the same usage; and an answer about more contains what the  *)
(* earlier one counted, at no lower cost, except for services erased since.*)
AnswersAgree ==
  [][LET p == answer  q == answer' IN
       /\ Touching(p, q) => p.counted \cap q.counted = {}
       /\ Wider(q, p) =>
            /\ \A r \in p.counted : r \in q.counted \/ r.service \notin charged
            /\ p.counted \subseteq q.counted => p.cost <= q.cost]_answer
================================================================================
