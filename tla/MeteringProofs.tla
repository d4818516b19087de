---------------------------- MODULE MeteringProofs ----------------------------
(***************************************************************************)
(* What holds of the parts that account for usage and payment, for any     *)
(* number of services, samples, periods and failures: the collection of    *)
(* usage, what is answered about it, and the enforcement of payment.  One  *)
(* section per module, each with its inductive invariant, one lemma per    *)
(* action, and its theorems.                                               *)
(***************************************************************************)
EXTENDS Metering, Usage, Enforcement, FiniteSetTheorems, SequenceTheorems, TLAPS

-------------------------------------------------------------------------------
(***************************************************************************)
(* Metering: what a service used is recorded once. The traffic recorded,   *)
(* the difference the job holds and what the counter is ahead of the value *)
(* kept in Redis are together no more than was sent.                       *)
(***************************************************************************)

Partial == UNION {[S -> Nat] : S \in SUBSET Metered}
Stages == {"idle", "collect", "calculate", "record", "report"}
Jobs == [at : Stages, attempt : Nat, sample : Partial, todo : SUBSET Metered, delta : Partial]

(* A service whose counter the job has read and not yet compared, and one  *)
(* of which it holds a difference that is not recorded.                    *)
Todo(s) == collector.at = "calculate" /\ s \in collector.todo
Found(s) == collector.at \in {"calculate", "record"} /\ s \in DOMAIN collector.delta

(* What is not yet part of the records but may become it.                  *)
InHand(s) == IF Found(s) THEN collector.delta[s] ELSE 0
Uncounted(s) ==
  IF Todo(s)
  THEN DeltaOf(collector.sample[s], previous[s]) + DeltaOf(counter[s], collector.sample[s])
  ELSE DeltaOf(counter[s], previous[s])

(* Recorded, about to be, and ahead, are together no more than was sent.   *)
Carried(s) == traffic[s] + InHand(s) + Uncounted(s) <= sent[s]

(* Until a job has recorded its period is not used up.                     *)
Elapsed == IF collector.at \in {"collect", "calculate", "record"}
           THEN periods + repeats - 1 ELSE periods + repeats

JobInv ==
  /\ collector \in Jobs
  /\ collector.at = "collect" => DOMAIN collector.delta = {}
  /\ collector.at = "calculate" =>
       /\ collector.todo \subseteq DOMAIN collector.sample
       /\ DOMAIN collector.delta = DOMAIN collector.sample \ collector.todo
  /\ collector.at = "record" => DOMAIN collector.delta = DOMAIN collector.sample

BooksTyped ==
  /\ sent \in [Metered -> Nat] /\ counter \in [Metered -> Nat]
  /\ previous \in [Metered -> Nat \cup {Unknown}]
  /\ traffic \in [Metered -> Nat] /\ minutes \in [Metered -> Nat]
  /\ periods \in Nat /\ repeats \in Nat

MeteringInv ==
  /\ BooksTyped /\ JobInv
  /\ \A s \in Metered \ unstored : Carried(s)
  /\ \A s \in Metered : minutes[s] <= Interval * Elapsed
-------------------------------------------------------------------------------
(* Differences of counters.                                                *)
LEMMA Deltas ==
  /\ \A a \in Nat, b \in Nat \cup {Unknown} : DeltaOf(a, b) \in Nat
  /\ \A a \in Nat, b \in Nat \cup {Unknown} :
       DeltaOf(a + 1, b) <= DeltaOf(a, b) + 1 /\ DeltaOf(0, b) = 0
  /\ \A a, b \in Nat, c \in Nat \cup {Unknown} : DeltaOf(a, c) <= DeltaOf(b, c) + DeltaOf(a, b)
  /\ \A a \in Nat : DeltaOf(a, Unknown) = 0 /\ DeltaOf(a, a) = 0
BY DEF DeltaOf, Unknown

LEMMA Times ==
  /\ \A n \in Int : Interval * n \in Int
  /\ \A m, n \in Int : m <= n => Interval * m <= Interval * n
  /\ \A n \in Int : Interval * n + Interval = Interval * (n + 1)
<1>1. Interval \in Nat
  BY MeteringAssumption
<1> QED
  BY <1>1

(* Functions on some of the services.                                      *)
LEMMA Partials ==
  /\ \A f : f \in Partial => DOMAIN f \subseteq Metered /\ f \in [DOMAIN f -> Nat]
  /\ \A S \in SUBSET Metered : \A f \in [S -> Nat] : f \in Partial
BY DEF Partial

(* The values a step compares.                                             *)
LEMMA Values ==
  ASSUME MeteringInv, NEW s \in Metered
  PROVE  /\ {sent[s], counter[s], traffic[s], minutes[s], InHand(s), Uncounted(s)} \subseteq Nat
         /\ previous[s] \in Nat \cup {Unknown}
         /\ Todo(s) => collector.sample[s] \in Nat /\ ~Found(s)
         /\ DeltaOf(counter[s], previous[s]) <= Uncounted(s)
         /\ Elapsed \in Int
<1>1. /\ {sent[s], counter[s], traffic[s], minutes[s]} \subseteq Nat
      /\ previous[s] \in Nat \cup {Unknown} /\ periods \in Nat /\ repeats \in Nat
  BY DEF MeteringInv, BooksTyped
<1>2. collector.sample \in Partial /\ collector.delta \in Partial
  BY DEF MeteringInv, JobInv, Jobs
<1>3. Todo(s) => s \in DOMAIN collector.sample /\ ~Found(s)
  BY DEF MeteringInv, JobInv, Todo, Found
<1>4. Todo(s) => collector.sample[s] \in Nat
  BY <1>2, <1>3, Partials
<1>5. InHand(s) \in Nat
  BY <1>2, Partials DEF InHand, Found
<1>6. Uncounted(s) \in Nat /\ DeltaOf(counter[s], previous[s]) <= Uncounted(s)
  <2> DEFINE c == counter[s]
             p == previous[s]
             m == collector.sample[s]
  <2>0. c \in Nat /\ p \in Nat \cup {Unknown} /\ DeltaOf(c, p) \in Nat
    BY <1>1, Deltas
  <2>1. CASE Todo(s)
    <3>1. m \in Nat
      BY <1>4, <2>1
    <3>2. Uncounted(s) = DeltaOf(m, p) + DeltaOf(c, m)
      BY <2>1 DEF Uncounted
    <3> HIDE DEF c, p, m
    <3>3. DeltaOf(m, p) \in Nat /\ DeltaOf(c, m) \in Nat /\ DeltaOf(c, p) <= DeltaOf(m, p) + DeltaOf(c, m)
      BY <2>0, <3>1, Deltas
    <3> QED
      BY <3>2, <3>3 DEF c, p
  <2>2. CASE ~Todo(s)
    BY <2>0, <2>2 DEF Uncounted
  <2> QED
    BY <2>1, <2>2
<1>7. Elapsed \in Int
  BY <1>1 DEF Elapsed
<1> QED
  BY <1>1, <1>3, <1>4, <1>5, <1>6, <1>7

Begun(a) == [NoJob EXCEPT !.at = "collect", !.attempt = a]

LEMMA EmptyJobs ==
  /\ NoJob \in Jobs /\ NoJob.at = "idle"
  /\ \A a \in Nat : /\ Begun(a) \in Jobs /\ Begun(a).at = "collect"
                    /\ DOMAIN Begun(a).delta = {}
<1>1. [s \in {} |-> 0] \in Partial /\ DOMAIN [s \in {} |-> 0] = {}
  BY DEF Partial
<1> DEFINE none == [s \in {} |-> 0]
<1>2. NoJob = [at |-> "idle", attempt |-> 0, sample |-> none, todo |-> {}, delta |-> none]
  BY DEF NoJob
<1>3. none \in Partial /\ DOMAIN none = {}
  BY <1>1
<1> HIDE DEF none
<1>4. NoJob \in Jobs /\ NoJob.at = "idle" /\ NoJob.delta = none
  BY <1>2, <1>3 DEF Jobs, Stages
<1>5. ASSUME NEW a \in Nat
      PROVE  Begun(a) \in Jobs /\ Begun(a).at = "collect" /\ Begun(a).delta = none
  <2> HIDE DEF NoJob
  <2> QED
    BY <1>4 DEF Begun, Jobs, Stages
<1> QED
  BY <1>3, <1>4, <1>5

(* The minutes of a period may be recorded while it is not used up.        *)
LEMMA MinutesKept ==
  ASSUME MeteringInv, UNCHANGED minutes, Elapsed <= Elapsed', Elapsed' \in Int
  PROVE  \A s \in Metered : minutes'[s] <= Interval * Elapsed'
<1> SUFFICES ASSUME NEW s \in Metered  PROVE minutes[s] <= Interval * Elapsed'
  OBVIOUS
<1>1. minutes[s] \in Nat /\ Elapsed \in Int
  BY Values
<1>2. minutes[s] <= Interval * Elapsed
  BY DEF MeteringInv
<1>3. Interval * Elapsed <= Interval * Elapsed' /\ Interval * Elapsed \in Int /\ Interval * Elapsed' \in Int
  BY <1>1, Times
<1> QED
  BY <1>1, <1>2, <1>3

(* A job that ends, or begins, or begins again, gives up what it held.     *)
LEMMA JobGivesUp ==
  ASSUME MeteringInv, UNCHANGED <<sent, counter, previous, traffic, minutes, unstored>>,
         collector' = NoJob \/ \E a \in Nat : collector' = Begun(a),
         periods' \in Nat, repeats' \in Nat, Elapsed <= Elapsed'
  PROVE  MeteringInv'
<1>1. BooksTyped'
  BY DEF MeteringInv, BooksTyped
<1>2. /\ collector' \in Jobs /\ collector'.at \in {"idle", "collect"}
      /\ collector'.at = "collect" => DOMAIN collector'.delta = {}
  BY EmptyJobs
<1>3. JobInv'
  BY <1>2 DEF JobInv
<1>4. ASSUME NEW s \in Metered \ unstored  PROVE Carried(s)'
  <2>1. Carried(s)
    BY DEF MeteringInv
  <2>2. /\ {traffic[s], sent[s], InHand(s), Uncounted(s), DeltaOf(counter[s], previous[s])} \subseteq Nat
        /\ DeltaOf(counter[s], previous[s]) <= Uncounted(s)
    BY Values, Deltas
  <2>3. InHand(s)' = 0 /\ Uncounted(s)' = DeltaOf(counter[s], previous[s])
    BY <1>2 DEF InHand, Uncounted, Found, Todo
  <2> QED
    BY <2>1, <2>2, <2>3 DEF Carried
<1>5. Elapsed' \in Int
  BY DEF Elapsed
<1> QED
  BY <1>1, <1>3, <1>4, <1>5, MinutesKept DEF MeteringInv

LEMMA MeteringBegins == MeteringInit => MeteringInv
<1> SUFFICES ASSUME MeteringInit  PROVE MeteringInv
  OBVIOUS
<1>1. BooksTyped
  BY DEF MeteringInit, BooksTyped, Unknown
<1>2. collector \in Jobs /\ collector.at = "idle"
  BY EmptyJobs DEF MeteringInit
<1>3. JobInv
  BY <1>2 DEF JobInv
<1>4. ASSUME NEW s \in Metered  PROVE Carried(s)
  <2>1. InHand(s) = 0 /\ Uncounted(s) = DeltaOf(0, Unknown) /\ traffic[s] = 0 /\ sent[s] = 0
    BY <1>2 DEF InHand, Uncounted, Found, Todo, MeteringInit
  <2> QED
    BY <2>1, Deltas DEF Carried
<1>5. Elapsed = 0 /\ Interval \in Nat /\ \A s \in Metered : minutes[s] = 0
  BY <1>2, MeteringAssumption DEF Elapsed, MeteringInit
<1> QED
  BY <1>1, <1>3, <1>4, <1>5 DEF MeteringInv
(* A step that leaves what a service has pending and ahead, or takes less. *)
LEMMA CarriedOn ==
  ASSUME MeteringInv, NEW s \in Metered \ unstored,
         UNCHANGED <<sent, traffic>>, InHand(s)' + Uncounted(s)' <= InHand(s) + Uncounted(s),
         InHand(s)' \in Nat, Uncounted(s)' \in Nat
  PROVE  Carried(s)'
<1>1. Carried(s)
  BY DEF MeteringInv
<1>2. {sent[s], traffic[s], InHand(s), Uncounted(s)} \subseteq Nat
  BY Values
<1> QED
  BY <1>1, <1>2 DEF Carried

(* What happens to containers and keys while a job runs.                   *)
LEMMA WorldMoves ==
  ASSUME MeteringInv, NEW s \in Metered, Sends(s) \/ RestartsAt0(s) \/ KeyExpires(s) \/ RowGoes(s)
  PROVE  MeteringInv'
<1>0. UNCHANGED <<collector, traffic, minutes, periods, repeats, unstored>>
  BY DEF Sends, RestartsAt0, KeyExpires, RowGoes, Books, Containers
<1>1. BooksTyped'
  BY DEF MeteringInv, BooksTyped, Sends, RestartsAt0, KeyExpires, RowGoes, Books, Containers, Unknown
<1>2. JobInv' /\ UNCHANGED Elapsed
  BY <1>0 DEF MeteringInv, JobInv, Elapsed
<1>3. ASSUME NEW t \in Metered \ unstored  PROVE Carried(t)'
  <2> DEFINE c == counter[t]
             p == previous[t]
             m == collector.sample[t]
  <2>0. /\ UNCHANGED InHand(t) /\ Todo(t)' = Todo(t) /\ Carried(t)
        /\ c \in Nat /\ p \in Nat \cup {Unknown} /\ (Todo(t) => m \in Nat)
        /\ sent[t] \in Nat /\ traffic[t] \in Nat /\ InHand(t) \in Nat /\ Uncounted(t) \in Nat
    BY <1>0, Values DEF InHand, Found, Todo, MeteringInv
  <2>1. /\ Uncounted(t) = IF Todo(t) THEN DeltaOf(m, p) + DeltaOf(c, m) ELSE DeltaOf(c, p)
        /\ Uncounted(t)' = IF Todo(t) THEN DeltaOf(m, previous'[t]) + DeltaOf(counter'[t], m)
                       ELSE DeltaOf(counter'[t], previous'[t])
    BY <1>0, <2>0 DEF Uncounted
  <2>2. CASE sent'[t] = sent[t] + 1 /\ counter'[t] = c + 1 /\ previous'[t] = p
    <3> HIDE DEF c, p, m
    <3>0. /\ DeltaOf(c + 1, p) <= DeltaOf(c, p) + 1
          /\ DeltaOf(c + 1, p) \in Nat /\ DeltaOf(c, p) \in Nat
          /\ Todo(t) => /\ DeltaOf(c + 1, m) <= DeltaOf(c, m) + 1 /\ DeltaOf(m, p) \in Nat
                        /\ DeltaOf(c + 1, m) \in Nat /\ DeltaOf(c, m) \in Nat
      <4>1. c + 1 \in Nat /\ (Todo(t) => m \in Nat \cup {Unknown})
        BY <2>0
      <4> QED
        BY <2>0, <4>1, Deltas
    <3>1. Uncounted(t)' <= Uncounted(t) + 1 /\ Uncounted(t)' \in Nat
      BY <2>1, <2>2, <3>0
    <3> QED
      BY <1>0, <2>0, <2>2, <3>1 DEF Carried
  <2>3. CASE sent'[t] = sent[t] /\ counter'[t] = 0 /\ previous'[t] = p
    <3> HIDE DEF c, p, m
    <3>0. /\ DeltaOf(0, p) = 0 /\ DeltaOf(c, p) \in Nat
          /\ Todo(t) => /\ DeltaOf(0, m) = 0 /\ DeltaOf(m, p) \in Nat
                        /\ DeltaOf(c, m) \in Nat
      BY <2>0, Deltas
    <3>1. Uncounted(t)' <= Uncounted(t) /\ Uncounted(t)' \in Nat
      BY <2>1, <2>3, <3>0
    <3> QED
      BY <1>0, <2>0, <2>3, <3>1 DEF Carried
  <2>4. CASE sent'[t] = sent[t] /\ counter'[t] = c /\ previous'[t] = Unknown /\ ~Todo(t)
    <3> HIDE DEF c, p, m
    <3>1. Uncounted(t)' <= Uncounted(t) /\ Uncounted(t)' \in Nat
      BY <2>0, <2>1, <2>4, Deltas
    <3> QED
      BY <1>0, <2>0, <2>4, <3>1 DEF Carried
  <2>5. CASE sent'[t] = sent[t] /\ counter'[t] = c /\ previous'[t] = p
    BY <1>0, <2>0, <2>1, <2>5 DEF Carried
  <2>6. \/ sent'[t] = sent[t] + 1 /\ counter'[t] = c + 1 /\ previous'[t] = p
        \/ sent'[t] = sent[t] /\ counter'[t] = 0 /\ previous'[t] = p
        \/ sent'[t] = sent[t] /\ counter'[t] = c /\ previous'[t] = Unknown /\ ~Todo(t)
        \/ sent'[t] = sent[t] /\ counter'[t] = c /\ previous'[t] = p
    BY DEF MeteringInv, BooksTyped, Sends, RestartsAt0, KeyExpires, RowGoes, Containers, Todo
  <2> QED
    BY <2>2, <2>3, <2>4, <2>5, <2>6
<1>4. Elapsed' \in Int /\ Elapsed <= Elapsed'
  BY <1>2, Values DEF Elapsed, MeteringInv, BooksTyped
<1> QED
  BY <1>0, <1>1, <1>2, <1>3, <1>4, MinutesKept DEF MeteringInv

LEMMA JobBeginKeeps == ASSUME MeteringInv, BeginJob  PROVE MeteringInv'
<1>1. collector' = Begun(1) /\ periods' = periods + 1 /\ UNCHANGED repeats
  BY DEF BeginJob, Begun
<1>2. periods \in Nat /\ repeats \in Nat /\ collector.at = "idle" /\ collector'.at = "collect"
  BY <1>1, EmptyJobs DEF BeginJob, MeteringInv, BooksTyped
<1>3. Elapsed <= Elapsed'
  BY <1>1, <1>2 DEF Elapsed
<1> QED
  BY <1>1, <1>2, <1>3, JobGivesUp DEF BeginJob, Containers, Books

(* Another attempt counts as a repeat when the period is used up.          *)
LEMMA AgainKeeps ==
  ASSUME MeteringInv, (Again /\ collector.at \in {"collect", "record", "report"}) \/ WorkerDies,
         UNCHANGED <<sent, counter, previous, traffic, minutes, unstored, periods>>
  PROVE  MeteringInv'
<1>0. periods \in Nat /\ repeats \in Nat /\ collector.attempt \in Nat
  BY DEF MeteringInv, BooksTyped, JobInv, Jobs
<1>1. \/ collector' = NoJob /\ UNCHANGED repeats
      \/ \E a \in Nat :
           /\ collector' = Begun(a)
           /\ repeats' = IF collector.at = "report" THEN repeats + 1 ELSE repeats
  <2>1. CASE Again
    <3>1. Attempts \in Nat /\ collector.attempt + 1 \in Nat
      BY <1>0, MeteringAssumption
    <3>2. CASE collector.attempt < Attempts
      BY <2>1, <3>1, <3>2 DEF Again, Begun
    <3>3. CASE ~(collector.attempt < Attempts)
      BY <2>1, <3>1, <3>3 DEF Again, Begun
    <3> QED
      BY <3>2, <3>3
  <2>2. CASE WorkerDies
    BY <1>0, <2>2 DEF WorkerDies, Begun
  <2> QED
    BY <2>1, <2>2
<1>2. CASE collector' = NoJob /\ UNCHANGED repeats
  BY <1>0, <1>2, EmptyJobs, JobGivesUp DEF Elapsed
<1>3. ASSUME NEW a \in Nat, collector' = Begun(a),
             repeats' = IF collector.at = "report" THEN repeats + 1 ELSE repeats
      PROVE  MeteringInv'
  <2>1. collector'.at = "collect" /\ repeats' \in Nat
    BY <1>0, <1>3, EmptyJobs
  <2>2. collector.at # "idle"
    BY DEF WorkerDies
  <2>3. Elapsed <= Elapsed'
    BY <1>0, <1>3, <2>1, <2>2 DEF Elapsed, MeteringInv, JobInv, Jobs, Stages
  <2> QED
    BY <1>0, <1>3, <2>1, <2>3, JobGivesUp
<1> QED
  BY <1>1, <1>2, <1>3
(* collectAllMetrics: what is ahead of a service that is read is the same. *)
LEMMA CollectKeeps == ASSUME MeteringInv, CollectAllMetrics  PROVE MeteringInv'
<1>0. UNCHANGED <<sent, counter, previous, traffic, minutes, periods, unstored>>
  BY DEF CollectAllMetrics, Containers, Books
<1>a. CASE Again
  BY <1>0, <1>a, AgainKeeps DEF CollectAllMetrics
<1> SUFFICES ASSUME ~Again  PROVE MeteringInv'
  BY <1>a
<1>1. PICK S \in SUBSET Metered :
        collector' = IF S = {} THEN NoJob
                     ELSE [collector EXCEPT !.at = "calculate", !.todo = S,
                                            !.sample = [s \in S |-> counter[s]]]
  BY DEF CollectAllMetrics
<1>2. /\ UNCHANGED <<sent, counter, previous, traffic, minutes, periods, repeats, unstored>>
      /\ collector.at = "collect" /\ DOMAIN collector.delta = {} /\ collector \in Jobs
      /\ periods \in Nat /\ repeats \in Nat
  BY DEF CollectAllMetrics, Containers, Books, MeteringInv, JobInv, BooksTyped
<1>3. CASE S = {}
  <2>1. Elapsed <= Elapsed'
    BY <1>1, <1>2, <1>3, EmptyJobs DEF Elapsed
  <2> QED
    BY <1>1, <1>2, <1>3, <2>1, JobGivesUp
<1>4. CASE S # {}
  <2> DEFINE read == [s \in S |-> counter[s]]
             j == [collector EXCEPT !.at = "calculate", !.todo = S, !.sample = read]
  <2>1. /\ read \in Partial /\ DOMAIN read = S /\ \A s \in S : read[s] = counter[s]
    <3>1. read \in [S -> Nat]
      BY DEF MeteringInv, BooksTyped
    <3> QED
      BY <3>1, Partials
  <2> HIDE DEF read
  <2>2. /\ j \in Jobs /\ j.at = "calculate" /\ j.todo = S /\ j.sample = read
        /\ j.delta = collector.delta
    BY <1>2, <2>1 DEF Jobs, Stages
  <2>3. collector' = j
    BY <1>1, <1>4 DEF read
  <2> HIDE DEF j
  <2>4. JobInv'
    BY <1>2, <2>1, <2>2, <2>3 DEF JobInv
  <2>5. ASSUME NEW s \in Metered \ unstored  PROVE Carried(s)'
    <3> DEFINE d == DeltaOf(counter[s], previous[s])
    <3>1. /\ InHand(s)' = 0
          /\ Uncounted(s)' = IF s \in S THEN DeltaOf(read[s], previous[s]) + DeltaOf(counter[s], read[s])
                         ELSE d
      BY <1>2, <2>2, <2>3 DEF InHand, Uncounted, Found, Todo
    <3>2. counter[s] \in Nat /\ previous[s] \in Nat \cup {Unknown} /\ InHand(s) \in Nat /\ Uncounted(s) \in Nat
          /\ d <= Uncounted(s)
      BY Values
    <3>3. d \in Nat /\ DeltaOf(counter[s], counter[s]) = 0
      BY <3>2, Deltas
    <3>4. Uncounted(s)' = d
      BY <2>1, <3>1, <3>3
    <3> HIDE DEF d
    <3> QED
      BY <1>2, <3>1, <3>2, <3>3, <3>4, CarriedOn
  <2>6. Elapsed' = Elapsed /\ Elapsed \in Int
    BY <1>2, <2>2, <2>3 DEF Elapsed
  <2>7. BooksTyped'
    BY <1>2 DEF MeteringInv, BooksTyped
  <2> QED
    BY <1>2, <2>4, <2>5, <2>6, <2>7, MinutesKept DEF MeteringInv
<1> QED
  BY <1>3, <1>4

(* calculateUsage: what was ahead is now pending, as far as it was known.  *)
LEMMA CalculateKeeps == ASSUME MeteringInv, NEW s \in Metered, CalculateUsage(s)  PROVE MeteringInv'
<1>1. PICK read, stored \in BOOLEAN :
        LET before == IF read THEN previous[s] ELSE Unknown
            rest == collector.todo \ {s}
        IN /\ collector' = [collector EXCEPT
                !.todo = rest, !.at = IF rest = {} THEN "record" ELSE @,
                !.delta = [t \in DOMAIN @ \cup {s} |->
                             IF t = s THEN DeltaOf(collector.sample[s], before) ELSE @[t]]]
           /\ IF stored
              THEN previous' = [previous EXCEPT ![s] = collector.sample[s]] /\ UNCHANGED unstored
              ELSE unstored' = unstored \cup {s} /\ UNCHANGED previous
  BY DEF CalculateUsage
<1> DEFINE before == IF read THEN previous[s] ELSE Unknown
           rest == collector.todo \ {s}
           m == collector.sample[s]
           next == IF rest = {} THEN "record" ELSE "calculate"
           d == [t \in DOMAIN collector.delta \cup {s} |->
                   IF t = s THEN DeltaOf(m, before) ELSE collector.delta[t]]
           j == [collector EXCEPT !.todo = rest, !.at = next, !.delta = d]
<1>2. /\ UNCHANGED <<sent, counter, traffic, minutes, periods, repeats>>
      /\ collector.at = "calculate" /\ s \in collector.todo /\ collector \in Jobs /\ Todo(s)
      /\ periods \in Nat /\ repeats \in Nat
  BY DEF CalculateUsage, Containers, Books, MeteringInv, JobInv, BooksTyped, Todo
<1>3. m \in Nat /\ ~Found(s) /\ before \in Nat \cup {Unknown}
  BY <1>2, Values
<1>4. /\ DeltaOf(m, before) \in Nat /\ DeltaOf(m, before) <= DeltaOf(m, previous[s])
      /\ DeltaOf(m, previous[s]) \in Nat
  <2>1. previous[s] \in Nat \cup {Unknown}
    BY Values
  <2>2. DeltaOf(m, previous[s]) \in Nat /\ DeltaOf(m, Unknown) = 0
    BY <1>3, <2>1, Deltas
  <2>3. before \in {previous[s], Unknown}
    OBVIOUS
  <2> QED
    BY <2>2, <2>3
<1>5. /\ DOMAIN d = DOMAIN collector.delta \cup {s} /\ d[s] = DeltaOf(m, before)
      /\ \A t \in DOMAIN collector.delta \ {s} : d[t] = collector.delta[t]
      /\ d \in Partial
  <2>1. DOMAIN collector.delta \subseteq Metered
        /\ \A t \in DOMAIN collector.delta : collector.delta[t] \in Nat
    BY <1>2, Partials DEF Jobs
  <2> HIDE DEF m, before
  <2>2. d \in [DOMAIN collector.delta \cup {s} -> Nat]
    BY <1>4, <2>1
  <2> QED
    BY <2>1, <2>2, Partials
<1>6. collector' = j
  BY <1>1, <1>2
<1> HIDE DEF d
<1>7. /\ j \in Jobs /\ j.at = next /\ j.todo = rest /\ j.sample = collector.sample /\ j.delta = d
  BY <1>2, <1>5 DEF Jobs, Stages
<1>8. /\ \/ previous' = [previous EXCEPT ![s] = m] /\ UNCHANGED unstored
         \/ unstored' = unstored \cup {s} /\ UNCHANGED previous
  BY <1>1
<1>9. BooksTyped'
  BY <1>2, <1>3, <1>8 DEF MeteringInv, BooksTyped
<1> HIDE DEF j, before
<1>10. JobInv'
  <2>1. /\ collector.todo \subseteq DOMAIN collector.sample
        /\ DOMAIN collector.delta = DOMAIN collector.sample \ collector.todo
    BY <1>2 DEF MeteringInv, JobInv
  <2> QED
    BY <1>2, <1>5, <1>6, <1>7, <2>1 DEF JobInv
<1>11. ASSUME NEW t \in Metered \ unstored'  PROVE Carried(t)'
  <2>0. t \notin unstored
    BY <1>8
  <2>1. CASE t = s
    <3>1. previous'[s] = m
      BY <1>8, <2>1 DEF MeteringInv, BooksTyped
    <3>2. InHand(s)' = DeltaOf(m, before) /\ Uncounted(s)' = DeltaOf(counter[s], m)
      BY <1>2, <1>5, <1>6, <1>7, <3>1 DEF InHand, Uncounted, Found, Todo
    <3>3. InHand(s) = 0 /\ Uncounted(s) = DeltaOf(m, previous[s]) + DeltaOf(counter[s], m)
      BY <1>2, <1>3 DEF InHand, Uncounted
    <3>4. DeltaOf(counter[s], m) \in Nat
      BY <1>3, Values, Deltas
    <3>5. InHand(s)' + Uncounted(s)' <= InHand(s) + Uncounted(s) /\ InHand(s)' \in Nat /\ Uncounted(s)' \in Nat
      BY <1>4, <3>2, <3>3, <3>4
    <3> QED
      BY <1>2, <2>0, <2>1, <3>5, CarriedOn
  <2>2. CASE t # s
    <3>1. previous'[t] = previous[t]
      BY <1>8, <2>2 DEF MeteringInv, BooksTyped
    <3>2. Found(t)' = Found(t) /\ Todo(t)' = Todo(t)
      BY <1>2, <1>5, <1>6, <1>7, <2>2 DEF Found, Todo
    <3>3. InHand(t)' = InHand(t) /\ Uncounted(t)' = Uncounted(t)
      BY <1>2, <1>5, <1>6, <1>7, <2>2, <3>1, <3>2 DEF InHand, Uncounted, Found
    <3>4. InHand(t) \in Nat /\ Uncounted(t) \in Nat
      BY Values
    <3> QED
      BY <1>2, <2>0, <3>3, <3>4, CarriedOn
  <2> QED
    BY <2>1, <2>2
<1>12. Elapsed' = Elapsed /\ Elapsed \in Int
  BY <1>2, <1>6, <1>7 DEF Elapsed
<1> QED
  BY <1>2, <1>9, <1>10, <1>11, <1>12, MinutesKept DEF MeteringInv
(* recordUsage: what was pending is recorded, and the period is used up;   *)
(* or nothing is, and the attempt has failed.                              *)
LEMMA RecordKeeps == ASSUME MeteringInv, RecordUsage  PROVE MeteringInv'
<1> DEFINE S == DOMAIN collector.sample
           j == [collector EXCEPT !.at = "report"]
<1>1. /\ UNCHANGED <<sent, counter, previous, periods, unstored>>
      /\ collector.at = "record" /\ collector \in Jobs /\ DOMAIN collector.delta = S
      /\ periods \in Nat /\ repeats \in Nat
  BY DEF RecordUsage, Containers, MeteringInv, JobInv, BooksTyped
<1>2. CASE Again /\ UNCHANGED <<traffic, minutes>>
  BY <1>1, <1>2, AgainKeeps
<1>3. CASE /\ traffic' = [s \in Metered |-> traffic[s] + IF s \in S THEN collector.delta[s] ELSE 0]
           /\ minutes' = [s \in Metered |-> minutes[s] + IF s \in S THEN Interval ELSE 0]
           /\ collector' = j /\ UNCHANGED repeats
  <2>1. /\ S \subseteq Metered /\ \A s \in S : collector.delta[s] \in Nat
    BY <1>1, Partials DEF Jobs
  <2>2. j \in Jobs /\ j.at = "report"
    BY <1>1 DEF Jobs, Stages
  <2>3. JobInv'
    BY <1>3, <2>2 DEF JobInv
  <2>4. /\ traffic' \in [Metered -> Nat] /\ minutes' \in [Metered -> Nat]
    <3>1. /\ \A s \in Metered : traffic[s] \in Nat /\ minutes[s] \in Nat
          /\ Interval \in Nat
      BY MeteringAssumption DEF MeteringInv, BooksTyped
    <3> HIDE DEF j
    <3> QED
      BY <1>3, <2>1, <3>1
  <2>5. BooksTyped'
    BY <1>1, <1>3, <2>4 DEF MeteringInv, BooksTyped
  <2>6. ASSUME NEW s \in Metered \ unstored  PROVE Carried(s)'
    <3>1. traffic'[s] = traffic[s] + InHand(s)
      BY <1>1, <1>3 DEF InHand, Found
    <3>2. InHand(s)' = 0 /\ Uncounted(s)' = DeltaOf(counter[s], previous[s]) /\ Uncounted(s) = Uncounted(s)'
      BY <1>1, <1>3, <2>2 DEF InHand, Uncounted, Found, Todo
    <3>3. Carried(s) /\ traffic[s] \in Nat /\ InHand(s) \in Nat /\ Uncounted(s) \in Nat /\ sent[s] \in Nat
      BY Values DEF MeteringInv
    <3> QED
      BY <1>1, <3>1, <3>2, <3>3 DEF Carried
  <2>7. ASSUME NEW s \in Metered  PROVE minutes'[s] <= Interval * Elapsed'
    <3>1. Elapsed \in Int /\ Elapsed' = Elapsed + 1
      BY <1>1, <1>3, <2>2 DEF Elapsed
    <3>2. Interval * Elapsed \in Int /\ Interval * Elapsed + Interval = Interval * Elapsed' /\ Interval \in Nat
      BY <3>1, Times, MeteringAssumption
    <3>3. minutes[s] <= Interval * Elapsed /\ minutes[s] \in Nat
      BY Values DEF MeteringInv
    <3>4. minutes'[s] = minutes[s] \/ minutes'[s] = minutes[s] + Interval
      BY <1>3, <3>2, <3>3
    <3> QED
      BY <3>2, <3>3, <3>4
  <2> QED
    BY <1>1, <2>3, <2>5, <2>6, <2>7 DEF MeteringInv
<1> QED
  BY <1>2, <1>3 DEF RecordUsage

(* reportToStripe changes neither traffic nor minutes.                     *)
LEMMA ReportKeeps == ASSUME MeteringInv, ReportToStripe  PROVE MeteringInv'
<1>1. /\ UNCHANGED <<sent, counter, previous, periods, unstored, traffic, minutes>>
      /\ collector.at = "report" /\ periods \in Nat /\ repeats \in Nat
      /\ Again \/ (collector' = NoJob /\ UNCHANGED repeats)
  BY DEF ReportToStripe, Containers, MeteringInv, BooksTyped
<1>2. CASE Again
  BY <1>1, <1>2, AgainKeeps
<1>3. CASE collector' = NoJob /\ UNCHANGED repeats
  <2>1. Elapsed <= Elapsed'
    BY <1>1, <1>3, EmptyJobs DEF Elapsed
  <2> QED
    BY <1>1, <1>3, <2>1, JobGivesUp
<1> QED
  BY <1>1, <1>2, <1>3

LEMMA MeteringKept == MeteringInv /\ [MeteringNext]_meteringVars => MeteringInv'
<1>1. MeteringInv /\ WorkerDies => MeteringInv'
  BY AgainKeeps DEF WorkerDies, Containers, Books
<1>2. MeteringInv /\ UNCHANGED meteringVars => MeteringInv'
  <2> SUFFICES ASSUME MeteringInv, UNCHANGED meteringVars  PROVE MeteringInv'
    OBVIOUS
  <2>1. BooksTyped' /\ JobInv' /\ Elapsed' = Elapsed /\ UNCHANGED <<unstored, minutes>>
    BY DEF meteringVars, MeteringInv, BooksTyped, JobInv, Elapsed
  <2>2. ASSUME NEW s \in Metered \ unstored  PROVE Carried(s)'
    BY DEF meteringVars, MeteringInv, Carried, InHand, Uncounted, Found, Todo
  <2> QED
    BY <2>1, <2>2 DEF MeteringInv
<1> QED
  BY <1>1, <1>2, WorldMoves, JobBeginKeeps, CollectKeeps, CalculateKeeps, RecordKeeps, ReportKeeps
     DEF MeteringNext

(* No traffic is recorded twice, however attempts fail and are made again; *)
(* and the time a service ran is recorded once per collection, once more   *)
(* only for an attempt after one that had recorded.                        *)
THEOREM UsageIsOnce == MeteringSpec => []UsageOnce
<1>1. MeteringInv => UsageOnce
  <2> SUFFICES ASSUME MeteringInv, NEW s \in Metered
               PROVE  /\ s \notin unstored => traffic[s] <= sent[s]
                      /\ minutes[s] <= Interval * (periods + repeats)
    BY DEF UsageOnce
  <2>1. /\ {sent[s], traffic[s], minutes[s], InHand(s), Uncounted(s), periods, repeats} \subseteq Nat
        /\ Elapsed \in Int
    BY Values DEF MeteringInv, BooksTyped
  <2>2. Elapsed <= periods + repeats /\ periods + repeats \in Int
    BY <2>1 DEF Elapsed
  <2>3. Interval * Elapsed <= Interval * (periods + repeats)
        /\ Interval * Elapsed \in Int /\ Interval * (periods + repeats) \in Int
    BY <2>1, <2>2, Times
  <2>4. minutes[s] <= Interval * Elapsed /\ (s \notin unstored => Carried(s))
    BY DEF MeteringInv
  <2>5. s \notin unstored => traffic[s] <= sent[s]
    BY <2>1, <2>4 DEF Carried
  <2> QED
    BY <2>1, <2>3, <2>4, <2>5
<1> QED
  BY <1>1, MeteringBegins, MeteringKept, PTL DEF MeteringSpec

-------------------------------------------------------------------------------
(* The types of the module: counters do not run ahead of what was sent,    *)
(* and an attempt is numbered by how often the job has begun.              *)
MeteringTypes == MeteringTypeOK /\ \A s \in Metered : counter[s] <= sent[s]

WorldTyped ==
  /\ sent \in [Metered -> 0 .. MaxTraffic] /\ counter \in [Metered -> 0 .. MaxTraffic]
  /\ \A s \in Metered : counter[s] <= sent[s]
  /\ known \subseteq Metered /\ unstored \subseteq Metered
JobTyped ==
  /\ collector.at \in {"idle", "collect", "calculate", "record", "report"}
  /\ collector.attempt \in 0 .. Attempts /\ collector.todo \subseteq Metered
BilledTyped == billed \in [Payers -> Nat]

LEMMA NoJobTyped ==
  /\ collector' = NoJob => JobTyped'
  /\ \A n \in 0 .. Attempts :
       collector' = [NoJob EXCEPT !.at = "collect", !.attempt = n] => JobTyped'
<1>1. 0 \in 0 .. Attempts
  BY MeteringAssumption
<1>2. collector' = NoJob => JobTyped'
  BY <1>1 DEF NoJob, JobTyped
<1>3. ASSUME NEW n \in 0 .. Attempts,
             collector' = [NoJob EXCEPT !.at = "collect", !.attempt = n]
      PROVE  JobTyped'
  BY <1>3 DEF NoJob, JobTyped
<1> QED
  BY <1>2, <1>3

LEMMA MeteringTypesBegin == MeteringInit => MeteringTypes
<1> SUFFICES ASSUME MeteringInit  PROVE MeteringTypes
  OBVIOUS
<1>1. 0 \in 0 .. MaxTraffic /\ 0 \in 0 .. MaxPeriods /\ 0 \in 0 .. MaxFaults /\ 0 \in 0 .. Attempts
  BY MeteringAssumption
<1> QED
  BY <1>1 DEF MeteringInit, MeteringTypes, MeteringTypeOK, Unknown, NoJob

LEMMA AgainTyped == JobTyped /\ Again => JobTyped'
<1> SUFFICES ASSUME JobTyped, Again  PROVE JobTyped'
  OBVIOUS
<1>1. collector.attempt \in 0 .. Attempts /\ Attempts \in Nat
  BY MeteringAssumption DEF JobTyped
<1>2. CASE collector.attempt < Attempts
  <2>1. collector' = [NoJob EXCEPT !.at = "collect", !.attempt = collector.attempt + 1]
    BY <1>2 DEF Again
  <2>2. collector.attempt + 1 \in 0 .. Attempts
    BY <1>1, <1>2
  <2> QED
    BY <2>1, <2>2, NoJobTyped
<1>3. CASE ~(collector.attempt < Attempts)
  BY <1>3, NoJobTyped DEF Again
<1> QED
  BY <1>2, <1>3

LEMMA MeteringTypesKept ==
  MeteringInv /\ MeteringInv' /\ MeteringTypes /\ [MeteringNext]_meteringVars => MeteringTypes'
<1> SUFFICES ASSUME MeteringInv, MeteringInv', MeteringTypes, [MeteringNext]_meteringVars
             PROVE  MeteringTypes'
  OBVIOUS
<1> DEFINE Goal == WorldTyped' /\ JobTyped' /\ BilledTyped'
                   /\ periods' \in 0 .. MaxPeriods /\ faults' \in 0 .. MaxFaults
<1> SUFFICES Goal
  BY DEF MeteringTypes, MeteringTypeOK, MeteringInv, BooksTyped, WorldTyped, JobTyped, BilledTyped
<1>0. /\ WorldTyped /\ JobTyped /\ BilledTyped
      /\ periods \in 0 .. MaxPeriods /\ faults \in 0 .. MaxFaults
  BY DEF MeteringTypes, MeteringTypeOK, WorldTyped, JobTyped, BilledTyped
<1>a. UNCHANGED <<sent, counter, known, unstored>> => WorldTyped'
  BY <1>0 DEF WorldTyped
<1>b. (UNCHANGED billed => BilledTyped') /\ (UNCHANGED collector => JobTyped')
  BY <1>0 DEF BilledTyped, JobTyped
<1>c. UNCHANGED faults \/ Fault => faults' \in 0 .. MaxFaults
  BY <1>0, MeteringAssumption DEF Fault
<1>d. collector \in Jobs
  BY DEF MeteringInv, JobInv
<1>1. CASE UNCHANGED meteringVars
  BY <1>0, <1>1, <1>a, <1>b, <1>c DEF meteringVars
<1>2. ASSUME NEW s \in Metered, Sends(s) \/ RestartsAt0(s) \/ KeyExpires(s) \/ RowGoes(s)
      PROVE  Goal
  <2>1. UNCHANGED <<collector, billed, periods, unstored>>
        /\ (UNCHANGED faults \/ Fault)
    BY <1>2 DEF Sends, RestartsAt0, KeyExpires, RowGoes, Books, Containers
  <2>2. ASSUME Sends(s)  PROVE WorldTyped'
    <3>1. /\ sent[s] \in Nat /\ counter[s] \in Nat /\ sent[s] + 1 \in 0 .. MaxTraffic
          /\ counter[s] + 1 \in 0 .. MaxTraffic /\ counter[s] + 1 <= sent[s] + 1
      BY <1>0, <2>2, MeteringAssumption DEF Sends, WorldTyped
    <3> QED
      BY <1>0, <2>1, <2>2, <3>1 DEF Sends, WorldTyped
  <2>3. ASSUME RestartsAt0(s)  PROVE WorldTyped'
    <3>1. 0 \in 0 .. MaxTraffic /\ sent[s] \in Nat
      BY <1>0, MeteringAssumption DEF WorldTyped
    <3> QED
      BY <1>0, <2>1, <2>3, <3>1 DEF RestartsAt0, WorldTyped
  <2>4. ASSUME KeyExpires(s) \/ RowGoes(s)  PROVE WorldTyped'
    BY <1>0, <2>1, <2>4 DEF KeyExpires, RowGoes, Containers, WorldTyped
  <2>5. WorldTyped'
    BY <1>2, <2>2, <2>3, <2>4
  <2> QED
    BY <1>0, <1>b, <1>c, <2>1, <2>5
<1>3. CASE BeginJob
  <2>1. /\ UNCHANGED <<sent, counter, known, unstored, billed, faults>>
        /\ periods < MaxPeriods /\ periods' = periods + 1
        /\ collector' = [NoJob EXCEPT !.at = "collect", !.attempt = 1]
    BY <1>3 DEF BeginJob, Containers, Books
  <2>2. periods' \in 0 .. MaxPeriods /\ 1 \in 0 .. Attempts
    BY <1>0, <2>1, MeteringAssumption
  <2> QED
    BY <1>0, <1>a, <1>b, <2>1, <2>2, NoJobTyped
<1>4. CASE CollectAllMetrics
  <2>a. CASE Fault /\ Again
    <3>1. UNCHANGED <<sent, counter, known, unstored, billed, periods>>
      BY <1>4 DEF CollectAllMetrics, Containers, Books
    <3> QED
      BY <1>0, <1>a, <1>b, <1>c, <2>a, <3>1, AgainTyped
  <2> SUFFICES ASSUME ~(Fault /\ Again)  PROVE Goal
    BY <2>a
  <2>1. PICK S \in SUBSET Metered :
          /\ UNCHANGED faults \/ Fault
          /\ \/ collector' = NoJob
             \/ collector' = [collector EXCEPT !.at = "calculate", !.todo = S,
                                               !.sample = [s \in S |-> counter[s]]]
    BY <1>4 DEF CollectAllMetrics
  <2>2. UNCHANGED <<sent, counter, known, unstored, billed, periods>>
    BY <1>4 DEF CollectAllMetrics, Containers, Books
  <2>3. JobTyped'
    BY <1>0, <1>d, <2>1, NoJobTyped DEF Jobs, JobTyped
  <2> QED
    BY <1>0, <1>a, <1>b, <1>c, <2>1, <2>2, <2>3
<1>5. ASSUME NEW s \in Metered, CalculateUsage(s)
      PROVE  Goal
  <2>1. UNCHANGED <<sent, counter, known, billed, periods>>
        /\ (UNCHANGED faults \/ Fault) /\ (unstored' = unstored \/ unstored' = unstored \cup {s})
    BY <1>5 DEF CalculateUsage, Containers, Books
  <2>2. /\ collector'.at \in {"record", collector.at} /\ collector'.attempt = collector.attempt
        /\ collector'.todo = collector.todo \ {s}
    BY <1>5, <1>d DEF CalculateUsage, Jobs
  <2>3. JobTyped'
    BY <1>0, <2>2 DEF JobTyped
  <2>4. WorldTyped'
    BY <1>0, <2>1 DEF WorldTyped
  <2> QED
    BY <1>0, <1>b, <1>c, <2>1, <2>3, <2>4
<1>6. CASE RecordUsage
  <2>1. UNCHANGED <<sent, counter, known, unstored, billed, periods>>
    BY <1>6 DEF RecordUsage, Containers
  <2>2. /\ UNCHANGED faults \/ Fault
        /\ Again \/ collector' = [collector EXCEPT !.at = "report"]
    BY <1>6 DEF RecordUsage
  <2>3. JobTyped'
    BY <1>0, <1>d, <2>2, AgainTyped DEF Jobs, JobTyped
  <2> QED
    BY <1>0, <1>a, <1>b, <1>c, <2>1, <2>2, <2>3
<1>7. CASE ReportToStripe
  <2>1. UNCHANGED <<sent, counter, known, unstored, periods>>
    BY <1>7 DEF ReportToStripe, Containers
  <2>2. (UNCHANGED faults \/ Fault) /\ (Again \/ collector' = NoJob)
    BY <1>7 DEF ReportToStripe
  <2>3. BilledTyped'
    <3> DEFINE Of(u) == {s \in DOMAIN collector.sample : s \in known /\ Payer[s] = u}
               hours(u) == Rounded(Interval * Cardinality(Of(u)))
    <3>1. PICK F \in SUBSET Payers :
            billed' = [u \in Payers |-> billed[u] + IF u \in F THEN 0 ELSE hours(u)]
      BY <1>7 DEF ReportToStripe
    <3>2. ASSUME NEW u \in Payers  PROVE hours(u) \in Nat
      <4>1. Of(u) \in SUBSET Metered
        BY <1>0 DEF WorldTyped
      <4>2. Cardinality(Of(u)) \in Nat
        BY <4>1, FS_Subset, FS_CardinalityType, MeteringAssumption
      <4> DEFINE n == Cardinality(Of(u))
                 m == Interval * n
      <4>3. m \in Nat
        BY <4>2, MeteringAssumption
      <4> HIDE DEF m
      <4>4. Rounded(m) \in Nat
        BY <4>3 DEF Rounded
      <4> QED
        BY <4>4 DEF m
    <3> HIDE DEF hours
    <3> QED
      BY <1>0, <3>1, <3>2 DEF BilledTyped
  <2> QED
    BY <1>0, <1>a, <1>c, <2>1, <2>2, <2>3, AgainTyped, NoJobTyped
<1>8. CASE WorkerDies
  <2>1. UNCHANGED <<sent, counter, known, unstored, billed, periods>> /\ Fault
    BY <1>8 DEF WorkerDies, Containers, Books
  <2>2. \/ collector' = [NoJob EXCEPT !.at = "collect", !.attempt = collector.attempt]
        \/ collector' = NoJob
    BY <1>8 DEF WorkerDies
  <2>3. JobTyped'
    BY <1>0, <2>2, NoJobTyped DEF JobTyped
  <2> QED
    BY <1>0, <1>a, <1>b, <1>c, <2>1, <2>3
<1> QED
  BY <1>1, <1>2, <1>3, <1>4, <1>5, <1>6, <1>7, <1>8 DEF MeteringNext

(* A job is never attempted more often than it may be, and no traffic, no  *)
(* minutes and no bill are negative, whatever restarts and is repeated.    *)
THEOREM MeteringTypeCorrect == MeteringSpec => []MeteringTypeOK
<1>1. MeteringTypes => MeteringTypeOK
  BY DEF MeteringTypes
<1> QED
  BY <1>1, MeteringBegins, MeteringKept, MeteringTypesBegin, MeteringTypesKept, PTL DEF MeteringSpec

-------------------------------------------------------------------------------
(***************************************************************************)
(* Usage: an answer agrees with the one before it. An answer counts the    *)
(* records of the services and the time asked for; one that has gone since *)
(* went with its service.                                                  *)
(***************************************************************************)

AskedEntry == [at : {"none", "services", "sum"}, from : Int, to : Int, scope : SUBSET Charged]
LedgerEntry == [service : Charged, from : Int, to : Int]

UsageTyped ==
  /\ time \in Nat /\ charged \subseteq Charged
  /\ ledger \subseteq LedgerEntry /\ IsFiniteSet(ledger)
  /\ term \in [from : Int, to : Int]
  /\ inquiry \in AskedEntry

(* A record is of some time, and of a service that is there.               *)
LedgerInv == \A r \in ledger : r.from < r.to /\ r.service \in charged

(* An answer is right as long as its services are there.                   *)
AnswerInv ==
  /\ answer.from \in Int /\ answer.to \in Int
  /\ answer.counted \subseteq LedgerEntry /\ IsFiniteSet(answer.counted)
  /\ answer.cost = CalculateCost(Cardinality(answer.counted))
  /\ \A r \in answer.counted :
       /\ r.service \in answer.scope /\ r.from < r.to /\ InPeriod(r, answer.from, answer.to)
       /\ r \in ledger \/ r.service \notin charged

UsageInv == UsageTyped /\ LedgerInv /\ AnswerInv
-------------------------------------------------------------------------------
LEMMA UsageBegins == UsageInit => UsageInv
<1> SUFFICES ASSUME UsageInit  PROVE UsageInv
  OBVIOUS
<1>1. UsageTyped /\ LedgerInv
  BY FS_EmptySet DEF UsageInit, UsageTyped, LedgerInv, NoPeriod, Window, NotAsked, AskedEntry
<1>2. CalculateCost(0) = 0
  BY DEF CalculateCost, BandwidthPrice
<1>3. AnswerInv
  BY <1>2, FS_EmptySet DEF UsageInit, AnswerInv, NoAnswer
<1> QED
  BY <1>1, <1>3 DEF UsageInv

(* Usage that is recorded is of services that are there.                   *)
LEMMA RecordIntervalKeeps == \A S \in SUBSET Charged, end \in 0 .. MaxTime :
  UsageInv /\ RecordInterval(S, end) => UsageInv'
<1> SUFFICES ASSUME UsageInv, NEW S \in SUBSET Charged, NEW end \in 0 .. MaxTime,
                    RecordInterval(S, end)
             PROVE  UsageInv'
  OBVIOUS
<1> DEFINE entry(s) == [service |-> s, from |-> end - Stretch, to |-> end]
           more == {entry(s) : s \in S}
<1>1. /\ ledger' = ledger \cup more /\ S \subseteq charged
      /\ UNCHANGED <<time, charged, term, inquiry, answer>>
  BY DEF RecordInterval, Told
<1>2. \A r \in more : r \in LedgerEntry /\ r.from < r.to /\ r.service \in charged
  BY <1>1, UsageAssumption DEF LedgerEntry
<1>3. IsFiniteSet(more)
  <2>1. IsFiniteSet(S)
    BY UsageAssumption, FS_Subset
  <2>2. [s \in S |-> entry(s)] \in Surjection(S, more)
    BY DEF Surjection
  <2> QED
    BY <2>1, <2>2, FS_Surjection
<1> HIDE DEF more
<1>4. IsFiniteSet(ledger')
  BY <1>1, <1>3, FS_Union DEF UsageInv, UsageTyped
<1>5. UsageTyped' /\ LedgerInv' /\ AnswerInv'
  BY <1>1, <1>2, <1>4 DEF UsageInv, UsageTyped, LedgerInv, AnswerInv
<1> QED
  BY <1>5 DEF UsageInv

LEMMA EraseChargedKeeps == \A s \in Charged : UsageInv /\ EraseCharged(s) => UsageInv'
<1> SUFFICES ASSUME UsageInv, NEW s \in Charged, EraseCharged(s)  PROVE UsageInv'
  OBVIOUS
<1>1. /\ charged' = charged \ {s} /\ ledger' = {r \in ledger : r.service # s}
      /\ UNCHANGED <<time, term, inquiry, answer>>
  BY DEF EraseCharged, Told
<1>2. IsFiniteSet(ledger')
  BY <1>1, FS_Subset DEF UsageInv, UsageTyped
<1>3. UsageTyped' /\ LedgerInv'
  BY <1>1, <1>2 DEF UsageInv, UsageTyped, LedgerInv
<1>4. AnswerInv'
  BY <1>1 DEF UsageInv, AnswerInv
<1> QED
  BY <1>3, <1>4 DEF UsageInv

(* Time, and the periods of the subscription.                              *)
LEMMA PeriodsKeep == UsageInv /\ (Passes \/ WritePeriod) => UsageInv'
<1> SUFFICES ASSUME UsageInv, Passes \/ WritePeriod  PROVE UsageInv'
  OBVIOUS
<1>1. UNCHANGED <<ledger, charged, inquiry, answer>>
  BY DEF Passes, WritePeriod, Told
<1>2. time' \in Nat /\ term' \in [from : Int, to : Int]
  BY UsageAssumption DEF UsageInv, UsageTyped, Passes, WritePeriod, Window
<1> QED
  BY <1>1, <1>2 DEF UsageInv, UsageTyped, LedgerInv, AnswerInv

(* A question is about a period and services.                              *)
LEMMA AskKeeps ==
  ASSUME UsageInv, NEW at \in {"services", "sum"}, NEW from \in Int, NEW to \in Int,
         NEW scope \in SUBSET Charged, AsksFor(at, from, to, scope)
  PROVE  UsageInv'
BY DEF AsksFor, UsageInv, UsageTyped, AskedEntry, LedgerInv, AnswerInv

LEMMA QuestionsKeep ==
  UsageInv /\ (GetUsage \/ (\E from, to \in 0 .. MaxTime :
                 \/ \E t \in UsageTeams \cup {NoTeam} : GetUsageHistory(t, from, to)
                 \/ \E s \in Charged : GetServiceUsage(s, from, to)))
    => UsageInv'
<1> SUFFICES ASSUME UsageInv  
             PROVE  /\ GetUsage => UsageInv'
                    /\ \A from, to \in 0 .. MaxTime :
                         /\ \A t : GetUsageHistory(t, from, to) => UsageInv'
                         /\ \A s \in Charged : GetServiceUsage(s, from, to) => UsageInv'
  OBVIOUS
<1>1. \A t : OwnServices(t) \in SUBSET Charged
  BY DEF OwnServices
<1>2. CurrentPeriod.from \in Int /\ CurrentPeriod.to \in Int
  BY UsageAssumption DEF UsageInv, UsageTyped, CurrentPeriod, Window, Forever
<1>3. GetUsage => UsageInv'
  BY <1>1, <1>2, AskKeeps DEF GetUsage
<1>4. ASSUME NEW from \in 0 .. MaxTime, NEW to \in 0 .. MaxTime
      PROVE  /\ \A t : GetUsageHistory(t, from, to) => UsageInv'
             /\ \A s \in Charged : GetServiceUsage(s, from, to) => UsageInv'
  BY <1>1, AskKeeps DEF GetUsageHistory, GetServiceUsage
<1> QED
  BY <1>3, <1>4

-------------------------------------------------------------------------------
(* What is counted is what the ledger has.                                 *)
Counts(counted) ==
  /\ counted \subseteq ledger
  /\ \A r \in counted : r.service \in inquiry.scope /\ InPeriod(r, inquiry.from, inquiry.to)

LEMMA AnswerKeeps ==
  ASSUME UsageInv, NEW counted, Counts(counted),
         AnswerWith(counted, CalculateCost(Cardinality(counted))),
         UNCHANGED <<time, ledger, charged, term>>
  PROVE  UsageInv'
<1>1. /\ answer' = [from |-> inquiry.from, to |-> inquiry.to, scope |-> inquiry.scope,
                    counted |-> counted, cost |-> CalculateCost(Cardinality(counted))]
      /\ inquiry' = NotAsked
  BY DEF AnswerWith
<1>2. IsFiniteSet(counted)
  BY FS_Subset DEF Counts, UsageInv, UsageTyped
<1>3. UsageTyped' /\ LedgerInv'
  BY <1>1 DEF UsageInv, UsageTyped, LedgerInv, NotAsked, AskedEntry
<1>4. inquiry.from \in Int /\ inquiry.to \in Int
  BY DEF UsageInv, UsageTyped, AskedEntry
<1>5. AnswerInv'
  BY <1>1, <1>2, <1>4 DEF UsageInv, UsageTyped, LedgerInv, AnswerInv, Counts, InPeriod
<1> QED
  BY <1>3, <1>5 DEF UsageInv

LEMMA FindChargedAnswers ==
  ASSUME UsageInv, FindCharged
  PROVE  \/ Counts({}) /\ AnswerWith({}, CalculateCost(Cardinality({})))
            /\ inquiry.scope \cap charged = {}
         \/ inquiry' = [inquiry EXCEPT !.at = "sum"] /\ UNCHANGED answer
<1>1. CalculateCost(Cardinality({})) = 0
  BY FS_EmptySet DEF CalculateCost, BandwidthPrice
<1> QED
  BY <1>1 DEF FindCharged, Counts

LEMMA AnswersKeep == UsageInv /\ (FindCharged \/ SumUp \/ QueryFails) => UsageInv'
<1> SUFFICES ASSUME UsageInv, FindCharged \/ SumUp \/ QueryFails  PROVE UsageInv'
  OBVIOUS
<1>1. UNCHANGED <<time, ledger, charged, term>>
  BY DEF FindCharged, SumUp, QueryFails
<1>2. CASE FindCharged
  <2>1. CASE AnswerWith({}, CalculateCost(Cardinality({}))) /\ Counts({})
    BY <1>1, <2>1, AnswerKeeps
  <2>2. CASE inquiry' = [inquiry EXCEPT !.at = "sum"] /\ UNCHANGED answer
    BY <1>1, <2>2 DEF UsageInv, UsageTyped, AskedEntry, LedgerInv, AnswerInv
  <2> QED
    BY <1>2, <2>1, <2>2, FindChargedAnswers
<1>3. CASE SumUp
  <2>1. PICK counted : Counts(counted) /\ AnswerWith(counted, CalculateCost(Cardinality(counted)))
    BY <1>3 DEF SumUp, Counts
  <2> QED
    BY <1>1, <2>1, AnswerKeeps
<1>4. CASE QueryFails
  BY <1>1, <1>4 DEF QueryFails, UsageInv, UsageTyped, LedgerInv, AnswerInv, NotAsked, AskedEntry
<1> QED
  BY <1>2, <1>3, <1>4

LEMMA UsageKept == UsageInv /\ [UsageNext]_usageVars => UsageInv'
<1> SUFFICES ASSUME UsageInv, [UsageNext]_usageVars  PROVE UsageInv'
  OBVIOUS
<1>1. CASE UNCHANGED usageVars
  BY <1>1 DEF usageVars, UsageInv, UsageTyped, LedgerInv, AnswerInv
<1>2. CASE UsageNext
  BY <1>2, RecordIntervalKeeps, EraseChargedKeeps, PeriodsKeep, QuestionsKeep, AnswersKeep
  DEF UsageNext
<1> QED
  BY <1>1, <1>2

-------------------------------------------------------------------------------
LEMMA CostGrows ==
  ASSUME NEW m \in Nat, NEW n \in Nat, m <= n
  PROVE  CalculateCost(m) <= CalculateCost(n)
BY DEF CalculateCost, BandwidthPrice

Agree(p, q) ==
  /\ Touching(p, q) => p.counted \cap q.counted = {}
  /\ Wider(q, p) =>
       /\ \A r \in p.counted : r \in q.counted \/ r.service \notin charged
       /\ p.counted \subseteq q.counted => p.cost <= q.cost

(* Two answers agree if the second counts all that is in its period.       *)
LEMMA CountsAgree ==
  ASSUME UsageInv, NEW counted, Counts(counted),
         AnswerWith(counted, CalculateCost(Cardinality(counted))),
         \A r \in ledger :
           /\ r.service \in inquiry.scope \cap charged
           /\ InPeriod(r, inquiry.from, inquiry.to)
           => r \in counted
  PROVE  Agree(answer, answer')
<1>1. /\ answer'.from = inquiry.from /\ answer'.to = inquiry.to
      /\ answer'.scope = inquiry.scope /\ answer'.counted = counted
      /\ answer'.cost = CalculateCost(Cardinality(counted))
  BY DEF AnswerWith
<1>2. inquiry.from \in Int /\ inquiry.to \in Int
  BY DEF UsageInv, UsageTyped, AskedEntry
<1>3. ASSUME Touching(answer, answer'), NEW r \in answer.counted, r \in counted  PROVE FALSE
  BY <1>1, <1>2, <1>3 DEF UsageInv, AnswerInv, Touching, InPeriod, Counts, LedgerEntry
<1>4. ASSUME Wider(answer', answer), NEW r \in answer.counted, r.service \in charged
      PROVE  r \in counted
  BY <1>1, <1>2, <1>4 DEF UsageInv, AnswerInv, Wider, InPeriod, LedgerEntry
<1>5. ASSUME answer.counted \subseteq counted
      PROVE  answer.cost <= CalculateCost(Cardinality(counted))
  <2>1. IsFiniteSet(counted)
    BY FS_Subset DEF Counts, UsageInv, UsageTyped
  <2>2. /\ Cardinality(answer.counted) <= Cardinality(counted)
        /\ Cardinality(answer.counted) \in Nat /\ Cardinality(counted) \in Nat
    BY <1>5, <2>1, FS_Subset, FS_CardinalityType
  <2> QED
    BY <2>2, CostGrows DEF UsageInv, AnswerInv
<1> QED
  BY <1>1, <1>3, <1>4, <1>5 DEF Agree

(* Two answers one after the other agree, whatever is recorded, erased or  *)
(* renewed between them (getAggregatedUsage of BillingController).         *)
THEOREM AnswersDoAgree == UsageSpec => AnswersAgree
<1>1. ASSUME UsageInv, [UsageNext]_usageVars  PROVE [Agree(answer, answer')]_answer
  <2>1. CASE UNCHANGED answer
    BY <2>1
  <2>2. CASE FindCharged /\ ~UNCHANGED answer
    <3>1. /\ Counts({}) /\ AnswerWith({}, CalculateCost(Cardinality({})))
          /\ inquiry.scope \cap charged = {}
      BY <1>1, <2>2, FindChargedAnswers
    <3> QED
      BY <1>1, <3>1, CountsAgree
  <2>3. CASE SumUp
    <3> DEFINE counted == {r \in ledger : /\ r.service \in inquiry.scope
                                          /\ InPeriod(r, inquiry.from, inquiry.to)}
    <3>1. Counts(counted) /\ AnswerWith(counted, CalculateCost(Cardinality(counted)))
      BY <2>3 DEF SumUp, Counts
    <3>2. \A r \in ledger :
            /\ r.service \in inquiry.scope \cap charged
            /\ InPeriod(r, inquiry.from, inquiry.to)
            => r \in counted
      OBVIOUS
    <3> HIDE DEF counted
    <3> QED
      BY <1>1, <3>1, <3>2, CountsAgree
  <2> QED
    BY <1>1, <2>1, <2>2, <2>3
    DEF UsageNext, usageVars, Told, Passes, WritePeriod, RecordInterval, EraseCharged, GetUsage,
        GetUsageHistory, GetServiceUsage, AsksFor, QueryFails
<1>2. [Agree(answer, answer')]_answer
        <=> [LET p == answer  q == answer' IN
               /\ Touching(p, q) => p.counted \cap q.counted = {}
               /\ Wider(q, p) =>
                    /\ \A r \in p.counted : r \in q.counted \/ r.service \notin charged
                    /\ p.counted \subseteq q.counted => p.cost <= q.cost]_answer
  BY DEF Agree
<1> QED
  BY <1>1, <1>2, UsageBegins, UsageKept, PTL DEF UsageSpec, AnswersAgree

-------------------------------------------------------------------------------
(* A record is of a stretch of time that has passed, and a period begins   *)
(* when it is written or where the one before it ended.                    *)
LEMMA UsageTypesBegin == UsageInit => UsageTypeOK
<1> SUFFICES ASSUME UsageInit  PROVE UsageTypeOK
  OBVIOUS
<1> QED
  BY UsageAssumption DEF UsageInit, UsageTypeOK, NotAsked, NoAnswer

LEMMA UsageTypesKept ==
  UsageInv /\ UsageInv' /\ UsageTypeOK /\ [UsageNext]_usageVars => UsageTypeOK'
<1> SUFFICES ASSUME UsageInv, UsageInv', UsageTypeOK, [UsageNext]_usageVars
             PROVE  UsageTypeOK'
  OBVIOUS
<1> DEFINE Times1 == time' \in 0 .. MaxTime
           Periods1 == term' \in {NoPeriod} \cup {Window(a, a + Term) : a \in 0 .. MaxTime}
           Answer1 == answer'.counted \subseteq Entries
<1>1. answer'.cost \in Nat
  <2> DEFINE n == Cardinality(answer'.counted)
  <2>1. n \in Nat /\ answer'.cost = CalculateCost(n)
    BY FS_CardinalityType DEF UsageInv, AnswerInv
  <2> HIDE DEF n
  <2> QED
    BY <2>1 DEF CalculateCost, BandwidthPrice
<1>2. /\ charged' \subseteq Charged /\ inquiry'.at \in {"none", "services", "sum"}
      /\ inquiry'.scope \subseteq Charged
  BY DEF UsageInv, UsageTyped, AskedEntry
<1>3. CASE UNCHANGED usageVars
  BY <1>3 DEF usageVars, UsageTypeOK
<1>4. CASE Passes
  <2>1. time' \in 0 .. MaxTime /\ UNCHANGED <<ledger, term, answer>>
    BY <1>4, UsageAssumption DEF Passes, Told, UsageTypeOK
  <2> QED
    BY <1>1, <1>2, <2>1 DEF UsageTypeOK
<1>5. CASE WritePeriod
  <2>1. UNCHANGED <<time, ledger, answer>>
    BY <1>5 DEF WritePeriod, Told
  <2>2. CASE term = NoPeriod /\ term' = Window(time, time + Term)
    BY <1>1, <1>2, <2>1, <2>2 DEF UsageTypeOK
  <2>3. CASE term # NoPeriod /\ time >= term.to /\ term' = Window(term.to, term.to + Term)
    <3>1. PICK a \in 0 .. MaxTime : term = Window(a, a + Term)
      BY <2>3 DEF UsageTypeOK
    <3>2. term.to = a + Term
      BY <3>1 DEF Window
    <3>3. term.to \in 0 .. MaxTime
      BY <2>3, <3>2, UsageAssumption DEF UsageTypeOK
    <3> QED
      BY <1>1, <1>2, <2>1, <2>3, <3>3 DEF UsageTypeOK
  <2> QED
    BY <1>5, <2>2, <2>3 DEF WritePeriod
<1>6. ASSUME NEW S \in SUBSET Charged, NEW end \in 0 .. MaxTime, RecordInterval(S, end)
      PROVE  UsageTypeOK'
  <2>1. UNCHANGED <<time, term, answer>> /\ end - Stretch \in 0 .. MaxTime
    BY <1>6, UsageAssumption DEF RecordInterval, Told
  <2>2. ledger' \subseteq Entries
    BY <1>6, <2>1 DEF RecordInterval, Entries, UsageTypeOK
  <2> QED
    BY <1>1, <1>2, <2>1, <2>2 DEF UsageTypeOK
<1>7. ASSUME NEW s \in Charged, EraseCharged(s)  PROVE UsageTypeOK'
  BY <1>1, <1>2, <1>7 DEF EraseCharged, Told, UsageTypeOK
<1>8. ASSUME NEW at, NEW from, NEW to, NEW scope, AsksFor(at, from, to, scope)
      PROVE  UsageTypeOK'
  BY <1>1, <1>2, <1>8 DEF AsksFor, UsageTypeOK
<1>9. CASE FindCharged \/ SumUp \/ QueryFails
  <2>1. UNCHANGED <<time, ledger, term>>
    BY <1>9 DEF FindCharged, SumUp, QueryFails
  <2>2. answer'.counted \subseteq Entries
    BY <1>9 DEF FindCharged, SumUp, QueryFails, AnswerWith, UsageTypeOK
  <2> QED
    BY <1>1, <1>2, <2>1, <2>2 DEF UsageTypeOK
<1>10. CASE GetUsage
  BY <1>8, <1>10 DEF GetUsage
<1>11. ASSUME NEW t, NEW from, NEW to, GetUsageHistory(t, from, to)  PROVE UsageTypeOK'
  BY <1>8, <1>11 DEF GetUsageHistory
<1>12. ASSUME NEW s, NEW from, NEW to, GetServiceUsage(s, from, to)  PROVE UsageTypeOK'
  BY <1>8, <1>12 DEF GetServiceUsage
<1> QED
  BY <1>3, <1>4, <1>5, <1>6, <1>7, <1>9, <1>10, <1>11, <1>12 DEF UsageNext

(* Records, the paid period and what an answer has counted stay in their   *)
(* types (UsageTrackingService), and no answer costs less than nothing.    *)
THEOREM UsageTypeCorrect == UsageSpec => []UsageTypeOK
BY UsageBegins, UsageKept, UsageTypesBegin, UsageTypesKept, PTL DEF UsageSpec

-------------------------------------------------------------------------------
(***************************************************************************)
(* Enforcement: whoever loses the services was warned. A day that is over  *)
(* had its warning, unless the check that read the row has still to act on *)
(* it.                                                                     *)
(***************************************************************************)

PayerRow ==
  [status : AccountStates, end : Nat, warned : Nat \cup {Never}, suspended : Nat \cup {Never}]

EnforcementTyped ==
  /\ now \in Nat /\ account \in PayerRow /\ failedAt \in Nat \cup {Never}
  /\ announced \in BOOLEAN /\ lastLook \in Nat /\ suspended \in BOOLEAN
  /\ look.at \in {"idle", "read"} /\ (look.at = "read" => look.row \in PayerRow)

(* The row of a user who has not paid for the period that ended, who can   *)
(* be warned on three days of the seven.                                   *)
Unpaid(row) == row.status = "PAST_DUE" /\ row.end = PeriodEnd
Warned3 == {1, 3, 5}
From(d) == PeriodEnd + Day * d
OnDay(t, d) == From(d) <= t /\ t < From(d + 1)

(* The failure is announced within a day.                                  *)
FailureInv ==
  /\ lastLook <= now
  /\ failedAt # Never => failedAt = PeriodEnd /\ PeriodEnd <= now
  /\ announced => failedAt # Never /\ account.status # "ACTIVE"
  /\ ~announced => /\ account.status = "ACTIVE" /\ account.end = PeriodEnd
                   /\ account.warned = Never /\ look.at = "idle"
                   /\ failedAt # Never => now < From(1)

(* What the check has read is not older than the hour.                     *)
LookInv == look.at = "read" =>
  /\ lastLook = now /\ look.row.warned = account.warned
  /\ Unpaid(account) => Unpaid(look.row)
  /\ look.row.status # "ACTIVE"

(* A day that is over had its warning, and so had the day of the last      *)
(* check, unless the check still has to act.                               *)
DaysOver == \A d \in Warned3 : From(d + 1) <= now => d \in warnedDays
DaysSeen == \A d \in Warned3 : From(d) <= lastLook => d \in warnedDays
LastWarning == account.warned # Never =>
  account.warned <= now /\ \E d \in Warned3 \cap warnedDays : OnDay(account.warned, d)
WarningsInv ==
  /\ Unpaid(account) => DaysOver /\ LastWarning /\ (look.at = "idle" => DaysSeen)
  /\ look.at = "read" /\ Unpaid(look.row) => DaysOver /\ LastWarning

EnforcementInv == EnforcementTyped /\ FailureInv /\ LookInv /\ WarningsInv
-------------------------------------------------------------------------------
LEMMA EnforcementBegins == EnforcementInit => EnforcementInv
<1> SUFFICES ASSUME EnforcementInit  PROVE EnforcementInv
  OBVIOUS
<1>1. /\ now = 0 /\ failedAt = Never /\ announced = FALSE /\ look.at = "idle" /\ lastLook = 0
      /\ suspended = FALSE /\ account.status = "ACTIVE" /\ account.end = PeriodEnd
      /\ account.warned = Never /\ account \in PayerRow
  BY EnforcementAssumption DEF EnforcementInit, PayerRow, AccountStates
<1>2. EnforcementTyped
  BY <1>1 DEF EnforcementTyped
<1>3. FailureInv /\ LookInv /\ WarningsInv
  BY <1>1 DEF FailureInv, LookInv, WarningsInv, Unpaid
<1> QED
  BY <1>2, <1>3 DEF EnforcementInv

LEMMA DayOf ==
  ASSUME NEW t \in Nat, NEW d \in Nat
  PROVE  /\ From(d) \in Nat /\ From(d + 1) = From(d) + Day /\ Day = 24
         /\ (t - PeriodEnd) \div Day = d <=> OnDay(t, d)
BY EnforcementAssumption DEF From, OnDay, Day

(* Time passes.                                                            *)
LEMMA TickKeeps == EnforcementInv /\ Tick => EnforcementInv'
<1> SUFFICES ASSUME EnforcementInv, Tick  PROVE EnforcementInv'
  OBVIOUS
<1>1. /\ look.at = "idle" /\ now' = now + Step /\ now + Step - lastLook <= Day
      /\ failedAt # Never /\ ~announced => now + Step - failedAt < Day
      /\ UNCHANGED <<account, failedAt, announced, look, lastLook, suspended, warnedDays>>
      /\ now \in Nat /\ lastLook \in Nat /\ Step \in Nat /\ lastLook <= now
      /\ account \in PayerRow
  BY EnforcementAssumption DEF Tick, EnforcementInv, EnforcementTyped, FailureInv
<1>2. EnforcementTyped' /\ LookInv'
  BY <1>1 DEF EnforcementInv, EnforcementTyped, LookInv
<1>3. FailureInv'
  <2>1. From(1) = PeriodEnd + Day /\ Day = 24 /\ PeriodEnd \in Nat
    BY EnforcementAssumption DEF From, Day
  <2>2. failedAt # Never => failedAt = PeriodEnd /\ PeriodEnd <= now
    BY DEF EnforcementInv, FailureInv
  <2>3. ~announced /\ failedAt # Never => now' < From(1)
    BY <1>1, <2>1, <2>2
  <2>4. lastLook' <= now' /\ (failedAt # Never => PeriodEnd <= now')
    BY <1>1, <2>1, <2>2
  <2>5. From(1)' = From(1)
    BY DEF From
  <2> QED
    BY <1>1, <2>2, <2>3, <2>4, <2>5 DEF EnforcementInv, FailureInv
<1>4. ASSUME Unpaid(account)  PROVE DaysOver' /\ LastWarning' /\ DaysSeen'
  <2>1. DaysSeen /\ LastWarning
    BY <1>1, <1>4 DEF EnforcementInv, WarningsInv
  <2>2. \A d \in Warned3 : From(d + 1) <= now + Step => From(d) <= lastLook
    <3> SUFFICES ASSUME NEW d \in Warned3, From(d + 1) <= now + Step  PROVE From(d) <= lastLook
      OBVIOUS
    <3>1. d \in Nat
      BY DEF Warned3
    <3>2. From(d) \in Nat /\ From(d + 1) = From(d) + Day /\ Day = 24
      BY <3>1, <1>1, DayOf
    <3> QED
      BY <1>1, <3>2
  <2>3. DaysOver'
    BY <1>1, <2>1, <2>2 DEF DaysOver, DaysSeen, From
  <2>4. LastWarning'
    BY <1>1, <2>1 DEF LastWarning, PayerRow, OnDay, From, Never
  <2> QED
    BY <1>1, <2>1, <2>3, <2>4 DEF DaysSeen, From
<1>5. WarningsInv'
  BY <1>1, <1>4 DEF WarningsInv, Unpaid
<1> QED
  BY <1>2, <1>3, <1>5 DEF EnforcementInv

(* What Stripe and the user do: nobody gets back to the unpaid period.     *)
LEMMA RowsWritten ==
  ASSUME EnforcementInv, account' \in PayerRow, account'.warned = account.warned,
         UNCHANGED <<now, look, lastLook, suspended, warnedDays>>,
         Unpaid(account)' => Unpaid(account)
  PROVE  LookInv' /\ WarningsInv'
<1>1. LookInv'
  BY DEF EnforcementInv, LookInv, Unpaid
<1>2. DaysOver' = DaysOver /\ DaysSeen' = DaysSeen /\ (LastWarning => LastWarning')
  BY DEF DaysOver, DaysSeen, LastWarning, From, OnDay
<1>3. WarningsInv'
  BY <1>2 DEF EnforcementInv, WarningsInv, Unpaid
<1> QED
  BY <1>1, <1>3

LEMMA RenewalKeeps == EnforcementInv /\ PeriodUnpaid => EnforcementInv'
<1> SUFFICES ASSUME EnforcementInv, PeriodUnpaid  PROVE EnforcementInv'
  OBVIOUS
<1>1. /\ account.status = "ACTIVE" /\ failedAt = Never /\ now = account.end /\ failedAt' = now
      /\ UNCHANGED <<now, account, announced, look, lastLook, suspended, warnedDays>>
      /\ now \in Nat /\ account \in PayerRow
  BY DEF PeriodUnpaid, EnforcementInv, EnforcementTyped
<1>2. ~announced /\ account.end = PeriodEnd
  BY <1>1 DEF EnforcementInv, FailureInv
<1>3. From(1) = PeriodEnd + 24 /\ PeriodEnd \in Nat
  BY EnforcementAssumption DEF From, Day
<1>4. From(1)' = From(1)
  BY DEF From
<1>5. FailureInv'
  BY <1>1, <1>2, <1>3, <1>4 DEF EnforcementInv, FailureInv
<1>6. EnforcementTyped'
  BY <1>1 DEF EnforcementInv, EnforcementTyped
<1>7. LookInv' /\ WarningsInv'
  BY <1>1, RowsWritten
<1> QED
  BY <1>5, <1>6, <1>7 DEF EnforcementInv

LEMMA FailedKeeps == EnforcementInv /\ PaymentFailed => EnforcementInv'
<1> SUFFICES ASSUME EnforcementInv, PaymentFailed  PROVE EnforcementInv'
  OBVIOUS
<1>1. /\ failedAt # Never /\ ~announced /\ announced' = TRUE
      /\ account' = [account EXCEPT !.status = "PAST_DUE"]
      /\ UNCHANGED <<now, failedAt, look, lastLook, suspended, warnedDays>>
      /\ account \in PayerRow /\ now \in Nat /\ lastLook \in Nat
  BY DEF PaymentFailed, EnforcementInv, EnforcementTyped
<1>2. /\ account' \in PayerRow /\ account'.status = "PAST_DUE" /\ account'.end = account.end
      /\ account'.warned = account.warned
  BY <1>1 DEF PayerRow, AccountStates
<1>3. /\ account.warned = Never /\ look.at = "idle" /\ now < From(1) /\ lastLook <= now
  BY <1>1 DEF EnforcementInv, FailureInv
<1>4. EnforcementTyped' /\ FailureInv' /\ LookInv'
  BY <1>1, <1>2, <1>3 DEF EnforcementInv, EnforcementTyped, FailureInv, LookInv, From
<1>5. \A d \in Warned3 : From(1) <= From(d) /\ From(1) <= From(d + 1)
                         /\ From(d) \in Nat /\ From(d + 1) \in Nat /\ From(1) \in Nat
  BY EnforcementAssumption DEF Warned3, From, Day
<1>6. DaysOver' /\ DaysSeen' /\ LastWarning'
  BY <1>1, <1>2, <1>3, <1>5 DEF DaysOver, DaysSeen, LastWarning, From
<1>7. WarningsInv'
  BY <1>1, <1>3, <1>6 DEF WarningsInv
<1> QED
  BY <1>4, <1>7 DEF EnforcementInv

LEMMA UpdatedKeeps ==
  EnforcementInv /\ (SubscriptionUpdated \/ SubscriptionEnds \/ StatusReplaced) => EnforcementInv'
<1> SUFFICES ASSUME EnforcementInv, SubscriptionUpdated \/ SubscriptionEnds \/ StatusReplaced
             PROVE  EnforcementInv'
  OBVIOUS
<1>1. account \in PayerRow /\ PeriodEnd \in Nat /\ Month = 720
  BY EnforcementAssumption DEF EnforcementInv, EnforcementTyped, Month, Day
<1>2. CASE SubscriptionUpdated
  <2>1. /\ failedAt # Never /\ account.end = PeriodEnd /\ announced' = TRUE
        /\ UNCHANGED <<now, failedAt, look, lastLook, suspended, warnedDays>>
    BY <1>2 DEF SubscriptionUpdated
  <2>2. /\ account' \in PayerRow /\ account'.status = "PAST_DUE"
        /\ account'.end = PeriodEnd + 720 /\ account'.warned = account.warned
    <3>1. account' = [account EXCEPT !.status = "PAST_DUE", !.end = PeriodEnd + Month]
      BY <1>2, <2>1 DEF SubscriptionUpdated
    <3>2. PICK end \in Nat : end = PeriodEnd + Month /\ end = PeriodEnd + 720
      BY <1>1
    <3>3. account' = [account EXCEPT !.status = "PAST_DUE", !.end = end]
      BY <3>1, <3>2
    <3>4. /\ account' \in PayerRow /\ account'.status = "PAST_DUE"
          /\ account'.end = end /\ account'.warned = account.warned
      BY <1>1, <3>3 DEF PayerRow, AccountStates
    <3> QED
      BY <3>2, <3>4
  <2>3. ~Unpaid(account)'
    BY <1>1, <2>2 DEF Unpaid
  <2>4. EnforcementTyped' /\ FailureInv'
    BY <2>1, <2>2 DEF EnforcementInv, EnforcementTyped, FailureInv, From
  <2> QED
    BY <2>1, <2>2, <2>3, <2>4, RowsWritten DEF EnforcementInv
<1>3. CASE SubscriptionEnds
  <2>1. /\ UNCHANGED <<now, failedAt, announced, look, lastLook, suspended, warnedDays>>
        /\ account' \in PayerRow /\ account'.status \in {"UNPAID", "CANCELED"}
        /\ account'.end = account.end /\ account'.warned = account.warned
        /\ account.status = "PAST_DUE"
    BY <1>1, <1>3 DEF SubscriptionEnds, PayerRow, AccountStates
  <2>2. ~Unpaid(account)'
    BY <2>1 DEF Unpaid
  <2>3. EnforcementTyped' /\ FailureInv'
    BY <2>1 DEF EnforcementInv, EnforcementTyped, FailureInv, From
  <2> QED
    BY <2>1, <2>2, <2>3, RowsWritten DEF EnforcementInv
<1>4. CASE StatusReplaced
  BY <1>4 DEF StatusReplaced, EnforcementInv, EnforcementTyped, FailureInv, LookInv, WarningsInv,
     Unpaid, DaysOver, DaysSeen, LastWarning, From, OnDay
<1> QED
  BY <1>2, <1>3, <1>4

-------------------------------------------------------------------------------
(* The check reads, after the days that are over had their warnings.       *)
LEMMA ReadKeeps == EnforcementInv /\ ReadAccounts => EnforcementInv'
<1> SUFFICES ASSUME EnforcementInv, ReadAccounts  PROVE EnforcementInv'
  OBVIOUS
<1>1. /\ look.at = "idle" /\ lastLook' = now /\ account \in PayerRow /\ now \in Nat
      /\ UNCHANGED <<now, account, failedAt, announced, suspended, warnedDays>>
  BY DEF ReadAccounts, EnforcementInv, EnforcementTyped
<1>2. Unpaid(account) => DaysOver /\ LastWarning
  BY DEF EnforcementInv, WarningsInv
<1>3. /\ DaysOver' = DaysOver /\ LastWarning' = LastWarning /\ Unpaid(account)' = Unpaid(account)
      /\ From(1)' = From(1)
  BY <1>1 DEF DaysOver, LastWarning, Unpaid, From, OnDay
<1>4. CASE account.status = "ACTIVE" /\ UNCHANGED look
  <2>1. ~Unpaid(account)
    BY <1>4 DEF Unpaid
  <2> QED
    BY <1>1, <1>3, <1>4, <2>1
    DEF EnforcementInv, EnforcementTyped, FailureInv, LookInv, WarningsInv
<1>5. CASE account.status # "ACTIVE" /\ look' = [at |-> "read", row |-> account]
  <2>1. look'.at = "read" /\ look'.row = account
    BY <1>5
  <2>2. announced
    BY <1>5 DEF EnforcementInv, FailureInv
  <2>3. EnforcementTyped' /\ FailureInv' /\ LookInv'
    BY <1>1, <1>3, <1>5, <2>1, <2>2
    DEF EnforcementInv, EnforcementTyped, FailureInv, LookInv, Unpaid
  <2>4. WarningsInv'
    BY <1>1, <1>2, <1>3, <2>1 DEF WarningsInv, Unpaid
  <2> QED
    BY <2>3, <2>4 DEF EnforcementInv
<1> QED
  BY <1>4, <1>5 DEF ReadAccounts

(* Who has not paid is warned on a day of the three, if not before on that *)
(* day: the last warning is of another day, so longer ago.                 *)
LEMMA WarnedOnDay ==
  ASSUME EnforcementInv, look.at = "read", Unpaid(look.row),
         NEW d \in Warned3, OnDay(now, d), d \notin warnedDays
  PROVE  Warns(look.row) /\ DaysSinceEnd(look.row) = d
<1>1. /\ look.row \in PayerRow /\ now \in Nat /\ d \in Nat /\ d <= 5 /\ d \in WarningDays
      /\ look.row.warned = account.warned /\ account \in PayerRow
      /\ look.row.end = PeriodEnd /\ look.row.status = "PAST_DUE" /\ PeriodEnd \in Nat
      /\ LastWarning
  BY EnforcementAssumption
  DEF EnforcementInv, EnforcementTyped, LookInv, WarningsInv, Unpaid, Warned3, WarningDays
<1>2. DaysSinceEnd(look.row) = d
  BY <1>1, DayOf DEF DaysSinceEnd, SinceEnd
<1>3. WithinGrace(look.row)
  <2>1. PeriodEnd + 24 * d <= now /\ now < PeriodEnd + 24 * (d + 1)
    BY DEF OnDay, From, Day
  <2> QED
    BY <1>1, <2>1 DEF WithinGrace, SinceEnd, GraceDays, Day
<1>4. WarnAgain(look.row)
  <2> SUFFICES ASSUME account.warned # Never  PROVE now - account.warned > 20
    BY <1>1 DEF WarnAgain
  <2>1. PICK e \in Warned3 \cap warnedDays : OnDay(account.warned, e)
    BY <1>1 DEF LastWarning
  <2>2. account.warned \in Nat /\ account.warned <= now
    BY <1>1 DEF LastWarning, PayerRow
  <2>3. /\ PeriodEnd + 24 * d <= now /\ now < PeriodEnd + 24 * d + 24
        /\ PeriodEnd + 24 * e <= account.warned /\ account.warned < PeriodEnd + 24 * e + 24
        /\ e # d /\ e \in {1, 3, 5} /\ d \in {1, 3, 5}
    BY <1>1, <2>1 DEF OnDay, From, Day, Warned3
  <2> QED
    BY <1>1, <2>2, <2>3
<1> QED
  BY <1>1, <1>2, <1>3, <1>4 DEF Warns

(* A warning of who has not paid is of one of the three days.              *)
LEMMA WarningIsOnDay ==
  ASSUME EnforcementInv, look.at = "read", Unpaid(look.row), Warns(look.row)
  PROVE  DaysSinceEnd(look.row) \in Warned3 /\ OnDay(now, DaysSinceEnd(look.row))
<1>1. /\ now \in Nat /\ look.row.end = PeriodEnd /\ look.row.status = "PAST_DUE"
      /\ PeriodEnd \in Nat
  BY EnforcementAssumption DEF EnforcementInv, EnforcementTyped, Unpaid
<1>2. /\ WithinGrace(look.row) /\ DaysSinceEnd(look.row) \in WarningDays
      /\ DaysSinceEnd(look.row) = (now - PeriodEnd) \div Day
  BY <1>1 DEF Warns, DaysSinceEnd, SinceEnd
<1>3. now - PeriodEnd < 168
  BY <1>1, <1>2 DEF WithinGrace, SinceEnd, GraceDays, Day
<1>4. PICK d \in {1, 3, 5, 7} : d = DaysSinceEnd(look.row) /\ OnDay(now, d)
  BY <1>1, <1>2, DayOf DEF WarningDays
<1>5. d # 7
  BY <1>1, <1>3, <1>4 DEF OnDay, From, Day
<1> QED
  BY <1>4, <1>5 DEF Warned3

LEMMA ActKeeps == EnforcementInv /\ Act => EnforcementInv'
<1> SUFFICES ASSUME EnforcementInv, Act  PROVE EnforcementInv'
  OBVIOUS
<1>1. /\ look.at = "read" /\ look' = [at |-> "idle"]
      /\ UNCHANGED <<now, failedAt, announced, lastLook>>
      /\ account \in PayerRow /\ look.row \in PayerRow /\ now \in Nat /\ lastLook = now
      /\ announced /\ suspended \in BOOLEAN
  BY DEF Act, EnforcementInv, EnforcementTyped, LookInv, FailureInv
<1>2. /\ account' \in PayerRow
      /\ account'.status = account.status /\ account'.end = account.end
      /\ account'.warned = IF Warns(look.row) THEN now ELSE account.warned
  <2> DEFINE w == IF Warns(look.row) THEN now ELSE account.warned
             u == IF Suspends(look.row) /\ ~suspended THEN now ELSE account.suspended
  <2>1. w \in Nat \cup {Never} /\ u \in Nat \cup {Never}
    BY <1>1 DEF PayerRow
  <2>2. account' = [account EXCEPT !.warned = w, !.suspended = u]
    BY DEF Act
  <2> HIDE DEF w, u
  <2>3. account' \in PayerRow /\ account'.status = account.status /\ account'.end = account.end
        /\ account'.warned = w
    BY <1>1, <2>1, <2>2 DEF PayerRow
  <2> QED
    BY <2>3 DEF w
<1>3. suspended' \in BOOLEAN
  BY <1>1 DEF Act, Suspends
<1>4. look'.at = "idle"
  BY <1>1
<1>5. EnforcementTyped' /\ FailureInv' /\ LookInv'
  BY <1>1, <1>2, <1>3, <1>4 DEF EnforcementInv, EnforcementTyped, FailureInv, LookInv, From
<1>6. ASSUME Unpaid(account)  PROVE DaysOver' /\ DaysSeen' /\ LastWarning'
  <2>1. Unpaid(look.row) /\ DaysOver /\ LastWarning
    BY <1>1, <1>6 DEF EnforcementInv, LookInv, WarningsInv
  <2>2. look.row.status = "PAST_DUE"
    BY <2>1 DEF Unpaid
  <2>3. warnedDays' = IF Warns(look.row) THEN warnedDays \cup {DaysSinceEnd(look.row)}
                      ELSE warnedDays
    BY <2>2 DEF Act
  <2>4. DaysOver'
    BY <1>1, <2>1, <2>3 DEF DaysOver, From
  <2>5. DaysSeen'
    <3> SUFFICES ASSUME NEW d \in Warned3, From(d) <= now  PROVE d \in warnedDays'
      BY <1>1 DEF DaysSeen, From
    <3>1. d \in Nat /\ From(d) \in Nat /\ From(d + 1) \in Nat
      BY EnforcementAssumption DEF Warned3, From, Day
    <3>2. CASE From(d + 1) <= now
      BY <2>1, <2>3, <3>2 DEF DaysOver
    <3>3. CASE now < From(d + 1) /\ d \notin warnedDays
      BY <1>1, <2>1, <2>3, <3>3, WarnedOnDay DEF OnDay
    <3> QED
      BY <1>1, <2>3, <3>1, <3>2, <3>3
  <2>6. LastWarning'
    <3>1. CASE Warns(look.row)
      <4>1. DaysSinceEnd(look.row) \in Warned3 /\ OnDay(now, DaysSinceEnd(look.row))
        BY <1>1, <2>1, <3>1, WarningIsOnDay
      <4>2. DaysSinceEnd(look.row) \in Warned3 \cap warnedDays'
        BY <2>3, <3>1, <4>1
      <4>3. account'.warned = now
        BY <1>2, <3>1
      <4> QED
        BY <1>1, <4>1, <4>2, <4>3 DEF LastWarning, OnDay, From
    <3>2. CASE ~Warns(look.row)
      BY <1>1, <1>2, <2>1, <2>3, <3>2 DEF LastWarning, OnDay, From
    <3> QED
      BY <3>1, <3>2
  <2> QED
    BY <2>4, <2>5, <2>6
<1>7. WarningsInv'
  BY <1>2, <1>4, <1>6 DEF WarningsInv, Unpaid
<1> QED
  BY <1>5, <1>7 DEF EnforcementInv

LEMMA EnforcementKept == EnforcementInv /\ [EnforcementNext]_enforcementVars => EnforcementInv'
<1> SUFFICES ASSUME EnforcementInv, [EnforcementNext]_enforcementVars  PROVE EnforcementInv'
  OBVIOUS
<1>1. CASE UNCHANGED enforcementVars
  BY <1>1 DEF enforcementVars, EnforcementInv, EnforcementTyped, FailureInv, LookInv, WarningsInv,
     Unpaid, DaysOver, DaysSeen, LastWarning, From, OnDay
<1>2. CASE EnforcementNext
  BY <1>2, TickKeeps, RenewalKeeps, FailedKeeps, UpdatedKeeps, ReadKeeps, ActKeeps
  DEF EnforcementNext
<1> QED
  BY <1>1, <1>2

(* Whoever loses the services because the seven days are over was warned   *)
(* on the first, the third and the fifth of them, if a check runs once a   *)
(* day (processSubscriptionCheck), however long the clock's steps are.     *)
THEOREM WarnedBefore == EnforcementSpec => WarnedFirst
<1>1. ASSUME EnforcementInv, [EnforcementNext]_enforcementVars
      PROVE  [Expires => {1, 3, 5} \subseteq warnedDays]_enforcementVars
  <2> SUFFICES ASSUME EnforcementNext, Expires  PROVE {1, 3, 5} \subseteq warnedDays
    BY <1>1 DEF Expires, enforcementVars
  <2>1. ~suspended /\ suspended' /\ Unpaid(look.row)
    BY DEF Expires, Unpaid
  <2>2. look.at = "read" /\ Suspends(look.row)
    BY <2>1 DEF EnforcementNext, Tick, PeriodUnpaid, PaymentFailed, SubscriptionUpdated,
       SubscriptionEnds, StatusReplaced, ReadAccounts, Act
  <2>3. announced /\ PeriodEnd <= now /\ now \in Nat /\ PeriodEnd \in Nat /\ DaysOver
    BY <1>1, <2>1, <2>2, EnforcementAssumption
    DEF EnforcementInv, EnforcementTyped, FailureInv, LookInv, WarningsInv, Never
  <2>4. now >= PeriodEnd + 168
    BY <2>1, <2>2, <2>3 DEF Suspends, Unpaid, WithinGrace, SinceEnd, GraceDays, Day
  <2>5. \A d \in Warned3 : From(d + 1) <= now
    BY <2>3, <2>4 DEF Warned3, From, Day
  <2> QED
    BY <2>3, <2>5 DEF DaysOver, Warned3
<1> QED
  BY <1>1, EnforcementBegins, EnforcementKept, PTL DEF EnforcementSpec, WarnedFirst

-------------------------------------------------------------------------------
LEMMA EnforcementTypesBegin == EnforcementInit => EnforcementTypeOK
<1> SUFFICES ASSUME EnforcementInit  PROVE EnforcementTypeOK
  OBVIOUS
<1>1. account \in PayerRow
  BY EnforcementBegins DEF EnforcementInv, EnforcementTyped
<1>2. look.at = "idle" /\ failedAt = Never /\ announced = FALSE /\ suspended = FALSE
  BY DEF EnforcementInit
<1>3. now \in 0 .. Horizon /\ lastLook \in 0 .. Horizon /\ warnedDays = {}
  BY EnforcementAssumption DEF EnforcementInit
<1> QED
  BY <1>1, <1>2, <1>3 DEF EnforcementTypeOK, PayerRow

(* A day on which somebody was warned is one of the code's four.           *)
LEMMA EnforcementTypesKept ==
  /\ EnforcementInv /\ EnforcementInv' /\ EnforcementTypeOK
  /\ [EnforcementNext]_enforcementVars
  => EnforcementTypeOK'
<1> SUFFICES ASSUME EnforcementInv, EnforcementInv', EnforcementTypeOK,
                    [EnforcementNext]_enforcementVars
             PROVE  EnforcementTypeOK'
  OBVIOUS
<1>1. /\ account' \in PayerRow /\ failedAt' \in Nat \cup {Never} /\ announced' \in BOOLEAN
      /\ look'.at \in {"idle", "read"} /\ suspended' \in BOOLEAN
  BY DEF EnforcementInv, EnforcementTyped
<1>2. now' \in 0 .. Horizon /\ lastLook' \in 0 .. Horizon
  BY EnforcementAssumption
  DEF EnforcementTypeOK, EnforcementNext, Tick, PeriodUnpaid, PaymentFailed, SubscriptionUpdated,
      SubscriptionEnds, StatusReplaced, ReadAccounts, Act, enforcementVars
<1>3. warnedDays' \subseteq 0 .. GraceDays
  <2>1. CASE Act
    <3>1. CASE Warns(look.row) /\ look.row.status = "PAST_DUE"
      <4>1. DaysSinceEnd(look.row) \in WarningDays
        BY <3>1 DEF Warns
      <4>2. warnedDays' = warnedDays \cup {DaysSinceEnd(look.row)}
        BY <2>1, <3>1 DEF Act
      <4>3. WarningDays \subseteq 0 .. GraceDays
        BY DEF WarningDays, GraceDays
      <4> QED
        BY <4>1, <4>2, <4>3, Zenon DEF EnforcementTypeOK
    <3> QED
      BY <2>1, <3>1 DEF Act, EnforcementTypeOK
  <2>2. CASE UNCHANGED warnedDays
    BY <2>2 DEF EnforcementTypeOK
  <2> QED
    BY <2>1, <2>2
    DEF EnforcementNext, Tick, PeriodUnpaid, PaymentFailed, SubscriptionUpdated,
        SubscriptionEnds, StatusReplaced, ReadAccounts, enforcementVars
<1> QED
  BY <1>1, <1>2, <1>3 DEF EnforcementTypeOK, PayerRow

(* Nobody is warned on another day than those of the grace period.         *)
THEOREM EnforcementTypeCorrect == EnforcementSpec => []EnforcementTypeOK
BY EnforcementBegins, EnforcementKept, EnforcementTypesBegin, EnforcementTypesKept, PTL
DEF EnforcementSpec
===============================================================================
