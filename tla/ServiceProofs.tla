---------------------------- MODULE ServiceProofs -----------------------------
(***************************************************************************)
(* What holds of the parts that build and run what people deploy, for any  *)
(* number of requests, services, workers, streams and failures: the limit  *)
(* of a plan, the tries to build, pull request previews, live streams, and *)
(* the images of a service. One section per module, each with its          *)
(* inductive invariant, one lemma per action, and its theorem.             *)
(***************************************************************************)
EXTENDS Quota, Builds, Previews, Streams, Storage, FiniteSetTheorems, TLAPS

-------------------------------------------------------------------------------
(***************************************************************************)
(* Quota: how far the limit of a plan may be exceeded. A request counts    *)
(* from the moment it is admitted until it has written, so that what it    *)
(* will create is part of the sum that HasRoom bounds.                     *)
(***************************************************************************)

(* The plan's limit is not above the largest so far, which is unlimited as *)
(* soon as one plan was.                                                   *)
CeilingInv ==
  /\ ceiling \in Nat \cup {-1}
  /\ ceiling # -1 => MaxServices(plan) # -1 /\ MaxServices(plan) <= ceiling

QuotaInv == QuotaTypeOK /\ CeilingInv /\ LimitHeld

-------------------------------------------------------------------------------
(* A limit is a number, or -1 for none.                                    *)
LEMMA Limits == \A p \in PlanNames : MaxServices(p) \in Nat \cup {-1}
BY DEF PlanNames, MaxServices

(* What the sum of LimitHeld is made of is finite, and requests that are   *)
(* admitted are no more than there are.                                    *)
LEMMA Counted ==
  /\ IsFiniteSet(LiveNames) /\ IsFiniteSet(Admitted)
  /\ Cardinality(LiveNames) \in Nat /\ Cardinality(Admitted) \in Nat
  /\ Cardinality(Callers) \in Nat /\ Cardinality(Admitted) <= Cardinality(Callers)
<1>1. LiveNames \subseteq Names /\ Admitted \subseteq Callers
  BY DEF LiveNames, Admitted
<1>2. IsFiniteSet(LiveNames) /\ IsFiniteSet(Admitted)
      /\ Cardinality(Admitted) <= Cardinality(Callers)
  BY <1>1, FS_Subset, QuotaAssumption DEF QuotaAssumption
<1> QED BY <1>2, FS_CardinalityType, QuotaAssumption DEF QuotaAssumption

(* The same of the next state.                                             *)
LEMMA CountedNext ==
  /\ IsFiniteSet(LiveNames') /\ IsFiniteSet(Admitted')
  /\ Cardinality(LiveNames') \in Nat /\ Cardinality(Admitted') \in Nat
  /\ Cardinality(Admitted') <= Cardinality(Callers)
<1>1. LiveNames' \subseteq Names /\ Admitted' \subseteq Callers
  BY DEF LiveNames, Admitted
<1>2. IsFiniteSet(LiveNames') /\ IsFiniteSet(Admitted')
      /\ Cardinality(Admitted') <= Cardinality(Callers)
  BY <1>1, FS_Subset, QuotaAssumption DEF QuotaAssumption
<1> QED BY <1>2, FS_CardinalityType

(* One more live service at most, when only one name changes.              *)
LEMMA OneMoreLive ==
  ASSUME NEW n, LiveNames' \subseteq LiveNames \cup {n}
  PROVE  Cardinality(LiveNames') <= Cardinality(LiveNames) + 1
<1>1. IsFiniteSet(LiveNames \cup {n})
      /\ Cardinality(LiveNames \cup {n}) \in {Cardinality(LiveNames), Cardinality(LiveNames) + 1}
  BY Counted, FS_AddElement
<1>2. Cardinality(LiveNames') <= Cardinality(LiveNames \cup {n})
  BY <1>1, FS_Subset
<1> QED BY <1>1, <1>2, Counted, CountedNext

(* What the parts of LimitHeld amount to after a step that lets no more    *)
(* in.                                                                     *)
LEMMA NoMore ==
  ASSUME LimitHeld, UNCHANGED <<ceiling, recoveries>>,
         LiveNames' \subseteq LiveNames, Admitted' \subseteq Admitted,
         ceiling \in Int, recoveries \in Nat
  PROVE  LimitHeld'
<1>1. Cardinality(LiveNames') <= Cardinality(LiveNames)
      /\ Cardinality(Admitted') <= Cardinality(Admitted)
  BY Counted, FS_Subset
<1> QED BY <1>1, Counted, CountedNext DEF LimitHeld

-------------------------------------------------------------------------------
(* Nothing is live or admitted at first.                                   *)
LEMMA QuotaBegins == QuotaInit => QuotaInv
<1> SUFFICES ASSUME QuotaInit PROVE QuotaInv
  OBVIOUS
<1>1. QuotaTypeOK
  BY QuotaAssumption DEF QuotaInit, QuotaTypeOK, QuotaAssumption, Standings, CallerStates,
     IdleCaller, Caller, MaxServices
<1>2. CeilingInv
  BY DEF QuotaInit, CeilingInv, MaxServices
<1>3. LiveNames = {} /\ Admitted = {}
  BY DEF QuotaInit, LiveNames, Admitted, IdleCaller, Caller
<1>4. Cardinality(Callers) \in Nat /\ Cardinality({}) = 0
  BY Counted, FS_EmptySet
<1>5. LimitHeld
  BY <1>3, <1>4 DEF QuotaInit, LimitHeld, MaxServices
<1> QED BY <1>1, <1>2, <1>5 DEF QuotaInv

(* Types and the ceiling, step by step.                                    *)
LEMMA QuotaTyped ==
  ASSUME QuotaTypeOK, QuotaNext
  PROVE  QuotaTypeOK'
<1>1. ASSUME NEW c \in Callers, CheckStatus(c)
      PROVE  QuotaTypeOK'
  BY <1>1 DEF CheckStatus, QuotaTypeOK, CallerStates, Caller
<1>2. ASSUME NEW c \in Callers, CheckLimit(c) \/ FindByName(c)
      PROVE  QuotaTypeOK'
  <2>1. PICK new : new \in [at : CallerStates, name : Names \cup {NoName}]
                   /\ caller' = [caller EXCEPT ![c] = new]
    <3>1. CASE End(c)
      BY <3>1 DEF End, IdleCaller, Caller, CallerStates
    <3>2. ASSUME NEW there \in CallerStates, To(c, there)
          PROVE  \E new \in [at : CallerStates, name : Names \cup {NoName}] :
                   caller' = [caller EXCEPT ![c] = new]
      <4>1. caller' = [caller EXCEPT ![c] = [caller[c] EXCEPT !.at = there]]
        BY <3>2 DEF To, QuotaTypeOK
      <4> QED BY <4>1 DEF QuotaTypeOK
    <3> QED BY <1>2, <3>1, <3>2 DEF CheckLimit, FindByName, CallerStates
  <2> QED BY <1>2, <2>1 DEF CheckLimit, FindByName, QuotaTypeOK
<1>3. ASSUME NEW c \in Callers, CreateOrUpdate(c)
      PROVE  QuotaTypeOK'
  BY <1>3 DEF CreateOrUpdate, End, IdleCaller, Caller, QuotaTypeOK, CallerStates
<1>4. ASSUME NEW n \in Names, DeleteService(n) \/ EraseService(n)
      PROVE  QuotaTypeOK'
  BY <1>4 DEF DeleteService, EraseService, OnlyService, QuotaTypeOK
<1>5. ASSUME NEW n \in Names, RecoverService(n)
      PROVE  QuotaTypeOK'
  <2>1. recoveries' \in 0 .. MaxRecoveries
    BY <1>5, QuotaAssumption DEF RecoverService, QuotaTypeOK
  <2> QED BY <1>5, <2>1 DEF RecoverService, OnlyService, QuotaTypeOK
<1>6. ASSUME NEW p \in Plans, ChangePlan(p)
      PROVE  QuotaTypeOK'
  <2>1. MaxServices(p) \in Int
    BY Limits, QuotaAssumption
  <2> QED BY <1>6, <2>1 DEF ChangePlan, QuotaTypeOK
<1>7. ASSUME NEW s \in Standings, ChangeStanding(s)
      PROVE  QuotaTypeOK'
  BY <1>7 DEF ChangeStanding, QuotaTypeOK
<1> QED BY <1>1, <1>2, <1>3, <1>4, <1>5, <1>6, <1>7, QuotaNext DEF QuotaNext

(* Only a change of plan moves limits, and the ceiling with them.          *)
LEMMA CeilingKept ==
  ASSUME QuotaTypeOK, CeilingInv, QuotaNext
  PROVE  CeilingInv'
<1>1. CASE UNCHANGED <<plan, ceiling>>
  BY <1>1 DEF CeilingInv
<1>2. ASSUME NEW p \in Plans, ChangePlan(p)
      PROVE  CeilingInv'
  <2>1. MaxServices(p) \in Nat \cup {-1}
    BY Limits, QuotaAssumption DEF QuotaAssumption
  <2>2. plan' = p
    BY <1>2 DEF ChangePlan
  <2> QED BY <1>2, <2>1, <2>2 DEF ChangePlan, CeilingInv
<1> QED BY <1>1, <1>2 DEF QuotaNext, CheckStatus, CheckLimit, FindByName, CreateOrUpdate,
     DeleteService, RecoverService, EraseService, OnlyService, ChangeStanding

-------------------------------------------------------------------------------
(* The step that counts: who is admitted found room, and then the live     *)
(* services are less than the limit, the admitted no more than all.        *)
LEMMA AdmissionKeeps ==
  ASSUME QuotaInv, NEW c \in Callers, CheckLimit(c)
  PROVE  LimitHeld'
<1>1. LiveNames' = LiveNames /\ UNCHANGED <<ceiling, recoveries>>
  BY DEF CheckLimit, LiveNames
<1>2. CASE HasRoom /\ ceiling # -1
  <2>1. Cardinality(LiveNames) < ceiling
    <3>1. MaxServices(plan) \in Nat
      BY <1>2, Limits, QuotaAssumption DEF QuotaInv, CeilingInv, QuotaTypeOK
    <3> QED BY <1>2, <3>1, Counted DEF QuotaInv, CeilingInv, HasRoom
  <2> QED BY <1>1, <2>1, Counted, CountedNext DEF LimitHeld, QuotaInv, CeilingInv, QuotaTypeOK
<1>3. CASE ~HasRoom
  <2>1. Admitted' \subseteq Admitted
    BY <1>3 DEF CheckLimit, End, IdleCaller, Caller, Admitted, QuotaInv, QuotaTypeOK
  <2> QED BY <1>1, <2>1, NoMore DEF QuotaInv, CeilingInv, QuotaTypeOK
<1> QED BY <1>1, <1>2, <1>3 DEF LimitHeld

(* What is written was admitted: a live service more is a request less.    *)
LEMMA WritingKeeps ==
  ASSUME QuotaInv, NEW c \in Callers, CreateOrUpdate(c)
  PROVE  LimitHeld'
<1>1. c \in Admitted
  BY DEF CreateOrUpdate, At, Admitted
<1>2. Admitted' \subseteq Admitted \ {c}
  BY DEF CreateOrUpdate, End, IdleCaller, Caller, Admitted, QuotaInv, QuotaTypeOK
<1>3. Cardinality(Admitted') <= Cardinality(Admitted) - 1
  <2>1. IsFiniteSet(Admitted \ {c}) /\ Cardinality(Admitted \ {c}) = Cardinality(Admitted) - 1
    BY <1>1, Counted, FS_RemoveElement
  <2> QED BY <1>2, <2>1, FS_Subset
<1>4. LiveNames' \subseteq LiveNames \cup {caller[c].name}
  BY DEF CreateOrUpdate, LiveNames, QuotaInv, QuotaTypeOK
<1>5. Cardinality(LiveNames') <= Cardinality(LiveNames) + 1
  BY <1>4, OneMoreLive
<1>6. UNCHANGED <<ceiling, recoveries>>
  BY DEF CreateOrUpdate
<1> QED BY <1>3, <1>5, <1>6, Counted, CountedNext
     DEF LimitHeld, QuotaInv, CeilingInv, QuotaTypeOK

(* A recovery is admitted by nobody, and is counted for that reason.       *)
LEMMA RecoveryKeeps ==
  ASSUME QuotaInv, NEW n \in Names, RecoverService(n)
  PROVE  LimitHeld'
<1>1. LiveNames' \subseteq LiveNames \cup {n} /\ Admitted' = Admitted
  BY DEF RecoverService, OnlyService, LiveNames, Admitted, QuotaInv, QuotaTypeOK
<1>2. Cardinality(LiveNames') <= Cardinality(LiveNames) + 1
  BY <1>1, OneMoreLive
<1>3. recoveries' = recoveries + 1 /\ ceiling' = ceiling
  BY DEF RecoverService, OnlyService
<1> QED BY <1>1, <1>2, <1>3, Counted, CountedNext
     DEF LimitHeld, QuotaInv, CeilingInv, QuotaTypeOK

(* Another plan can only raise what was the largest limit.                 *)
LEMMA PlanKeeps ==
  ASSUME QuotaInv, NEW p \in Plans, ChangePlan(p)
  PROVE  LimitHeld'
<1>1. LiveNames' = LiveNames /\ Admitted' = Admitted /\ recoveries' = recoveries
  BY DEF ChangePlan, LiveNames, Admitted
<1>2. MaxServices(p) \in Int
  BY Limits, QuotaAssumption
<1>3. ceiling' # -1 => ceiling # -1 /\ ceiling <= ceiling' /\ ceiling' \in Int
  BY <1>2 DEF ChangePlan, QuotaInv, QuotaTypeOK
<1> QED BY <1>1, <1>3, Counted DEF LimitHeld, QuotaInv, QuotaTypeOK

(* Each step of the API and of the webhooks keeps the three.               *)
LEMMA QuotaKept == QuotaInv /\ [QuotaNext]_quotaVars => QuotaInv'
<1> SUFFICES ASSUME QuotaInv, [QuotaNext]_quotaVars PROVE QuotaInv'
  OBVIOUS
<1>1. CASE UNCHANGED quotaVars
  BY <1>1 DEF quotaVars, QuotaInv, QuotaTypeOK, CeilingInv, LimitHeld, LiveNames, Admitted
<1>2. CASE QuotaNext
  <2>1. QuotaTypeOK' /\ CeilingInv'
    BY <1>2, QuotaTyped, CeilingKept DEF QuotaInv
  <2>2. ASSUME NEW c \in Callers, CheckStatus(c) \/ FindByName(c)
        PROVE  LimitHeld'
    <3>1. LiveNames' = LiveNames /\ UNCHANGED <<ceiling, recoveries>>
      BY <2>2 DEF CheckStatus, FindByName, LiveNames
    <3>2. Admitted' \subseteq Admitted
      BY <2>2 DEF CheckStatus, FindByName, At, To, Caller, Admitted, QuotaInv, QuotaTypeOK
    <3> QED BY <3>1, <3>2, NoMore DEF QuotaInv, QuotaTypeOK
  <2>3. ASSUME NEW n \in Names, DeleteService(n) \/ EraseService(n)
        PROVE  LimitHeld'
    <3>1. LiveNames' \subseteq LiveNames /\ Admitted' = Admitted
          /\ UNCHANGED <<ceiling, recoveries>>
      BY <2>3 DEF DeleteService, EraseService, OnlyService, LiveNames, Admitted, QuotaInv, QuotaTypeOK
    <3> QED BY <3>1, NoMore DEF QuotaInv, QuotaTypeOK
  <2>4. ASSUME NEW s \in Standings, ChangeStanding(s)
        PROVE  LimitHeld'
    BY <2>4 DEF ChangeStanding, LimitHeld, LiveNames, Admitted, QuotaInv
  <2> QED BY <1>2, <2>1, <2>2, <2>3, <2>4, AdmissionKeeps, WritingKeeps, RecoveryKeeps, PlanKeeps
       DEF QuotaNext, QuotaInv
<1> QED BY <1>1, <1>2

(* The limit of a plan is exceeded only by requests admitted together, by  *)
(* recoveries and by a plan that became smaller (enforceResourceLimits).   *)
THEOREM LimitExceededByNoMore == QuotaSpec => []LimitHeld
<1>1. QuotaInit => QuotaInv
  BY QuotaBegins
<1>2. QuotaInv => LimitHeld
  BY DEF QuotaInv
<1> QED BY <1>1, <1>2, QuotaKept, PTL DEF QuotaSpec

-------------------------------------------------------------------------------
(* Callers, names and the ceiling stay in their types.                     *)
THEOREM QuotaTypeCorrect == QuotaSpec => []QuotaTypeOK
<1>1. QuotaInv => QuotaTypeOK
  BY DEF QuotaInv
<1> QED
  BY <1>1, QuotaBegins, QuotaKept, PTL DEF QuotaSpec

-------------------------------------------------------------------------------
(***************************************************************************)
(* Builds: how a try to build may fail, with any number of workers on the  *)
(* job of one deployment. A builder has one try from its creation to its   *)
(* removal, or is left by a try that died or could not remove it; what a   *)
(* try found out about networks stays so, since nothing removes one; and a *)
(* Dockerfile generated for values that are words consists of lines docker *)
(* build knows.                                                            *)
(***************************************************************************)

AttemptRow == [at : BuildPlaces, builder : BuilderIds \cup {0}, end : Ends]
BuilderRow ==
  [is : {"unused", "created", "running", "exited", "over", "removed"}, auto : BOOLEAN]

Working == {"start", "exec", "script"}
Owning == Working \cup {"inspect", "stop", "remove"}
Excused == LongerNet \in networks \/ mishaps > 0

(* What a try may rely on where it is, and how it may have ended.          *)
Sound(a) ==
  /\ a.at \notin {"idle", "validate"} => order.text \notin {"bad-name", "lines"}
  /\ a.at \in Owning => a.builder \in BuilderIds /\ builders[a.builder].is # "unused"
  /\ a.at \notin Owning => a.builder = 0
  /\ a.at \in Working \cup {"list-own", "make-own", "image", "create"} =>
       SharedNet \in networks \/ Excused
  /\ a.at \in Working \cup {"image", "create"} => OwnNet \in networks \/ Excused
  /\ a.end = "no-network" => Excused
  /\ a.end = "parse-error" => order.text \in {"spaced", "long-command"}

(* A builder has one try, from when it is created until it is removed.     *)
OneOwner == \A t, u \in Tries :
  /\ attempt[t].at \in Owning /\ attempt[u].at \in Owning
  /\ attempt[t].builder = attempt[u].builder
  => t = u

BuildsInv ==
  /\ order \in Orders
  /\ attempt \in [Tries -> AttemptRow] /\ builders \in [BuilderIds -> BuilderRow]
  /\ mishaps \in Nat
  /\ \A t \in Tries : Sound(attempt[t])
  /\ OneOwner
-------------------------------------------------------------------------------
Good == {Line(i, "ok") : i \in Instructions}

LEMMA GoodLines ==
  /\ \A i \in Instructions : Plain(i) \in Good
  /\ \A l \in Good : l.instruction \in Instructions /\ l.args = "ok"
BY DEF Good, Plain, Line

(* Good lines that begin with FROM, put one after another.                 *)
LEMMA GoodFile ==
  ASSUME NEW s \in Seq(Good), NEW u \in Seq(Good), Len(s) > 0, s[1].instruction = "FROM"
  PROVE  /\ s \o u \in Seq(Good) /\ Len(s \o u) > 0 /\ (s \o u)[1].instruction = "FROM"
OBVIOUS

LEMMA GoodParses ==
  ASSUME NEW s \in Seq(Good), Len(s) > 0, s[1].instruction = "FROM"
  PROVE  DockerParses(s)
<1>1. \A n \in DOMAIN s : s[n] \in Good
  OBVIOUS
<1>2. s # <<>>
  OBVIOUS
<1> QED
  BY <1>1, <1>2, GoodLines DEF DockerParses, ValidSyntax

(* What is generated for variables that are words parses.                  *)
LEMMA WordsParse ==
  ASSUME order.text \notin {"bad-name", "lines", "spaced", "long-command"}
  PROVE  DockerParses(BuildNodeService) /\ DockerParses(BuildStaticSite)
<1>1. {Plain("FROM"), Plain("RUN"), Plain("WORKDIR"), Plain("ARG"), Plain("COPY"), Plain("EXPOSE"),
       Plain("CMD"), Line("ENV", "ok")} \subseteq Good
  BY DEF Good, Plain, Instructions
<1>2. ArgLines \in Seq(Good)
  BY <1>1 DEF ArgLines
<1>3. EnvLines \in Seq(Good)
  <2>1. SecondLine("lines") = <<>>
    BY DEF SecondLine
  <2>2. EnvLines = IF HasVariable THEN <<Line("ENV", "ok")>> \o <<>> ELSE <<>>
    BY <2>1 DEF EnvLines
  <2>3. <<Line("ENV", "ok")>> \in Seq(Good) /\ <<>> \in Seq(Good)
    BY <1>1
  <2> QED
    BY <2>2, <2>3
<1>4. BuildLines \in Seq(Good)
  <2>1. BuildLines = <<Plain("RUN")>> \o <<>>
    BY DEF BuildLines, SecondLine
  <2>2. <<Plain("RUN")>> \in Seq(Good) /\ <<>> \in Seq(Good)
    BY <1>1
  <2> QED
    BY <2>1, <2>2
<1> DEFINE first == <<Plain("FROM"), Plain("RUN"), Plain("RUN"), Plain("WORKDIR")>>
           copies == <<Plain("COPY"), Plain("RUN"), Plain("COPY")>>
           ending == <<Plain("EXPOSE"), Plain("CMD")>>
           served == <<Plain("RUN"), Plain("FROM"), Plain("RUN"), Plain("COPY"), Plain("COPY"),
                       Plain("EXPOSE"), Plain("CMD")>>
<1>5. /\ first \in Seq(Good) /\ copies \in Seq(Good) /\ ending \in Seq(Good) /\ served \in Seq(Good)
      /\ Len(first) > 0 /\ first[1].instruction = "FROM"
  BY <1>1 DEF Plain, Line
<1>6. /\ BuildNodeService = first \o ArgLines \o copies \o EnvLines \o BuildLines \o ending
      /\ BuildStaticSite = first \o ArgLines \o copies \o EnvLines \o BuildLines \o served
  BY DEF BuildNodeService, BuildStaticSite
<1> HIDE DEF first, copies, ending, served
<1> DEFINE a == first \o ArgLines
           b == a \o copies
           c == b \o EnvLines
           d == c \o BuildLines
<1>7. a \in Seq(Good) /\ Len(a) > 0 /\ a[1].instruction = "FROM"
  BY <1>2, <1>5, GoodFile
<1> HIDE DEF a
<1>8. b \in Seq(Good) /\ Len(b) > 0 /\ b[1].instruction = "FROM"
  BY <1>5, <1>7, GoodFile
<1> HIDE DEF b
<1>9. c \in Seq(Good) /\ Len(c) > 0 /\ c[1].instruction = "FROM"
  BY <1>3, <1>8, GoodFile
<1> HIDE DEF c
<1>10. d \in Seq(Good) /\ Len(d) > 0 /\ d[1].instruction = "FROM"
  BY <1>4, <1>9, GoodFile
<1> HIDE DEF d
<1>11. DockerParses(d \o ending) /\ DockerParses(d \o served)
  <2>1. /\ d \o ending \in Seq(Good) /\ Len(d \o ending) > 0 /\ (d \o ending)[1].instruction = "FROM"
    BY <1>5, <1>10, GoodFile
  <2>2. /\ d \o served \in Seq(Good) /\ Len(d \o served) > 0
        /\ (d \o served)[1].instruction = "FROM"
    BY <1>5, <1>10, GoodFile
  <2> QED
    BY <2>1, <2>2, GoodParses
<1> QED
  BY <1>6, <1>11 DEF a, b, c, d

-------------------------------------------------------------------------------
LEMMA BuildsBegin == BuildsInit => BuildsInv
<1> SUFFICES ASSUME BuildsInit  PROVE BuildsInv
  OBVIOUS
<1>1. /\ Idle("none") \in AttemptRow /\ Idle("none").at = "idle" /\ Idle("none").end = "none"
      /\ Idle("none").builder = 0
      /\ Builder("unused", FALSE) \in BuilderRow
  BY DEF Idle, AttemptRow, BuildPlaces, Ends, Builder, BuilderRow
<1>2. Sound(Idle("none"))
  BY <1>1 DEF Sound, Owning, Working
<1>3. OneOwner
  BY <1>1 DEF BuildsInit, OneOwner, Owning, Working
<1> QED
  BY <1>1, <1>2, <1>3 DEF BuildsInit, BuildsInv

(* A step of one try that leaves the builders.                             *)
LEMMA TryMoves ==
  ASSUME BuildsInv, NEW t \in Tries, NEW a \in AttemptRow, attempt' = [attempt EXCEPT ![t] = a],
         UNCHANGED <<order, builders>>, networks \subseteq networks',
         mishaps' \in Nat, mishaps' >= mishaps, Sound(a)',
         a.at \in Owning => attempt[t].at \in Owning /\ a.builder = attempt[t].builder
  PROVE  BuildsInv'
<1>1. /\ attempt' \in [Tries -> AttemptRow] /\ attempt'[t] = a
      /\ \A u \in Tries \ {t} : attempt'[u] = attempt[u]
  BY DEF BuildsInv
<1>2. Excused => Excused'
  BY DEF Excused, BuildsInv
<1>3. \A u \in Tries \ {t} : Sound(attempt[u])'
  BY <1>1, <1>2 DEF Sound, BuildsInv
<1>4. OneOwner'
  BY <1>1 DEF BuildsInv, OneOwner
<1>5. \A u \in Tries : Sound(attempt[u])'
  <2>1. Sound(attempt[t])'
    BY <1>1 DEF Sound
  <2> QED
    BY <1>3, <2>1
<1> QED
  BY <1>1, <1>4, <1>5 DEF BuildsInv

(* A step of one try and of its builder, which no other try has.           *)
MovesBoth(t, n, a, b) ==
  /\ attempt' = [attempt EXCEPT ![t] = a] /\ builders' = [builders EXCEPT ![n] = b]
  /\ \A u \in Tries \ {t} : attempt[u].at \in Owning => attempt[u].builder # n
  /\ UNCHANGED <<order, networks>> /\ mishaps' \in Nat /\ mishaps' >= mishaps
  /\ a.at \in Owning => a.builder = n
  /\ Sound(a)'

LEMMA BuilderMoves ==
  ASSUME BuildsInv, NEW t \in Tries, NEW a \in AttemptRow, NEW n \in BuilderIds,
         NEW b \in BuilderRow, MovesBoth(t, n, a, b)
  PROVE  BuildsInv'
<1>1. /\ attempt' \in [Tries -> AttemptRow] /\ attempt'[t] = a
      /\ \A u \in Tries \ {t} : attempt'[u] = attempt[u]
      /\ builders' \in [BuilderIds -> BuilderRow]
      /\ \A m \in BuilderIds \ {n} : builders'[m] = builders[m]
  BY DEF BuildsInv, MovesBoth
<1>2. Excused => Excused'
  BY DEF Excused, BuildsInv, MovesBoth
<1>3. Working \subseteq Owning
  BY DEF Owning
<1>4. \A u \in Tries \ {t} : Sound(attempt[u])'
  BY <1>1, <1>2, <1>3 DEF Sound, BuildsInv, MovesBoth
<1>5. Sound(attempt[t])'
  BY <1>1 DEF Sound, MovesBoth
<1>6. OneOwner'
  BY <1>1 DEF BuildsInv, OneOwner, MovesBoth
<1> QED
  BY <1>1, <1>4, <1>5, <1>6 DEF BuildsInv, MovesBoth

(* The end that a try reports is not one of those it is not to have.       *)
AllowedEnd(e) ==
  /\ e \in Ends
  /\ e = "no-network" => Excused
  /\ e = "parse-error" => order.text \in {"spaced", "long-command"}

Calm == UNCHANGED <<order, builders>> /\ networks \subseteq networks'
        /\ (UNCHANGED mishaps \/ Mishap)

LEMMA MishapsCount == BuildsInv /\ (UNCHANGED mishaps \/ Mishap) =>
  mishaps' \in Nat /\ mishaps' >= mishaps
BY DEF BuildsInv, Mishap

(* A try that ends.                                                        *)
LEMMA EndsKeep ==
  ASSUME BuildsInv, NEW t \in Tries, NEW e, AllowedEnd(e), Ended(t, e), Calm
  PROVE  BuildsInv'
<1>1. Idle(e) \in AttemptRow /\ Idle(e).at = "idle" /\ Idle(e).end = e /\ Idle(e).builder = 0
  BY DEF Idle, AttemptRow, AllowedEnd, BuildPlaces
<1>2. mishaps' \in Nat /\ mishaps' >= mishaps /\ mishaps \in Nat
  BY MishapsCount DEF Calm, BuildsInv
<1>3. Excused => Excused'
  BY <1>2 DEF Excused, Calm
<1>4. Sound(Idle(e))'
  BY <1>1, <1>3 DEF Sound, AllowedEnd, Owning, Working, Calm, Idle
<1> QED
  BY <1>1, <1>2, <1>4, TryMoves DEF Ended, Calm, Owning, Working

(* The forms a try's entry takes.                                          *)
LEMMA EntryInspected ==
  ASSUME NEW a \in AttemptRow, NEW e \in Ends
  PROVE  LET b == [a EXCEPT !.at = "inspect", !.end = e] IN
         b \in AttemptRow /\ b.at = "inspect" /\ b.end = e /\ b.builder = a.builder
BY DEF AttemptRow, BuildPlaces

LEMMA EntryAt ==
  ASSUME NEW a \in AttemptRow, NEW p \in BuildPlaces
  PROVE  LET b == [a EXCEPT !.at = p] IN
         b \in AttemptRow /\ b.at = p /\ b.end = a.end /\ b.builder = a.builder
BY DEF AttemptRow

LEMMA EntryStarted ==
  ASSUME NEW a \in AttemptRow, NEW n \in BuilderIds
  PROVE  LET b == [a EXCEPT !.at = "start", !.builder = n] IN
         b \in AttemptRow /\ b.at = "start" /\ b.end = a.end /\ b.builder = n
BY DEF AttemptRow, BuildPlaces

(* A try that has its builder removed next.                                *)
LEMMA CleaningKeeps ==
  ASSUME BuildsInv, NEW t \in Tries, NEW e, AllowedEnd(e), CleansUp(t, e), Calm,
         attempt[t].at \in Owning
  PROVE  BuildsInv'
<1>0. attempt[t] \in AttemptRow /\ Sound(attempt[t]) /\ e \in Ends
  BY DEF BuildsInv, AllowedEnd
<1>1. PICK a \in AttemptRow :
        /\ a.at = "inspect" /\ a.end = e /\ a.builder = attempt[t].builder
        /\ a = [attempt[t] EXCEPT !.at = "inspect", !.end = e]
  <2> DEFINE b == [attempt[t] EXCEPT !.at = "inspect", !.end = e]
  <2>1. b \in AttemptRow /\ b.at = "inspect" /\ b.end = e /\ b.builder = attempt[t].builder
    BY <1>0, EntryInspected
  <2> HIDE DEF b
  <2>2. \E a \in AttemptRow :
          a.at = "inspect" /\ a.end = e /\ a.builder = attempt[t].builder /\ a = b
    BY <2>1
  <2> QED
    BY <2>2 DEF b
<1>5. attempt' = [attempt EXCEPT ![t] = a]
  BY <1>1 DEF CleansUp
<1>2. mishaps' \in Nat /\ mishaps' >= mishaps /\ mishaps \in Nat
  BY MishapsCount DEF Calm, BuildsInv
<1>3. Excused => Excused'
  BY <1>2 DEF Excused, Calm
<1>4. Sound(a)'
  <2>1. order.text \notin {"bad-name", "lines"}
    BY <1>0 DEF Sound, Owning, Working
  <2>2. attempt[t].builder \in BuilderIds /\ builders[attempt[t].builder].is # "unused"
    BY <1>0 DEF Sound
  <2>3. order' = order /\ builders' = builders
    BY DEF Calm
  <2>4. /\ a.at \notin Working /\ a.at \in Owning
        /\ a.at \notin {"list-own", "make-own", "image", "create"}
    BY <1>1 DEF Working, Owning
  <2> QED
    BY <1>1, <1>3, <2>1, <2>2, <2>3, <2>4 DEF Sound, AllowedEnd
<1> QED
  <2>1. UNCHANGED <<order, builders>> /\ networks \subseteq networks'
    BY DEF Calm
  <2> QED
    BY <1>1, <1>2, <1>4, <1>5, <2>1, TryMoves

(* A try that goes on to a place where it relies on no more.               *)
LEMMA GoingOn ==
  ASSUME BuildsInv, NEW t \in Tries, NEW p \in BuildPlaces, StepsTo(t, p), Calm,
         p \notin {"idle", "validate"} => order.text \notin {"bad-name", "lines"},
         p \in Owning <=> attempt[t].at \in Owning,
         p \in Working => attempt[t].at \in Working,
         p \in Working \cup {"list-own", "make-own", "image", "create"} =>
           SharedNet \in networks' \/ Excused',
         p \in Working \cup {"image", "create"} => OwnNet \in networks' \/ Excused'
  PROVE  BuildsInv'
<1>0. attempt[t] \in AttemptRow /\ Sound(attempt[t])
  BY DEF BuildsInv
<1>1. PICK a \in AttemptRow :
        /\ a.at = p /\ a.end = attempt[t].end /\ a.builder = attempt[t].builder
        /\ a = [attempt[t] EXCEPT !.at = p]
  <2> DEFINE b == [attempt[t] EXCEPT !.at = p]
  <2>1. b \in AttemptRow /\ b.at = p /\ b.end = attempt[t].end /\ b.builder = attempt[t].builder
    BY <1>0, EntryAt
  <2> HIDE DEF b
  <2>2. \E a \in AttemptRow :
          a.at = p /\ a.end = attempt[t].end /\ a.builder = attempt[t].builder /\ a = b
    BY <2>1
  <2> QED
    BY <2>2 DEF b
<1>5. attempt' = [attempt EXCEPT ![t] = a]
  BY <1>1 DEF StepsTo
<1>2. mishaps' \in Nat /\ mishaps' >= mishaps /\ mishaps \in Nat
  BY MishapsCount DEF Calm, BuildsInv
<1>3. Excused => Excused'
  BY <1>2 DEF Excused, Calm
<1>4. order' = order /\ builders' = builders
  BY DEF Calm
<1>6. Sound(a)'
  BY <1>0, <1>1, <1>3, <1>4 DEF Sound
<1> QED
  <2>1. UNCHANGED <<order, builders>> /\ networks \subseteq networks'
    BY DEF Calm
  <2> QED
    BY <1>0, <1>1, <1>2, <1>5, <1>6, <2>1, TryMoves

-------------------------------------------------------------------------------
LEMMA CalmJob == \A t \in Tries : JobOnly /\ (UNCHANGED mishaps \/ Mishap) => Calm
BY DEF JobOnly, Calm

LEMMA DeliverKeeps == \A t \in Tries : BuildsInv /\ Deliver(t) => BuildsInv'
<1> SUFFICES ASSUME BuildsInv, NEW t \in Tries, Deliver(t)  PROVE BuildsInv'
  OBVIOUS
<1> DEFINE a == [Idle("none") EXCEPT !.at = "validate"]
<1>1. a \in AttemptRow /\ a.at = "validate" /\ a.end = "none" /\ a.builder = 0
  BY DEF Idle, AttemptRow, BuildPlaces, Ends
<1>2. attempt' = [attempt EXCEPT ![t] = a]
  BY DEF Deliver
<1> HIDE DEF a
<1>3. Sound(a)'
  BY <1>1 DEF Sound, Owning, Working, a
<1>4. /\ UNCHANGED <<order, builders>> /\ networks \subseteq networks'
      /\ mishaps' \in Nat /\ mishaps' >= mishaps
  BY DEF Deliver, BuildsInv
<1> QED
  BY <1>1, <1>2, <1>3, <1>4, TryMoves DEF Owning, Working

LEMMA ChoiceKeeps == \A t \in Tries : BuildsInv /\ ValidateAndChoose(t) => BuildsInv'
<1> SUFFICES ASSUME BuildsInv, NEW t \in Tries, ValidateAndChoose(t)  PROVE BuildsInv'
  OBVIOUS
<1>1. Calm
  BY DEF ValidateAndChoose, JobOnly, Calm
<1>2. CASE Ended(t, "refused")
  BY <1>1, <1>2, EndsKeep DEF AllowedEnd, Ends
<1>3. ASSUME NEW p \in {"list-shared", "pull"}, StepsTo(t, p),
             ~(HasVariable /\ ~ValidGenerated(<<Line("FROM", "ok")>>, order.text))
      PROVE  BuildsInv'
  <2>1. order.text \notin {"bad-name", "lines"}
    BY <1>3 DEF HasVariable, ValidGenerated, ValidEnv
  <2>2. p \in BuildPlaces /\ p \notin Owning /\ p \notin Working
        /\ p \notin {"list-own", "make-own", "image", "create"}
    BY <1>3 DEF BuildPlaces, Owning, Working
  <2>3. attempt[t].at \notin Owning
    BY DEF ValidateAndChoose, Located, Owning, Working
  <2> QED
    BY <1>1, <1>3, <2>1, <2>2, <2>3, GoingOn
<1> QED
  BY <1>2, <1>3 DEF ValidateAndChoose

LEMMA PullKeeps == \A t \in Tries : BuildsInv /\ Pulls(t) => BuildsInv'
<1> SUFFICES ASSUME BuildsInv, NEW t \in Tries, Pulls(t)  PROVE BuildsInv'
  OBVIOUS
<1>1. Calm
  BY DEF Pulls, JobOnly, Calm
<1>2. PICK e \in {"built", "pull"} : Ended(t, e)
  BY DEF Pulls
<1> QED
  BY <1>1, <1>2, EndsKeep DEF AllowedEnd, Ends

LEMMA ImageKeeps == \A t \in Tries : BuildsInv /\ EnsureImageExists(t) => BuildsInv'
<1> SUFFICES ASSUME BuildsInv, NEW t \in Tries, EnsureImageExists(t)  PROVE BuildsInv'
  OBVIOUS
<1>1. Calm
  BY DEF EnsureImageExists, JobOnly, Calm
<1>2. CASE StepsTo(t, "create")
  <2>1. Sound(attempt[t]) /\ attempt[t].at = "image"
    BY DEF BuildsInv, EnsureImageExists, Located
  <2>2. /\ order.text \notin {"bad-name", "lines"}
        /\ SharedNet \in networks \/ Excused
        /\ OwnNet \in networks \/ Excused
    BY <2>1 DEF Sound
  <2>3. Excused => Excused'
    BY <1>1, MishapsCount DEF Excused, Calm, BuildsInv
  <2>4. networks \subseteq networks'
    BY <1>1 DEF Calm
  <2>5. /\ "create" \in BuildPlaces /\ "create" \notin Owning /\ "create" \notin Working
        /\ attempt[t].at \notin Owning
    BY <2>1 DEF BuildPlaces, Owning, Working
  <2> QED
    BY <1>1, <1>2, <2>2, <2>3, <2>4, <2>5, GoingOn
<1>3. CASE Ended(t, "docker")
  BY <1>1, <1>3, EndsKeep DEF AllowedEnd, Ends
<1> QED
  BY <1>2, <1>3 DEF EnsureImageExists

LEMMA NetworksKeep == \A t \in Tries : BuildsInv /\ EnsureNetworks(t) => BuildsInv'
<1> SUFFICES ASSUME BuildsInv, NEW t \in Tries, EnsureNetworks(t)  PROVE BuildsInv'
  OBVIOUS
<1>1. Calm
  BY DEF EnsureNetworks, EnsureNetworkExists, JobOnly, Calm
<1>2. Sound(attempt[t])
  BY DEF BuildsInv
<1>3. mishaps \in Nat /\ (Excused => Excused')
  BY <1>1, MishapsCount DEF Excused, Calm, BuildsInv
<1>4. networks \subseteq networks'
  BY <1>1 DEF Calm
<1>5. /\ Working = {"start", "exec", "script"}
      /\ Owning \cap {"list-shared", "make-shared", "list-own", "make-own", "image"} = {}
      /\ attempt[t].at \in {"list-shared", "make-shared", "list-own", "make-own"}
  BY DEF Working, Owning, EnsureNetworks, EnsureNetworkExists, Located
<1>6. CASE EnsureNetworkExists(t, "list-shared", "make-shared", SharedNet, "list-own")
  <2>1. order.text \notin {"bad-name", "lines"}
    BY <1>2, <1>6 DEF Sound, EnsureNetworkExists, Located
  <2>2. CASE StepsTo(t, "make-shared")
    BY <1>1, <1>5, <2>1, <2>2, GoingOn DEF BuildPlaces
  <2>3. CASE StepsTo(t, "list-own") /\ (SharedNet \in networks' \/ Excused')
    BY <1>1, <1>5, <2>1, <2>3, GoingOn DEF BuildPlaces
  <2>4. ListedAs(SharedNet) = {SharedNet}
    BY DEF ListedAs, SharedNet, OwnNet
  <2>5. Mishap => Excused'
    BY <1>3 DEF Mishap, Excused
  <2> QED
    BY <1>4, <1>6, <2>2, <2>3, <2>4, <2>5 DEF EnsureNetworkExists
<1>7. CASE EnsureNetworkExists(t, "list-own", "make-own", OwnNet, "image")
  <2>1. /\ order.text \notin {"bad-name", "lines"}
        /\ SharedNet \in networks \/ Excused
    BY <1>2, <1>7 DEF Sound, EnsureNetworkExists, Located
  <2>2. CASE StepsTo(t, "make-own")
    BY <1>1, <1>3, <1>4, <1>5, <2>1, <2>2, GoingOn DEF BuildPlaces
  <2>3. CASE StepsTo(t, "image") /\ (OwnNet \in networks' \/ Excused')
    BY <1>1, <1>3, <1>4, <1>5, <2>1, <2>3, GoingOn DEF BuildPlaces
  <2>4. networks \cap ListedAs(OwnNet) = {} \/ OwnNet \in networks \/ Excused
    BY DEF ListedAs, Excused
  <2>5. Mishap => Excused'
    BY <1>3 DEF Mishap, Excused
  <2> QED
    BY <1>3, <1>4, <1>7, <2>2, <2>3, <2>4, <2>5 DEF EnsureNetworkExists
<1> QED
  BY <1>6, <1>7 DEF EnsureNetworks

LEMMA CreateKeeps == \A t \in Tries : BuildsInv /\ CreateBuilder(t) => BuildsInv'
<1> SUFFICES ASSUME BuildsInv, NEW t \in Tries, CreateBuilder(t)  PROVE BuildsInv'
  OBVIOUS
<1>1. CASE CreatesNew(t) /\ UNCHANGED mishaps
  <2>1. PICK n \in BuilderIds :
          /\ builders[n].is = "unused"
          /\ builders' = [builders EXCEPT ![n] = Builder("created", order.type = "COMPOSE")]
          /\ attempt' = [attempt EXCEPT ![t].at = "start", ![t].builder = n]
    BY <1>1 DEF CreatesNew, NextBuilder
  <2>2. attempt[t] \in AttemptRow /\ Sound(attempt[t]) /\ attempt[t].at = "create"
    BY DEF BuildsInv, CreateBuilder, Located
  <2>3. PICK a \in AttemptRow :
          /\ a.at = "start" /\ a.end = attempt[t].end /\ a.builder = n
          /\ a = [attempt[t] EXCEPT !.at = "start", !.builder = n]
    <3> DEFINE b == [attempt[t] EXCEPT !.at = "start", !.builder = n]
    <3>1. b \in AttemptRow /\ b.at = "start" /\ b.end = attempt[t].end /\ b.builder = n
      BY <2>2, EntryStarted
    <3> HIDE DEF b
    <3>2. \E a \in AttemptRow :
            a.at = "start" /\ a.end = attempt[t].end /\ a.builder = n /\ a = b
      BY <3>1
    <3> QED
      BY <3>2 DEF b
  <2>4. PICK b \in BuilderRow :
          b.is = "created" /\ b = Builder("created", order.type = "COMPOSE")
    <3>1. (order.type = "COMPOSE") \in BOOLEAN
      OBVIOUS
    <3> QED
      BY <3>1 DEF Builder, BuilderRow
  <2>5. attempt' = [attempt EXCEPT ![t] = a] /\ builders' = [builders EXCEPT ![n] = b]
    BY <2>1, <2>3, <2>4
  <2>6. \A u \in Tries \ {t} : attempt[u].at \in Owning => attempt[u].builder # n
    BY <2>1 DEF BuildsInv, Sound
  <2>7. UNCHANGED <<order, networks>> /\ mishaps' \in Nat /\ mishaps' >= mishaps
    BY <1>1 DEF CreateBuilder, BuildsInv
  <2>8. builders'[n] = b
    BY <2>5 DEF BuildsInv
  <2>9. Excused' = Excused
    BY <1>1, <2>7 DEF Excused
  <2>10. Sound(a)'
    BY <2>2, <2>3, <2>4, <2>7, <2>8, <2>9 DEF Sound, Working, Owning
  <2>11. a.at \in Owning => a.builder = n
    BY <2>3
  <2>12. MovesBoth(t, n, a, b)
    BY <2>5, <2>6, <2>7, <2>10, <2>11 DEF MovesBoth
  <2> QED
    BY <2>12, BuilderMoves
<1>2. ASSUME NEW e \in {"name-taken", "docker"}, Ended(t, e), UNCHANGED builders,
             UNCHANGED mishaps \/ Mishap
      PROVE  BuildsInv'
  <2>1. Calm
    BY <1>2 DEF CreateBuilder, Calm
  <2> QED
    BY <1>2, <2>1, EndsKeep DEF AllowedEnd, Ends
<1> QED
  BY <1>1, <1>2 DEF CreateBuilder

(* A step of a try that has its builder, and of that builder.              *)
LEMMA OwnMoves ==
  ASSUME BuildsInv, NEW t \in Tries, attempt[t].at \in Owning, NEW p \in Owning,
         p \in Working => attempt[t].at \in Working,
         StepsTo(t, p), NEW is, BuilderIs(attempt[t].builder, is),
         is \in {"running", "exited", "removed"},
         UNCHANGED <<order, networks, mishaps>>
  PROVE  BuildsInv'
<1>1. /\ attempt[t] \in AttemptRow /\ Sound(attempt[t])
      /\ p \in BuildPlaces /\ p \notin {"list-own", "make-own", "image", "create"}
      /\ attempt[t].at \notin {"idle", "validate"}
  BY DEF BuildsInv, Owning, Working, BuildPlaces
<1>2. PICK n \in BuilderIds : n = attempt[t].builder
  BY <1>1 DEF Sound
<1>3. PICK a \in AttemptRow :
        /\ a.at = p /\ a.end = attempt[t].end /\ a.builder = n
        /\ a = [attempt[t] EXCEPT !.at = p]
  <2> DEFINE b == [attempt[t] EXCEPT !.at = p]
  <2>1. b \in AttemptRow /\ b.at = p /\ b.end = attempt[t].end /\ b.builder = attempt[t].builder
    BY <1>1, EntryAt
  <2> HIDE DEF b
  <2>2. \E a \in AttemptRow :
          a.at = p /\ a.end = attempt[t].end /\ a.builder = n /\ a = b
    BY <1>2, <2>1
  <2> QED
    BY <2>2 DEF b
<1>4. PICK b \in BuilderRow : b.is = is /\ b = [builders[n] EXCEPT !.is = is]
  <2>1. builders[n] \in BuilderRow
    BY DEF BuildsInv
  <2> QED
    BY <2>1 DEF BuilderRow
<1>5. attempt' = [attempt EXCEPT ![t] = a] /\ builders' = [builders EXCEPT ![n] = b]
  BY <1>2, <1>3, <1>4 DEF StepsTo, BuilderIs
<1>6. \A u \in Tries \ {t} : attempt[u].at \in Owning => attempt[u].builder # n
  BY <1>2 DEF BuildsInv, OneOwner
<1>7. builders'[n] = b /\ Excused' = Excused
  BY <1>5 DEF BuildsInv, Excused
<1>8. Sound(a)'
  BY <1>1, <1>2, <1>3, <1>4, <1>7 DEF Sound
<1>9. mishaps' \in Nat /\ mishaps' >= mishaps
  BY DEF BuildsInv
<1>10. a.at \in Owning => a.builder = n
  BY <1>3
<1>11. MovesBoth(t, n, a, b)
  BY <1>5, <1>6, <1>8, <1>9, <1>10 DEF MovesBoth
<1> QED
  BY <1>11, BuilderMoves

LEMMA StartKeeps == \A t \in Tries : BuildsInv /\ StartBuilder(t) => BuildsInv'
<1> SUFFICES ASSUME BuildsInv, NEW t \in Tries, StartBuilder(t)  PROVE BuildsInv'
  OBVIOUS
<1>1. Sound(attempt[t]) /\ attempt[t].at = "start" /\ "start" \in Owning /\ "start" \in Working
  BY DEF BuildsInv, StartBuilder, Located, Owning, Working
<1>2. /\ SharedNet \in networks \/ Excused
      /\ OwnNet \in networks \/ Excused
  BY <1>1 DEF Sound
<1>3. CASE /\ BuilderIs(attempt[t].builder, "running") /\ StepsTo(t, "exec")
           /\ UNCHANGED mishaps
  <2>1. "exec" \in Owning /\ UNCHANGED <<order, networks, mishaps>>
    BY <1>3 DEF Owning, Working, StartBuilder
  <2> QED
    BY <1>1, <1>3, <2>1, OwnMoves
<1>4. ASSUME NEW e \in {"no-network", "docker"}, CleansUp(t, e), UNCHANGED builders,
             UNCHANGED mishaps \/ Mishap, e = "no-network" => BuilderNet \notin networks
      PROVE  BuildsInv'
  <2>1. Calm
    BY <1>4 DEF StartBuilder, Calm
  <2>2. e = "no-network" => Excused
    BY <1>2, <1>4 DEF BuilderNet
  <2> QED
    BY <1>1, <1>4, <2>1, <2>2, CleaningKeeps DEF AllowedEnd, Ends
<1> QED
  BY <1>2, <1>3, <1>4 DEF StartBuilder

LEMMA WithoutKeeps == \A t \in Tries :
  BuildsInv /\ WithoutBuilder(t) /\ JobOnly /\ attempt[t].at \in Working => BuildsInv'
<1> SUFFICES ASSUME BuildsInv, NEW t \in Tries, WithoutBuilder(t), JobOnly,
                    attempt[t].at \in Working
             PROVE  BuildsInv'
  OBVIOUS
<1>1. Calm /\ attempt[t].at \in Owning
  BY DEF WithoutBuilder, JobOnly, Calm, Owning
<1> QED
  BY <1>1, CleaningKeeps DEF WithoutBuilder, AllowedEnd, Ends

LEMMA ExecKeeps == \A t \in Tries : BuildsInv /\ ExecScript(t) => BuildsInv'
<1> SUFFICES ASSUME BuildsInv, NEW t \in Tries, ExecScript(t)  PROVE BuildsInv'
  OBVIOUS
<1>1. /\ Sound(attempt[t]) /\ attempt[t].at = "exec" /\ "exec" \in Owning /\ "exec" \in Working
      /\ JobOnly
  BY DEF BuildsInv, ExecScript, Located, Owning, Working
<1>2. CASE StepsTo(t, "script") /\ UNCHANGED mishaps
  <2>1. Calm
    BY <1>1, <1>2 DEF JobOnly, Calm
  <2>2. /\ order.text \notin {"bad-name", "lines"}
        /\ SharedNet \in networks \/ Excused
        /\ OwnNet \in networks \/ Excused
    BY <1>1 DEF Sound
  <2>3. Excused = Excused' /\ networks' = networks
    BY <1>1, <1>2 DEF Excused, JobOnly
  <2>4. "script" \in BuildPlaces /\ "script" \in Owning
    BY DEF BuildPlaces, Owning, Working
  <2> QED
    BY <1>1, <1>2, <2>1, <2>2, <2>3, <2>4, GoingOn
<1>3. CASE WithoutBuilder(t)
  BY <1>1, <1>3, WithoutKeeps
<1>4. CASE Mishap /\ CleansUp(t, "docker")
  <2>1. Calm
    BY <1>1, <1>4 DEF JobOnly, Calm
  <2> QED
    BY <1>1, <1>4, <2>1, CleaningKeeps DEF AllowedEnd, Ends
<1> QED
  BY <1>2, <1>3, <1>4 DEF ExecScript

LEMMA ScriptKeeps == \A t \in Tries : BuildsInv /\ RunScript(t) => BuildsInv'
<1> SUFFICES ASSUME BuildsInv, NEW t \in Tries, RunScript(t)  PROVE BuildsInv'
  OBVIOUS
<1>1. /\ Sound(attempt[t]) /\ attempt[t].at = "script"
      /\ "script" \in Owning /\ "script" \in Working /\ JobOnly
  BY DEF BuildsInv, RunScript, Located, Owning, Working
<1>2. ASSUME NEW e, AllowedEnd(e), CleansUp(t, e), UNCHANGED mishaps \/ Mishap
      PROVE  BuildsInv'
  <2>1. Calm
    BY <1>1, <1>2 DEF JobOnly, Calm
  <2> QED
    BY <1>1, <1>2, <2>1, CleaningKeeps
<1>3. /\ order.text \notin {"bad-name", "lines"}
      /\ SharedNet \in networks \/ Excused
      /\ OwnNet \in networks \/ Excused
  BY <1>1 DEF Sound
<1>4. order.text \in {"spaced", "long-command"}
      \/ (DockerParses(BuildNodeService) /\ DockerParses(BuildStaticSite))
  BY <1>3, WordsParse
<1>5. AllowedEnd("built") /\ AllowedEnd("its-own") /\ AllowedEnd("docker")
  BY DEF AllowedEnd, Ends
<1>6. CASE BuildService(t) \/ BuildSite(t)
  <2>1. \/ CleansUp(t, "built")
        \/ CleansUp(t, "parse-error") /\ order.text \in {"spaced", "long-command"}
    BY <1>4, <1>6 DEF BuildService, BuildSite, DockerBuild
  <2>2. order.text \in {"spaced", "long-command"} => AllowedEnd("parse-error")
    BY DEF AllowedEnd, Ends
  <2>3. UNCHANGED mishaps \/ Mishap
    BY DEF RunScript, WithoutBuilder
  <2> QED
    BY <1>2, <1>5, <2>1, <2>2, <2>3
<1>7. CASE ComposeUp(t)
  <2>1. (OverrideNetworks \subseteq networks) \/ Excused
    BY <1>3 DEF OverrideNetworks
  <2>2. Excused => AllowedEnd("no-network")
    BY DEF AllowedEnd, Ends
  <2>3. UNCHANGED mishaps \/ Mishap
    BY DEF RunScript, WithoutBuilder
  <2> QED
    BY <1>2, <1>5, <1>7, <2>1, <2>2, <2>3 DEF ComposeUp
<1>8. CASE WithoutBuilder(t)
  BY <1>1, <1>8, WithoutKeeps
<1> QED
  BY <1>2, <1>5, <1>6, <1>7, <1>8 DEF RunScript

LEMMA InspectKeeps == \A t \in Tries : BuildsInv /\ InspectBuilder(t) => BuildsInv'
<1> SUFFICES ASSUME BuildsInv, NEW t \in Tries, InspectBuilder(t)  PROVE BuildsInv'
  OBVIOUS
<1>1. Sound(attempt[t]) /\ attempt[t].at = "inspect" /\ "inspect" \in Owning
  BY DEF BuildsInv, InspectBuilder, Located, Owning
<1>2. Calm
  BY DEF InspectBuilder, GivesUp, Calm
<1>3. ASSUME NEW p \in {"stop", "remove"}, StepsTo(t, p)
      PROVE  BuildsInv'
  <2>1. order.text \notin {"bad-name", "lines"}
    BY <1>1 DEF Sound
  <2>2. p \in BuildPlaces /\ p \notin Working /\ p \notin {"list-own", "make-own", "image", "create"}
    BY <1>3 DEF BuildPlaces, Working
  <2>3. p \in Owning
    BY <1>3 DEF Owning
  <2> QED
    BY <1>1, <1>2, <1>3, <2>1, <2>2, <2>3, GoingOn
<1>4. CASE Finished(t)
  <2>1. AllowedEnd(attempt[t].end)
    BY <1>1 DEF Sound, AllowedEnd, BuildsInv, AttemptRow
  <2> QED
    BY <1>2, <1>4, <2>1, EndsKeep DEF Finished
<1> QED
  BY <1>3, <1>4 DEF InspectBuilder, GivesUp

(* A try that ends as it did, once its builder has been seen to.           *)
LEMMA FinishKeeps ==
  ASSUME BuildsInv, NEW t \in Tries, attempt[t].at \in Owning, Finished(t),
         UNCHANGED <<order, networks>>, UNCHANGED mishaps \/ Mishap,
         NEW is \in {"over", "removed"},
         UNCHANGED builders \/ BuilderIs(attempt[t].builder, is)
  PROVE  BuildsInv'
<1>1. attempt[t] \in AttemptRow /\ Sound(attempt[t])
  BY DEF BuildsInv
<1>2. AllowedEnd(attempt[t].end)
  BY <1>1 DEF Sound, AllowedEnd, AttemptRow
<1>3. CASE UNCHANGED builders
  BY <1>2, <1>3, EndsKeep DEF Finished, Calm
<1>4. CASE BuilderIs(attempt[t].builder, is)
  <2>1. PICK n \in BuilderIds : n = attempt[t].builder
    BY <1>1 DEF Sound
  <2>2. PICK e \in Ends : e = attempt[t].end
    BY <1>1 DEF AttemptRow
  <2>3. PICK a \in AttemptRow : a.at = "idle" /\ a.end = e /\ a.builder = 0 /\ a = Idle(e)
    BY DEF Idle, AttemptRow, BuildPlaces
  <2>4. PICK b \in BuilderRow : b = [builders[n] EXCEPT !.is = is]
    <3>1. builders[n] \in BuilderRow
      BY DEF BuildsInv
    <3> QED
      BY <3>1 DEF BuilderRow
  <2>5. attempt' = [attempt EXCEPT ![t] = a] /\ builders' = [builders EXCEPT ![n] = b]
    BY <1>4, <2>1, <2>2, <2>3, <2>4 DEF Finished, Ended, BuilderIs
  <2>6. \A u \in Tries \ {t} : attempt[u].at \in Owning => attempt[u].builder # n
    BY <2>1 DEF BuildsInv, OneOwner
  <2>7. mishaps' \in Nat /\ mishaps' >= mishaps /\ mishaps \in Nat
    BY MishapsCount DEF BuildsInv
  <2>8. a.at \notin Owning /\ a.at \notin Working
    BY <2>3 DEF Owning, Working
  <2>9. Excused => Excused'
    BY <2>7 DEF Excused
  <2>10. Sound(a)'
    BY <1>2, <2>2, <2>3, <2>8, <2>9 DEF Sound, AllowedEnd
  <2>11. MovesBoth(t, n, a, b)
    BY <2>5, <2>6, <2>7, <2>8, <2>10 DEF MovesBoth
  <2> QED
    BY <2>11, BuilderMoves
<1> QED
  BY <1>3, <1>4

LEMMA StopKeeps == \A t \in Tries : BuildsInv /\ StopBuilder(t) => BuildsInv'
<1> SUFFICES ASSUME BuildsInv, NEW t \in Tries, StopBuilder(t)  PROVE BuildsInv'
  OBVIOUS
<1>1. /\ Sound(attempt[t]) /\ attempt[t].at = "stop" /\ "stop" \in Owning /\ "remove" \in Owning
      /\ "remove" \notin Working /\ "stop" \notin Working
      /\ "remove" \in BuildPlaces
      /\ UNCHANGED <<order, networks>>
  BY DEF BuildsInv, StopBuilder, Located, Owning, Working, BuildPlaces
<1>2. ASSUME NEW is \in {"removed", "exited"}, BuilderIs(attempt[t].builder, is),
             StepsTo(t, "remove"), UNCHANGED mishaps
      PROVE  BuildsInv'
  BY <1>1, <1>2, OwnMoves
<1>3. CASE StepsTo(t, "remove") /\ UNCHANGED <<builders, mishaps>>
  <2>1. Calm /\ order.text \notin {"bad-name", "lines"}
    BY <1>1, <1>3 DEF Calm, Sound
  <2> QED
    BY <1>1, <1>3, <2>1, GoingOn
<1>4. CASE Finished(t) /\ UNCHANGED builders /\ (UNCHANGED mishaps \/ Mishap)
  BY <1>1, <1>4, FinishKeeps
<1> QED
  BY <1>2, <1>3, <1>4 DEF StopBuilder, GivesUp

LEMMA RemoveKeeps == \A t \in Tries : BuildsInv /\ RemoveBuilder(t) => BuildsInv'
<1> SUFFICES ASSUME BuildsInv, NEW t \in Tries, RemoveBuilder(t)  PROVE BuildsInv'
  OBVIOUS
<1>1. /\ attempt[t].at \in Owning /\ UNCHANGED <<order, networks>>
      /\ Finished(t) /\ (UNCHANGED mishaps \/ Mishap)
  BY DEF RemoveBuilder, GivesUp, Located, Owning
<1>2. PICK is \in {"over", "removed"} :
        UNCHANGED builders \/ BuilderIs(attempt[t].builder, is)
  BY DEF RemoveBuilder
<1> QED
  BY <1>1, <1>2, FinishKeeps

(* A builder's hour ends.                                                  *)
LEMMA HourKeeps == \A n \in BuilderIds : BuildsInv /\ HourPasses(n) => BuildsInv'
<1> SUFFICES ASSUME BuildsInv, NEW n \in BuilderIds, HourPasses(n)  PROVE BuildsInv'
  OBVIOUS
<1>1. PICK b \in BuilderRow : b.is \in {"over", "exited"} /\ builders' = [builders EXCEPT ![n] = b]
  <2>1. builders[n] \in BuilderRow
    BY DEF BuildsInv
  <2>2. PICK is \in {"over", "exited"} : BuilderIs(n, is)
    BY DEF HourPasses
  <2>3. PICK b \in BuilderRow : b.is = is /\ b = [builders[n] EXCEPT !.is = is]
    BY <2>1 DEF BuilderRow
  <2> QED
    BY <2>2, <2>3 DEF BuilderIs
<1>2. /\ builders' \in [BuilderIds -> BuilderRow]
      /\ \A m \in BuilderIds : builders'[m].is = builders[m].is \/ builders'[m].is \in {"over", "exited"}
  BY <1>1 DEF BuildsInv
<1>3. UNCHANGED <<order, attempt, networks, mishaps>> /\ Excused' = Excused
  BY DEF HourPasses, Excused
<1>4. ASSUME NEW t \in Tries
      PROVE  Sound(attempt[t])'
  <2>1. Sound(attempt[t]) /\ Working \subseteq Owning
    BY DEF BuildsInv, Owning
  <2>2. attempt[t].at \in Owning =>
          attempt[t].builder \in BuilderIds /\ builders'[attempt[t].builder].is # "unused"
    BY <1>2, <2>1 DEF Sound
  <2> QED
    BY <1>3, <2>1, <2>2 DEF Sound
<1>5. OneOwner'
  BY <1>3 DEF OneOwner, BuildsInv
<1> QED
  BY <1>2, <1>3, <1>4, <1>5 DEF BuildsInv

LEMMA DyingKeeps == \A t \in Tries : BuildsInv /\ BuildDies(t) => BuildsInv'
<1> SUFFICES ASSUME BuildsInv, NEW t \in Tries, BuildDies(t)  PROVE BuildsInv'
  OBVIOUS
<1>1. Calm
  BY DEF BuildDies, Calm
<1> QED
  BY <1>1, EndsKeep DEF BuildDies, AllowedEnd, Ends

LEMMA BuildsKept == BuildsInv /\ [BuildsNext]_buildsVars => BuildsInv'
<1> SUFFICES ASSUME BuildsInv, [BuildsNext]_buildsVars  PROVE BuildsInv'
  OBVIOUS
<1>1. ASSUME NEW t \in Tries,
             \/ Deliver(t) \/ ValidateAndChoose(t) \/ PullImage(t) \/ PullDatabase(t)
             \/ EnsureNetworks(t) \/ EnsureImageExists(t)
      PROVE  BuildsInv'
  BY <1>1, DeliverKeeps, ChoiceKeeps, PullKeeps, NetworksKeep, ImageKeeps
     DEF PullImage, PullDatabase
<1>2. ASSUME NEW t \in Tries,
             \/ CreateBuilder(t) \/ StartBuilder(t) \/ ExecScript(t) \/ RunScript(t)
             \/ InspectBuilder(t) \/ StopBuilder(t) \/ RemoveBuilder(t) \/ BuildDies(t)
      PROVE  BuildsInv'
  BY <1>2, CreateKeeps, StartKeeps, ExecKeeps, ScriptKeeps, InspectKeeps, StopKeeps,
     RemoveKeeps, DyingKeeps
<1>3. CASE \E n \in BuilderIds : HourPasses(n)
  BY <1>3, HourKeeps
<1>4. CASE UNCHANGED buildsVars
  <2>1. UNCHANGED <<order, attempt, builders, networks, mishaps>>
    BY <1>4 DEF buildsVars
  <2>2. Excused' = Excused
    BY <2>1 DEF Excused
  <2>3. \A t \in Tries : Sound(attempt[t])'
    BY <2>1, <2>2 DEF BuildsInv, Sound
  <2> QED
    BY <2>1, <2>3 DEF BuildsInv, OneOwner
<1> QED
  BY <1>1, <1>2, <1>3, <1>4 DEF BuildsNext

(* A builder that is there is held by a try, or was left.                  *)
Held ==
  /\ leftovers \subseteq BuilderIds
  /\ \A n \in BuilderIds : Present(n) => n \in leftovers \/ \E t \in Tries : attempt[t].builder = n

(* A step that gives no builder up but one it leaves or has removed.       *)
LEMMA HeldOn ==
  ASSUME Held, leftovers \subseteq leftovers', leftovers' \subseteq BuilderIds,
         \A n \in BuilderIds :
           Present(n)' => Present(n) \/ \E t \in Tries : attempt'[t].builder = n,
         \A t \in Tries, n \in BuilderIds : attempt[t].builder = n =>
           attempt'[t].builder = n \/ n \in leftovers' \/ ~Present(n)'
  PROVE  Held'
<1> SUFFICES ASSUME NEW n \in BuilderIds, Present(n)', n \notin leftovers'
             PROVE  \E t \in Tries : attempt'[t].builder = n
  BY DEF Held
<1>1. CASE Present(n)
  <2>1. PICK t \in Tries : attempt[t].builder = n
    BY <1>1 DEF Held
  <2> QED
    BY <2>1
<1>2. CASE ~Present(n)
  BY <1>2
<1> QED
  BY <1>1, <1>2

(* What becomes of the builders when one of them becomes something else.   *)
LEMMA OnlyThat ==
  ASSUME BuildsInv, NEW n \in BuilderIds, NEW is, BuilderIs(n, is)
  PROVE  /\ Present(n)' <=> is \in {"created", "running", "exited"}
         /\ \A m \in BuilderIds : m # n => (Present(m)' <=> Present(m))
<1>1. builders[n] \in BuilderRow
  BY DEF BuildsInv
<1>2. builders'[n].is = is /\ \A m \in BuilderIds : m # n => builders'[m] = builders[m]
  BY <1>1 DEF BuilderIs, BuildsInv, BuilderRow
<1> QED
  BY <1>2 DEF Present

(* A try that keeps what builder it has.                                   *)
LEMMA KeepsBuilder ==
  ASSUME BuildsInv, NEW t \in Tries, NEW p, NEW e,
         StepsTo(t, p) \/ CleansUp(t, e)
  PROVE  \A u \in Tries : attempt'[u].builder = attempt[u].builder
BY DEF BuildsInv, StepsTo, CleansUp, AttemptRow

(* A try that ends.                                                        *)
LEMMA GivesBuilder ==
  ASSUME BuildsInv, NEW t \in Tries, NEW e, Ended(t, e)
  PROVE  /\ \A u \in Tries \ {t} : attempt'[u].builder = attempt[u].builder
         /\ attempt[t].builder \in BuilderIds \cup {0}
BY DEF BuildsInv, Ended, AttemptRow

LEMMA HeldBegins == BuildsInit => Held
BY DEF BuildsInit, Held, Present, Builder

(* Before a try has created its builder it has none to leave.              *)
LEMMA HeldBefore ==
  ASSUME BuildsInv, Held, NEW t \in Tries,
         \/ Deliver(t) \/ ValidateAndChoose(t) \/ PullImage(t) \/ PullDatabase(t)
         \/ EnsureNetworks(t) \/ EnsureImageExists(t)
  PROVE  Held'
<1>1. attempt[t].at \notin Owning /\ Sound(attempt[t])
  BY DEF BuildsInv, Deliver, ValidateAndChoose, PullImage, PullDatabase, Pulls, EnsureNetworks,
     EnsureNetworkExists, EnsureImageExists, Located, Owning, Working
<1>2. attempt[t].builder = 0 /\ 0 \notin BuilderIds
  BY <1>1 DEF Sound, BuilderIds
<1>3. \A u \in Tries \ {t} : attempt'[u].builder = attempt[u].builder
  BY DEF BuildsInv, Deliver, ValidateAndChoose, PullImage, PullDatabase, Pulls, EnsureNetworks,
     EnsureNetworkExists, EnsureImageExists, StepsTo, Ended
<1>4. UNCHANGED <<builders, leftovers>>
  BY DEF Deliver, ValidateAndChoose, PullImage, PullDatabase, Pulls, EnsureNetworks,
     EnsureNetworkExists, EnsureImageExists, JobOnly
<1> QED
  BY <1>2, <1>3, <1>4, HeldOn DEF Held, Present

LEMMA HeldCreating ==
  ASSUME BuildsInv, Held, NEW t \in Tries, CreateBuilder(t)
  PROVE  Held'
<1>1. attempt[t].at \notin Owning /\ Sound(attempt[t]) /\ attempt[t] \in AttemptRow
  BY DEF BuildsInv, CreateBuilder, Located, Owning, Working
<1>2. attempt[t].builder = 0 /\ 0 \notin BuilderIds /\ UNCHANGED leftovers
  BY <1>1 DEF Sound, BuilderIds, CreateBuilder
<1>3. CASE CreatesNew(t)
  <2>1. PICK n \in BuilderIds :
          /\ builders' = [builders EXCEPT ![n] = Builder("created", order.type = "COMPOSE")]
          /\ attempt' = [attempt EXCEPT ![t].at = "start", ![t].builder = n]
    BY <1>3 DEF CreatesNew
  <2>2. /\ attempt'[t].builder = n
        /\ \A u \in Tries \ {t} : attempt'[u].builder = attempt[u].builder
    BY <1>1, <2>1 DEF BuildsInv, AttemptRow
  <2>3. \A m \in BuilderIds \ {n} : Present(m)' <=> Present(m)
    BY <2>1 DEF BuildsInv, Present
  <2> QED
    BY <1>2, <2>2, <2>3, HeldOn DEF Held
<1>4. ASSUME NEW e, Ended(t, e), UNCHANGED builders  PROVE Held'
  BY <1>2, <1>4, GivesBuilder, HeldOn DEF Held, Present
<1> QED
  BY <1>3, <1>4 DEF CreateBuilder

LEMMA HeldWorking ==
  ASSUME BuildsInv, Held, NEW t \in Tries, StartBuilder(t) \/ ExecScript(t) \/ RunScript(t)
  PROVE  Held'
<1>1. UNCHANGED leftovers /\ attempt[t].at \in Owning /\ Sound(attempt[t])
  BY DEF BuildsInv, StartBuilder, ExecScript, RunScript, JobOnly, Located, Owning, Working
<1>2. PICK n \in BuilderIds : n = attempt[t].builder
  BY <1>1 DEF Sound
<1>3. \A u \in Tries : attempt'[u].builder = attempt[u].builder
  <2>1. \E p \in BuildPlaces, e \in Ends : StepsTo(t, p) \/ CleansUp(t, e)
    BY DEF StartBuilder, ExecScript, RunScript, WithoutBuilder, BuildService, BuildSite,
       DockerBuild, ComposeUp, BuildPlaces, Ends
  <2> QED
    BY <2>1, KeepsBuilder
<1>4. UNCHANGED builders \/ BuilderIs(n, "running")
  BY <1>2 DEF StartBuilder, ExecScript, RunScript, JobOnly
<1>5. CASE UNCHANGED builders
  BY <1>1, <1>3, <1>5, HeldOn DEF Held, Present
<1>6. CASE BuilderIs(n, "running")
  <2>1. \A m \in BuilderIds : Present(m)' => Present(m) \/ attempt'[t].builder = m
    BY <1>2, <1>3, <1>6, OnlyThat
  <2> QED
    BY <1>1, <1>3, <2>1, HeldOn DEF Held
<1> QED
  BY <1>4, <1>5, <1>6

(* A try that is done with its builder: it is gone, or left.               *)
LEMMA HeldCleaning ==
  ASSUME BuildsInv, Held, NEW t \in Tries,
         InspectBuilder(t) \/ StopBuilder(t) \/ RemoveBuilder(t) \/ BuildDies(t)
  PROVE  Held'
<1>1. Sound(attempt[t]) /\ attempt[t].builder \in BuilderIds \cup {0}
  BY DEF BuildsInv, AttemptRow
<1>3. ASSUME NEW p, StepsTo(t, p), UNCHANGED <<builders, leftovers>>  PROVE Held'
  BY <1>3, KeepsBuilder, HeldOn DEF Held, Present
<1>4. ASSUME NEW is, NEW n \in BuilderIds, n = attempt[t].builder, Present(n),
             BuilderIs(n, is), NEW p, StepsTo(t, p), UNCHANGED leftovers
      PROVE  Held'
  <2>1. \A m \in BuilderIds : Present(m)' => Present(m)
    BY <1>4, OnlyThat
  <2> QED
    BY <1>4, <2>1, KeepsBuilder, HeldOn DEF Held
<1>5. ASSUME NEW e, Ended(t, e), UNCHANGED <<builders, leftovers>>,
             attempt[t].builder \in BuilderIds => ~Present(attempt[t].builder)
      PROVE  Held'
  BY <1>5, GivesBuilder, HeldOn DEF Held, Present
<1>6. ASSUME NEW e, Ended(t, e), UNCHANGED builders, StaysBehind(t),
             attempt[t].builder \in BuilderIds
      PROVE  Held'
  BY <1>6, GivesBuilder, HeldOn DEF Held, Present, StaysBehind
<1>7. ASSUME NEW is \in {"over", "removed"}, NEW n \in BuilderIds, n = attempt[t].builder,
             BuilderIs(n, is), NEW e, Ended(t, e), UNCHANGED leftovers
      PROVE  Held'
  <2>1. \A m \in BuilderIds : Present(m)' => Present(m) /\ m # n
    BY <1>7, OnlyThat
  <2> QED
    BY <1>7, <2>1, GivesBuilder, HeldOn DEF Held
<1>8. CASE InspectBuilder(t)
  <2>0. attempt[t].builder \in BuilderIds
    BY <1>1, <1>8 DEF Sound, InspectBuilder, Located, Owning
  <2>1. CASE GivesUp(t)
    BY <1>6, <1>8, <2>0, <2>1 DEF InspectBuilder, GivesUp, Finished
  <2>2. CASE Mine(t).is \in {"over", "removed"} /\ Finished(t) /\ UNCHANGED leftovers
    BY <1>5, <1>8, <2>2 DEF InspectBuilder, Finished, Mine, Present
  <2> QED
    BY <1>3, <1>8, <2>1, <2>2 DEF InspectBuilder
<1>9. CASE StopBuilder(t)
  <2>0. attempt[t].builder \in BuilderIds
    BY <1>1, <1>9 DEF Sound, StopBuilder, Located, Owning
  <2>1. CASE GivesUp(t) /\ UNCHANGED builders
    BY <1>6, <2>0, <2>1 DEF GivesUp, Finished
  <2>2. CASE Mine(t).is \in {"over", "removed"} /\ Finished(t) /\ UNCHANGED <<builders, leftovers>>
    BY <1>5, <2>2 DEF Finished, Mine, Present
  <2>3. CASE /\ Mine(t).is = "running" /\ UNCHANGED leftovers
             /\ BuilderIs(attempt[t].builder, IF Mine(t).auto THEN "removed" ELSE "exited")
             /\ StepsTo(t, "remove")
    BY <1>4, <2>0, <2>3 DEF Mine, Present
  <2> QED
    BY <1>3, <1>9, <2>1, <2>2, <2>3 DEF StopBuilder
<1>10. CASE RemoveBuilder(t)
  <2>0. attempt[t].builder \in BuilderIds
    BY <1>1, <1>10 DEF Sound, RemoveBuilder, Located, Owning
  <2>1. CASE GivesUp(t) /\ UNCHANGED builders
    BY <1>6, <2>0, <2>1 DEF GivesUp, Finished
  <2>2. CASE /\ BuilderIs(attempt[t].builder, IF Mine(t).is = "over" THEN "over" ELSE "removed")
             /\ Finished(t) /\ UNCHANGED leftovers
    BY <1>7, <2>0, <2>2 DEF Finished
  <2> QED
    BY <1>10, <2>1, <2>2 DEF RemoveBuilder
<1>11. CASE BuildDies(t)
  <2>1. CASE attempt[t].builder = 0
    BY <1>5, <1>11, <2>1 DEF BuildDies, BuilderIds
  <2>2. CASE attempt[t].builder # 0
    BY <1>1, <1>6, <1>11, <2>2 DEF BuildDies
  <2> QED
    BY <2>1, <2>2
<1> QED
  BY <1>8, <1>9, <1>10, <1>11

LEMMA HeldKept == BuildsInv /\ Held /\ [BuildsNext]_buildsVars => Held'
<1> SUFFICES ASSUME BuildsInv, Held, [BuildsNext]_buildsVars  PROVE Held'
  OBVIOUS
<1>1. CASE UNCHANGED buildsVars
  BY <1>1 DEF buildsVars, Held, Present
<1>2. ASSUME NEW n \in BuilderIds, HourPasses(n)  PROVE Held'
  <2>1. PICK is : BuilderIs(n, is)
    BY <1>2 DEF HourPasses
  <2>2. \A m \in BuilderIds : Present(m)' => Present(m)
    BY <1>2, <2>1, OnlyThat DEF HourPasses, Present
  <2> QED
    BY <1>2, <2>2, HeldOn DEF HourPasses, Held
<1> QED
  BY <1>1, <1>2, HeldBefore, HeldCreating, HeldWorking, HeldCleaning DEF BuildsNext

(* However many tries of one deployment run at once: the name of the       *)
(* builder, at which a try fails, is that of a try at work or of one that  *)
(* died or could not remove it (DockerDeploymentStrategy.ts:134, 235); a   *)
(* network is there unless Docker failed or a longer name hid that it was  *)
(* missing; and what is generated for validated variables parses unless a  *)
(* value has blanks or a command several lines.                            *)
THEOREM FailuresAreExplained == BuildsSpec => []FailuresExplained
<1>1. BuildsInv /\ Held => FailuresExplained
  BY DEF BuildsInv, Sound, Held, FailuresExplained, Excused
<1> QED
  BY <1>1, BuildsBegin, BuildsKept, HeldBegins, HeldKept, PTL DEF BuildsSpec

-------------------------------------------------------------------------------
(* What is counted stays within its bound, and only Docker's networks are  *)
(* made.                                                                   *)
BuildsCounts ==
  networks \subseteq Networks /\ tries \in 0 .. MaxTries /\ mishaps \in 0 .. MaxMishaps

LEMMA BuildsCountsBegin == BuildsInit => BuildsCounts
BY BuildsAssumption DEF BuildsInit, BuildsCounts

LEMMA BuildsCountsKept == BuildsCounts /\ [BuildsNext]_buildsVars => BuildsCounts'
<1> SUFFICES ASSUME BuildsCounts, [BuildsNext]_buildsVars  PROVE BuildsCounts'
  OBVIOUS
<1> DEFINE Counts == /\ UNCHANGED tries
                     /\ UNCHANGED mishaps \/ Mishap
                     /\ UNCHANGED networks \/ \E net \in Networks : networks' = networks \cup {net}
<1>1. ASSUME Counts  PROVE BuildsCounts'
  <2>1. mishaps' \in 0 .. MaxMishaps
    BY <1>1, BuildsAssumption DEF BuildsCounts, Mishap
  <2> QED
    BY <1>1, <2>1 DEF BuildsCounts
<1>2. CASE UNCHANGED buildsVars
  BY <1>1, <1>2 DEF buildsVars
<1>3. ASSUME NEW t \in Tries, Deliver(t)  PROVE BuildsCounts'
  BY <1>3, BuildsAssumption DEF Deliver, BuildsCounts
<1>4. ASSUME NEW t \in Tries, EnsureNetworks(t)  PROVE BuildsCounts'
  BY <1>1, <1>4 DEF EnsureNetworks, EnsureNetworkExists, JobOnly, Networks
<1>5. ASSUME NEW t \in Tries,
             \/ ValidateAndChoose(t) \/ PullImage(t) \/ PullDatabase(t)
             \/ EnsureImageExists(t) \/ BuildDies(t)
      PROVE  BuildsCounts'
  BY <1>1, <1>5
  DEF ValidateAndChoose, PullImage, PullDatabase, Pulls, EnsureImageExists, BuildDies, JobOnly
<1>6. ASSUME NEW t \in Tries, CreateBuilder(t) \/ StartBuilder(t)
      PROVE  BuildsCounts'
  BY <1>1, <1>6 DEF CreateBuilder, StartBuilder
<1>7. ASSUME NEW t \in Tries, ExecScript(t) \/ RunScript(t)
      PROVE  BuildsCounts'
  BY <1>1, <1>7 DEF ExecScript, RunScript, WithoutBuilder, JobOnly
<1>8. ASSUME NEW t \in Tries, InspectBuilder(t) \/ StopBuilder(t) \/ RemoveBuilder(t)
      PROVE  BuildsCounts'
  BY <1>1, <1>8 DEF InspectBuilder, StopBuilder, RemoveBuilder, GivesUp
<1>9. ASSUME NEW n \in BuilderIds, HourPasses(n)  PROVE BuildsCounts'
  BY <1>1, <1>9 DEF HourPasses
<1> QED
  BY <1>2, <1>3, <1>4, <1>5, <1>6, <1>7, <1>8, <1>9 DEF BuildsNext

(* A try is always at one of its places, with a builder or none, and ends  *)
(* in one of the ways the worker tells apart; no builder or network is of  *)
(* another kind than the strategies make.                                  *)
THEOREM BuildsTypeCorrect == BuildsSpec => []BuildsTypeOK
<1>1. BuildsInv /\ Held /\ BuildsCounts => BuildsTypeOK
  BY DEF BuildsInv, Held, BuildsCounts, BuildsTypeOK, AttemptRow, BuilderRow
<1> QED
  BY <1>1, BuildsBegin, BuildsKept, HeldBegins, HeldKept, BuildsCountsBegin, BuildsCountsKept,
     PTL DEF BuildsSpec

-------------------------------------------------------------------------------
(***************************************************************************)
(* Previews: a pull request that is closed leaves no preview. As long as   *)
(* nothing went wrong, the handler of 'closed' is alone and has the only   *)
(* live row, if there is one.                                              *)
(***************************************************************************)

PreviewEntry ==
  [is : {"unused", "live", "deleted", "gone"}, site : Sites \cup {NoSite}, ours : BOOLEAN]
HandlerEntry == [at : HandlerPlaces, n : Nat, site : Sites \cup {NoSite}, row : Nat]
Closing == {"preview", "resources", "rows"}
Opening == {"base", "existing", "update", "create", "deploy"}
Sited == {"existing", "update", "create", "deploy"}
IsClosed(n) == events[n] = "closed"

PreviewsTyped ==
  /\ bases \subseteq Sites /\ preview \in [PreviewRows -> PreviewEntry]
  /\ events \in Seq({"opened", "synchronize", "closed", "reopened"})
  /\ begun \subseteq DOMAIN events /\ handler \in [Handlers -> HandlerEntry]
  /\ calm \in BOOLEAN

(* Where a request is says what its event is.                              *)
EventInv == \A h \in Handlers :
  /\ handler[h].at = "ready" => handler[h] = Ready
  /\ handler[h].at # "ready" =>
       /\ handler[h].n \in begun
       /\ handler[h].at \in Closing <=> IsClosed(handler[h].n)
  /\ handler[h].at \in {"resources", "rows"} => handler[h].row \in PreviewRows

(* One row has a name, and none is ours before the pull request is there.  *)
NameInv ==
  /\ \A i, j \in PreviewRows :
       InRow(i) /\ InRow(j) /\ preview[i].site = preview[j].site => i = j
  /\ events = <<>> => \A i \in PreviewRows : ~preview[i].ours

(* In calm: there is one base, which requests and our rows are of.         *)
IsOnly(s) ==
  /\ bases \subseteq {s}
  /\ \A h \in Handlers : handler[h].at \in Sited => handler[h].site = s
  /\ \A i \in PreviewRows : preview[i].ours => preview[i].site = s
OneSite == \E s \in Sites : IsOnly(s)

(* When 'closed' has begun so have the events before it, and those are     *)
(* over.                                                                   *)
InOrder == \A n \in begun : IsClosed(n) =>
  /\ 1 .. n \subseteq begun
  /\ \A h \in Handlers : handler[h].at # "ready" => handler[h].n >= n

(* Its request is alone and has the only preview that is live.             *)
ClosingInv == \A h \in Handlers : handler[h].at \in Closing =>
  /\ \A g \in Handlers \ {h} : handler[g].at = "ready"
  /\ handler[h].at \in {"resources", "rows"} => LivePreviews \subseteq {handler[h].row}

(* Once it is over, none is left until another event comes.                *)
ClosedInv == \A n \in begun :
  IsClosed(n) /\ begun \subseteq 1 .. n /\ (\A h \in Handlers : handler[h].at = "ready")
    => LivePreviews = {}

CalmInv == OneSite /\ InOrder /\ ClosingInv /\ ClosedInv
PreviewsInv == PreviewsTyped /\ EventInv /\ NameInv /\ (calm => CalmInv)
-------------------------------------------------------------------------------
LEMMA ReadyEntry == Ready \in HandlerEntry /\ Ready.at = "ready" /\ Ready.n = 0
BY DEF Ready, Handling, HandlerEntry, HandlerPlaces

LEMMA PreviewsBegin == PreviewsInit => PreviewsInv
<1> SUFFICES ASSUME PreviewsInit  PROVE PreviewsInv
  OBVIOUS
<1>1. Blank \in PreviewEntry /\ Blank.is = "unused" /\ ~Blank.ours
  BY DEF Blank, PreviewRow, PreviewEntry
<1>2. PICK s \in Sites : bases = {s}
  BY DEF PreviewsInit
<1>3. PreviewsTyped
  BY <1>1, <1>2, ReadyEntry DEF PreviewsInit, PreviewsTyped
<1>4. EventInv /\ NameInv
  BY <1>1, ReadyEntry DEF PreviewsInit, EventInv, NameInv, InRow
<1>5. IsOnly(s)
  BY <1>1, <1>2, ReadyEntry DEF PreviewsInit, IsOnly, Sited
<1>6. InOrder /\ ClosingInv /\ ClosedInv
  BY ReadyEntry DEF PreviewsInit, InOrder, ClosingInv, ClosedInv, Closing
<1> QED
  BY <1>3, <1>4, <1>5, <1>6 DEF PreviewsInv, CalmInv, OneSite

(* One request moves; nothing else changes.                                *)
Moving(h, e) ==
  /\ handler' = [handler EXCEPT ![h] = e]
  /\ UNCHANGED <<bases, preview, events, begun>> /\ calm' \in BOOLEAN /\ (calm' => calm)
  /\ e.at = "ready" => e = Ready
  /\ e.at # "ready" => /\ handler[h].at # "ready" /\ e.n = handler[h].n
                       /\ e.at \in Closing <=> handler[h].at \in Closing
  /\ e.at \in {"resources", "rows"} => e.row \in PreviewRows
  /\ calm' =>
       /\ e.at \in Sited => \A s \in Sites : IsOnly(s) => e.site = s
       /\ e.at \in {"resources", "rows"} => LivePreviews \subseteq {e.row}
       /\ e.at = "ready" /\ handler[h].at \in Closing => LivePreviews = {}

LEMMA MovingKeeps ==
  ASSUME PreviewsInv, NEW h \in Handlers, NEW e \in HandlerEntry, Moving(h, e)
  PROVE  PreviewsInv'
<1>1. /\ handler' \in [Handlers -> HandlerEntry] /\ handler'[h] = e
      /\ \A g \in Handlers \ {h} : handler'[g] = handler[g]
  BY DEF Moving, PreviewsInv, PreviewsTyped
<1>2. PreviewsTyped'
  BY <1>1 DEF Moving, PreviewsInv, PreviewsTyped
<1>3. EventInv'
  BY <1>1 DEF Moving, PreviewsInv, EventInv, IsClosed
<1>4. NameInv'
  BY DEF Moving, PreviewsInv, NameInv, InRow
<1>5. LivePreviews' = LivePreviews
  BY DEF Moving, LivePreviews
<1>6. ASSUME calm'  PROVE CalmInv'
  <2>1. CalmInv
    BY <1>6 DEF Moving, PreviewsInv
  <2>2. OneSite'
    <3>1. PICK s \in Sites : IsOnly(s)
      BY <2>1 DEF CalmInv, OneSite
    <3>2. IsOnly(s)'
      BY <1>1, <1>6, <3>1 DEF IsOnly, Moving
    <3> QED
      BY <3>2 DEF OneSite
  <2>3. InOrder'
    BY <1>1, <2>1 DEF CalmInv, InOrder, Moving, IsClosed
  <2>4. ClosingInv'
    BY <1>1, <1>5, <1>6, <2>1 DEF CalmInv, ClosingInv, Moving, Closing
  <2>5. ClosedInv'
    <3> SUFFICES ASSUME NEW n \in begun, IsClosed(n), begun \subseteq 1 .. n,
                        \A g \in Handlers : handler'[g].at = "ready"
                 PROVE  LivePreviews = {}
      BY <1>5 DEF ClosedInv, Moving, IsClosed
    <3>1. \A g \in Handlers \ {h} : handler[g].at = "ready"
      BY <1>1
    <3>2. CASE handler[h].at = "ready"
      BY <2>1, <3>1, <3>2 DEF CalmInv, ClosedInv
    <3>3. CASE handler[h].at # "ready"
      <4>1. handler[h].n \in begun /\ (handler[h].at \in Closing <=> IsClosed(handler[h].n))
        BY <3>3 DEF PreviewsInv, EventInv
      <4>2. handler[h].n >= n /\ handler[h].n \in 1 .. n /\ n \in Nat /\ handler[h].n \in Nat
        BY <2>1, <3>3, <4>1 DEF CalmInv, InOrder, PreviewsInv, PreviewsTyped, HandlerEntry
      <4>3. handler[h].n = n
        BY <4>2
      <4> QED
        BY <1>1, <1>6, <4>1, <4>3 DEF Moving
    <3> QED
      BY <3>2, <3>3
  <2> QED
    BY <2>2, <2>3, <2>4, <2>5 DEF CalmInv
<1> QED
  BY <1>2, <1>3, <1>4, <1>6 DEF PreviewsInv

-------------------------------------------------------------------------------
(* The entries requests get.                                               *)
LEMMA EntryMoved ==
  ASSUME NEW a \in HandlerEntry, NEW p \in HandlerPlaces
  PROVE  LET e == [a EXCEPT !.at = p] IN
         e \in HandlerEntry /\ e.at = p /\ e.n = a.n /\ e.site = a.site /\ e.row = a.row
BY DEF HandlerEntry

LEMMA EntrySited ==
  ASSUME NEW a \in HandlerEntry, NEW s \in Sites
  PROVE  LET e == [a EXCEPT !.at = "existing", !.site = s] IN
         e \in HandlerEntry /\ e.at = "existing" /\ e.n = a.n /\ e.site = s
BY DEF HandlerEntry, HandlerPlaces

LEMMA EntryOfRow ==
  ASSUME NEW a \in HandlerEntry, NEW p \in {"update", "resources"}, NEW i \in PreviewRows
  PROVE  LET e == [a EXCEPT !.at = p, !.row = i] IN
         e \in HandlerEntry /\ e.at = p /\ e.n = a.n /\ e.site = a.site /\ e.row = i
BY PreviewsAssumption DEF HandlerEntry, HandlerPlaces

(* A request that ends.                                                    *)
LEMMA RespondingKeeps ==
  ASSUME PreviewsInv, NEW h \in Handlers, Responds(h),
         UNCHANGED <<bases, preview, events, begun>>, calm' \in BOOLEAN, calm' => calm,
         calm' /\ handler[h].at \in Closing => LivePreviews = {}
  PROVE  PreviewsInv'
<1>1. Moving(h, Ready)
  BY ReadyEntry DEF Moving, Responds, Closing, Sited
<1> QED
  BY <1>1, ReadyEntry, MovingKeeps

(* One that goes on to where it has no more to be sure of.                 *)
LEMMA ToPlaceKeeps ==
  ASSUME PreviewsInv, NEW h \in Handlers, NEW p \in Opening \cup Closing, ToPlace(h, p),
         OnlyHandler, handler[h].at # "ready",
         p \in Closing <=> handler[h].at \in Closing,
         p \in Sited => handler[h].at \in Sited,
         p \in {"resources", "rows"} => handler[h].at \in {"resources", "rows"}
  PROVE  PreviewsInv'
<1>1. handler[h] \in HandlerEntry /\ p \in HandlerPlaces /\ p # "ready"
  BY DEF PreviewsInv, PreviewsTyped, HandlerPlaces, Opening, Closing
<1>2. PICK e \in HandlerEntry :
        /\ e.at = p /\ e.n = handler[h].n /\ e.site = handler[h].site /\ e.row = handler[h].row
        /\ handler' = [handler EXCEPT ![h] = e]
  <2> DEFINE e == [handler[h] EXCEPT !.at = p]
  <2>1. e \in HandlerEntry /\ e.at = p /\ e.n = handler[h].n /\ e.site = handler[h].site
        /\ e.row = handler[h].row
    BY <1>1, EntryMoved
  <2>2. handler' = [handler EXCEPT ![h] = e]
    BY DEF ToPlace
  <2> HIDE DEF e
  <2> QED
    BY <2>1, <2>2
<1>3. p \in {"resources", "rows"} =>
        handler[h].row \in PreviewRows /\ (calm => LivePreviews \subseteq {handler[h].row})
  BY DEF PreviewsInv, EventInv, CalmInv, ClosingInv, Closing
<1>4. calm /\ p \in Sited => \A s \in Sites : IsOnly(s) => handler[h].site = s
  BY DEF IsOnly
<1>5. Moving(h, e)
  BY <1>1, <1>2, <1>3, <1>4 DEF Moving, OnlyHandler, PreviewsInv, PreviewsTyped
<1> QED
  BY <1>5, MovingKeeps

LEMMA BaseKeeps == \A h \in Handlers : PreviewsInv /\ FindBaseService(h) => PreviewsInv'
<1> SUFFICES ASSUME PreviewsInv, NEW h \in Handlers, FindBaseService(h)  PROVE PreviewsInv'
  OBVIOUS
<1>1. /\ handler[h] \in HandlerEntry /\ handler[h].at = "base" /\ handler[h].at \notin Closing
      /\ OnlyHandler /\ calm' = calm /\ calm \in BOOLEAN
  BY DEF PreviewsInv, PreviewsTyped, FindBaseService, Awaits, Closing, OnlyHandler
<1>2. CASE Responds(h)
  BY <1>1, <1>2, RespondingKeeps DEF OnlyHandler
<1>3. ASSUME NEW s \in bases, handler' = [handler EXCEPT ![h].at = "existing", ![h].site = s]
      PROVE  PreviewsInv'
  <2>1. s \in Sites
    BY DEF PreviewsInv, PreviewsTyped
  <2>2. PICK e \in HandlerEntry :
          /\ e.at = "existing" /\ e.n = handler[h].n /\ e.site = s
          /\ handler' = [handler EXCEPT ![h] = e]
    <3> DEFINE e == [handler[h] EXCEPT !.at = "existing", !.site = s]
    <3>1. e \in HandlerEntry /\ e.at = "existing" /\ e.n = handler[h].n /\ e.site = s
      BY <1>1, <2>1, EntrySited
    <3>2. handler' = [handler EXCEPT ![h] = e]
      BY <1>3
    <3> HIDE DEF e
    <3> QED
      BY <3>1, <3>2
  <2>3. \A r \in Sites : IsOnly(r) => s = r
    BY DEF IsOnly
  <2>4. Moving(h, e)
    BY <1>1, <2>2, <2>3 DEF Moving, OnlyHandler, Closing
  <2> QED
    BY <2>4, MovingKeeps
<1> QED
  BY <1>2, <1>3 DEF FindBaseService

LEMMA ExistingKeeps == \A h \in Handlers : PreviewsInv /\ FindExisting(h) => PreviewsInv'
<1> SUFFICES ASSUME PreviewsInv, NEW h \in Handlers, FindExisting(h)  PROVE PreviewsInv'
  OBVIOUS
<1>1. /\ handler[h] \in HandlerEntry /\ handler[h].at = "existing"
      /\ OnlyHandler /\ calm' = calm /\ calm \in BOOLEAN
  BY DEF PreviewsInv, PreviewsTyped, FindExisting, Awaits, OnlyHandler
<1>2. CASE ToPlace(h, "create")
  BY <1>1, <1>2, ToPlaceKeeps DEF Opening, Closing, Sited
<1>3. ASSUME NEW i \in PreviewRows,
             handler' = [handler EXCEPT ![h].at = "update", ![h].row = i]
      PROVE  PreviewsInv'
  <2>1. PICK e \in HandlerEntry :
          /\ e.at = "update" /\ e.n = handler[h].n /\ e.site = handler[h].site
          /\ handler' = [handler EXCEPT ![h] = e]
    <3> DEFINE e == [handler[h] EXCEPT !.at = "update", !.row = i]
    <3>1. e \in HandlerEntry /\ e.at = "update" /\ e.n = handler[h].n /\ e.site = handler[h].site
      BY <1>1, EntryOfRow
    <3>2. handler' = [handler EXCEPT ![h] = e]
      BY <1>3
    <3> HIDE DEF e
    <3> QED
      BY <3>1, <3>2
  <2>2. \A s \in Sites : IsOnly(s) => handler[h].site = s
    BY <1>1 DEF IsOnly, Sited
  <2>3. Moving(h, e)
    BY <1>1, <2>1, <2>2 DEF Moving, OnlyHandler, Closing
  <2> QED
    BY <2>3, MovingKeeps
<1> QED
  BY <1>2, <1>3 DEF FindExisting

LEMMA UpdateKeeps == \A h \in Handlers :
  PreviewsInv /\ (UpdatePreview(h) \/ QueuePreview(h)) => PreviewsInv'
<1> SUFFICES ASSUME PreviewsInv, NEW h \in Handlers, UpdatePreview(h) \/ QueuePreview(h)
             PROVE  PreviewsInv'
  OBVIOUS
<1>1. /\ handler[h].at \in {"update", "deploy"} /\ handler[h].at \notin Closing
      /\ OnlyHandler /\ calm' = calm /\ calm \in BOOLEAN
  BY DEF PreviewsInv, PreviewsTyped, UpdatePreview, QueuePreview, Awaits, Closing, OnlyHandler
<1>2. CASE Responds(h)
  BY <1>1, <1>2, RespondingKeeps DEF OnlyHandler
<1>3. CASE ToPlace(h, "deploy")
  BY <1>1, <1>3, ToPlaceKeeps DEF Opening, Closing, Sited
<1> QED
  BY <1>2, <1>3 DEF UpdatePreview, QueuePreview

-------------------------------------------------------------------------------
(* The only name, so the only row of ours that is live.                    *)
LEMMA OnlyPreview ==
  ASSUME PreviewsInv, calm, NEW i \in LivePreviews
  PROVE  LivePreviews \subseteq {i}
<1>1. PICK s \in Sites : IsOnly(s)
  BY DEF PreviewsInv, CalmInv, OneSite
<1>2. \A j \in LivePreviews : j \in PreviewRows /\ InRow(j) /\ preview[j].site = s
  BY <1>1 DEF LivePreviews, InRow, IsOnly
<1> QED
  BY <1>2 DEF PreviewsInv, NameInv

LEMMA FindKeeps == \A h \in Handlers : PreviewsInv /\ FindPreview(h) => PreviewsInv'
<1> SUFFICES ASSUME PreviewsInv, NEW h \in Handlers, FindPreview(h)  PROVE PreviewsInv'
  OBVIOUS
<1>1. /\ handler[h] \in HandlerEntry /\ handler[h].at = "preview" /\ handler[h].at \in Closing
      /\ OnlyHandler /\ calm' = calm /\ calm \in BOOLEAN
  BY DEF PreviewsInv, PreviewsTyped, FindPreview, Awaits, OnlyHandler, Closing
<1>2. CASE LivePreviews = {} /\ Responds(h)
  BY <1>1, <1>2, RespondingKeeps DEF OnlyHandler
<1>3. ASSUME NEW i \in LivePreviews,
             handler' = [handler EXCEPT ![h].at = "resources", ![h].row = i]
      PROVE  PreviewsInv'
  <2>1. i \in PreviewRows
    BY DEF LivePreviews
  <2>2. PICK e \in HandlerEntry :
          /\ e.at = "resources" /\ e.n = handler[h].n /\ e.row = i
          /\ handler' = [handler EXCEPT ![h] = e]
    <3> DEFINE e == [handler[h] EXCEPT !.at = "resources", !.row = i]
    <3>1. e \in HandlerEntry /\ e.at = "resources" /\ e.n = handler[h].n /\ e.row = i
      BY <1>1, <2>1, EntryOfRow
    <3>2. handler' = [handler EXCEPT ![h] = e]
      BY <1>3
    <3> HIDE DEF e
    <3> QED
      BY <3>1, <3>2
  <2>3. calm => LivePreviews \subseteq {i}
    BY OnlyPreview
  <2>4. Moving(h, e)
    BY <1>1, <2>1, <2>2, <2>3 DEF Moving, OnlyHandler, Closing, Sited
  <2> QED
    BY <2>4, MovingKeeps
<1> QED
  BY <1>2, <1>3 DEF FindPreview

LEMMA ResourcesKeep == \A h \in Handlers : PreviewsInv /\ RemoveResources(h) => PreviewsInv'
<1> SUFFICES ASSUME PreviewsInv, NEW h \in Handlers, RemoveResources(h)  PROVE PreviewsInv'
  OBVIOUS
<1>1. /\ handler[h].at = "resources" /\ handler[h].at \in Closing /\ calm \in BOOLEAN
      /\ UNCHANGED <<bases, preview, events, begun>>
  BY DEF PreviewsInv, PreviewsTyped, RemoveResources, Awaits, Closing
<1>2. CASE ToPlace(h, "rows") /\ UNCHANGED calm
  BY <1>1, <1>2, ToPlaceKeeps DEF Opening, Closing, Sited, OnlyHandler
<1>3. CASE Responds(h) /\ calm' = (calm /\ ~InRow(handler[h].row))
  <2>1. calm => LivePreviews \subseteq {handler[h].row}
    BY <1>1 DEF PreviewsInv, CalmInv, ClosingInv
  <2>2. calm' => LivePreviews = {}
    BY <1>3, <2>1 DEF LivePreviews, InRow
  <2>3. calm' \in BOOLEAN /\ (calm' => calm)
    BY <1>3
  <2> QED
    BY <1>1, <1>3, <2>2, <2>3, RespondingKeeps
<1> QED
  BY <1>2, <1>3 DEF RemoveResources

LEMMA DiesKeeps == \A h \in Handlers : PreviewsInv /\ HandlerDies(h) => PreviewsInv'
<1> SUFFICES ASSUME PreviewsInv, NEW h \in Handlers, HandlerDies(h)  PROVE PreviewsInv'
  OBVIOUS
<1>1. calm' = (calm /\ events[handler[h].n] # "closed") /\ Responds(h)
      /\ UNCHANGED <<bases, preview, events, begun>>
  BY DEF HandlerDies
<1>2. calm' \in BOOLEAN /\ (calm' => calm)
  BY <1>1
<1>3. handler[h].at \in Closing => IsClosed(handler[h].n)
  BY DEF PreviewsInv, EventInv, Closing
<1>4. ~(calm' /\ handler[h].at \in Closing)
  BY <1>1, <1>3 DEF IsClosed
<1> QED
  BY <1>1, <1>2, <1>4, RespondingKeeps

-------------------------------------------------------------------------------
(* Rows that change their state keep name and maker.                       *)
LEMMA RowMoved ==
  ASSUME PreviewsInv, NEW i \in PreviewRows, NEW to \in {"live", "deleted", "gone"},
         preview' = [preview EXCEPT ![i].is = to]
  PROVE  /\ preview' \in [PreviewRows -> PreviewEntry] /\ preview'[i].is = to
         /\ \A j \in PreviewRows : /\ preview'[j].site = preview[j].site
                                   /\ preview'[j].ours = preview[j].ours
                                   /\ j # i => preview'[j].is = preview[j].is
<1> DEFINE e == [preview[i] EXCEPT !.is = to]
<1>1. preview[i] \in PreviewEntry
  BY DEF PreviewsInv, PreviewsTyped
<1>2. e \in PreviewEntry /\ e.is = to /\ e.site = preview[i].site /\ e.ours = preview[i].ours
  BY <1>1 DEF PreviewEntry
<1>3. preview' = [preview EXCEPT ![i] = e]
  OBVIOUS
<1> HIDE DEF e
<1>4. /\ preview' \in [PreviewRows -> PreviewEntry] /\ preview'[i] = e
      /\ \A j \in PreviewRows \ {i} : preview'[j] = preview[j]
  BY <1>2, <1>3 DEF PreviewsInv, PreviewsTyped
<1> QED
  BY <1>2, <1>4

(* A row that has gone or was deleted leaves the others as they were.      *)
StillThere(is, was) == is \in {"live", "deleted"} => was \in {"live", "deleted"}

LEMMA RowsKeepNames ==
  ASSUME PreviewsInv, preview' \in [PreviewRows -> PreviewEntry],
         \A j \in PreviewRows : /\ preview'[j].site = preview[j].site
                                /\ preview'[j].ours = preview[j].ours
                                /\ StillThere(preview'[j].is, preview[j].is),
         UNCHANGED <<events, bases>>,
         \A h \in Handlers : handler'[h].at \in Sited =>
           handler[h].at \in Sited /\ handler'[h].site = handler[h].site
  PROVE  NameInv' /\ (OneSite => OneSite')
<1>1. \A j \in PreviewRows : InRow(j)' => InRow(j)
  BY DEF InRow, StillThere
<1>2. NameInv'
  <2>1. \A i, j \in PreviewRows :
          InRow(i)' /\ InRow(j)' /\ preview'[i].site = preview'[j].site => i = j
    BY <1>1 DEF PreviewsInv, NameInv
  <2>2. events' = <<>> => \A i \in PreviewRows : ~preview'[i].ours
    BY DEF PreviewsInv, NameInv
  <2> QED
    BY <2>1, <2>2 DEF NameInv
<1>3. ASSUME OneSite  PROVE OneSite'
  <2>1. PICK s \in Sites : IsOnly(s)
    BY <1>3 DEF OneSite
  <2>2. IsOnly(s)'
    BY <2>1 DEF IsOnly
  <2> QED
    BY <2>2 DEF OneSite
<1> QED
  BY <1>2, <1>3

(* A step of a user on one row.                                            *)
LEMMA UserStepKeeps == \A i \in PreviewRows :
  PreviewsInv /\ (DeletePreview(i) \/ PurgePreview(i) \/ RecoverPreview(i)) => PreviewsInv'
<1> SUFFICES ASSUME PreviewsInv, NEW i \in PreviewRows,
                    DeletePreview(i) \/ PurgePreview(i) \/ RecoverPreview(i)
             PROVE  PreviewsInv'
  OBVIOUS
<1>1. PICK from \in {"live", "deleted"}, to \in {"live", "deleted", "gone"} :
        /\ RowMoves(i, from, to)
        /\ (to # "live" /\ UNCHANGED calm)
           \/ calm' = (calm /\ \A n \in begun : events[n] # "closed")
  BY DEF DeletePreview, PurgePreview, RecoverPreview
<1>2. /\ preview' \in [PreviewRows -> PreviewEntry] /\ preview'[i].is = to
      /\ \A j \in PreviewRows : /\ preview'[j].site = preview[j].site
                                /\ preview'[j].ours = preview[j].ours
                                /\ j # i => preview'[j].is = preview[j].is
  BY <1>1, RowMoved DEF RowMoves
<1>3. UNCHANGED <<bases, events, begun, handler>> /\ InRow(i) /\ calm' \in BOOLEAN
      /\ (calm' => calm)
  <2>1. UNCHANGED <<bases, events, begun, handler>> /\ preview[i].is = from
    BY <1>1 DEF RowMoves
  <2>2. calm \in BOOLEAN
    BY DEF PreviewsInv, PreviewsTyped
  <2>3. CASE UNCHANGED calm
    BY <2>1, <2>2, <2>3 DEF InRow
  <2>4. CASE calm' = (calm /\ \A n \in begun : events[n] # "closed")
    <3>1. calm' \in BOOLEAN /\ (calm' => calm)
      BY <2>4
    <3> QED
      BY <2>1, <3>1 DEF InRow
  <2> QED
    BY <1>1, <2>3, <2>4
<1>4. \A j \in PreviewRows : StillThere(preview'[j].is, preview[j].is)
  BY <1>2, <1>3 DEF InRow, StillThere
<1>5. NameInv' /\ (OneSite => OneSite')
  BY <1>2, <1>3, <1>4, RowsKeepNames
<1>6. PreviewsTyped' /\ EventInv'
  BY <1>2, <1>3 DEF PreviewsInv, PreviewsTyped, EventInv, IsClosed
<1>7. ASSUME calm'  PROVE CalmInv'
  <2>1. CalmInv
    BY <1>3, <1>7 DEF PreviewsInv
  <2>2. OneSite' /\ InOrder'
    BY <1>3, <1>5, <2>1 DEF CalmInv, InOrder, IsClosed
  <2>3. CASE to # "live"
    <3>1. ASSUME NEW j \in PreviewRows, preview'[j].is = "live", preview'[j].ours
          PROVE  preview[j].is = "live" /\ preview[j].ours
      BY <1>2, <2>3, <3>1
    <3>2. LivePreviews' \subseteq LivePreviews
      BY <3>1 DEF LivePreviews
    <3> QED
      BY <1>3, <2>1, <2>2, <3>2 DEF CalmInv, ClosingInv, ClosedInv, IsClosed
  <2>4. CASE \A n \in begun : events[n] # "closed"
    <3>1. \A h \in Handlers : handler[h].at \notin Closing
      BY <2>4 DEF PreviewsInv, EventInv, IsClosed, Closing
    <3>2. ClosingInv' /\ ClosedInv'
      BY <1>3, <2>4, <3>1 DEF ClosingInv, ClosedInv, IsClosed
    <3> QED
      BY <2>2, <3>2 DEF CalmInv
  <2> QED
    BY <1>1, <1>7, <2>3, <2>4
<1> QED
  BY <1>5, <1>6, <1>7 DEF PreviewsInv

(* The handler of 'closed' removes the row.                                *)
LEMMA RemoveRowsKeeps == \A h \in Handlers : PreviewsInv /\ RemoveRows(h) => PreviewsInv'
<1> SUFFICES ASSUME PreviewsInv, NEW h \in Handlers, RemoveRows(h)  PROVE PreviewsInv'
  OBVIOUS
<1>1. /\ handler[h].at = "rows" /\ handler[h].row \in PreviewRows
      /\ UNCHANGED <<bases, events, begun, calm>>
      /\ handler' = [handler EXCEPT ![h] = Ready]
      /\ preview' = [preview EXCEPT ![handler[h].row].is = "gone"]
  BY DEF PreviewsInv, EventInv, RemoveRows, Awaits, Responds
<1>2. /\ preview' \in [PreviewRows -> PreviewEntry] /\ preview'[handler[h].row].is = "gone"
      /\ \A j \in PreviewRows : /\ preview'[j].site = preview[j].site
                                /\ preview'[j].ours = preview[j].ours
                                /\ j # handler[h].row => preview'[j].is = preview[j].is
  <2>1. PICK i \in PreviewRows : i = handler[h].row
    BY <1>1
  <2> QED
    BY <1>1, <2>1, RowMoved
<1>3. /\ handler' \in [Handlers -> HandlerEntry] /\ handler'[h] = Ready
      /\ \A g \in Handlers \ {h} : handler'[g] = handler[g]
  BY <1>1, ReadyEntry DEF PreviewsInv, PreviewsTyped
<1>4. \A j \in PreviewRows : StillThere(preview'[j].is, preview[j].is)
  BY <1>2 DEF StillThere
<1>5. \A g \in Handlers : handler'[g].at \in Sited =>
        handler[g].at \in Sited /\ handler'[g].site = handler[g].site
  BY <1>3, ReadyEntry DEF Sited
<1>6. NameInv' /\ (OneSite => OneSite')
  BY <1>1, <1>2, <1>4, <1>5, RowsKeepNames
<1>7. PreviewsTyped' /\ EventInv'
  <2>1. PreviewsTyped'
    BY <1>1, <1>2, <1>3 DEF PreviewsInv, PreviewsTyped
  <2>2. EventInv'
    BY <1>1, <1>3, ReadyEntry DEF PreviewsInv, EventInv, IsClosed
  <2> QED
    BY <2>1, <2>2
<1>8. ASSUME calm  PROVE CalmInv'
  <2>1. CalmInv
    BY <1>8 DEF PreviewsInv
  <2>2. LivePreviews' = {}
    <3>1. LivePreviews \subseteq {handler[h].row}
      BY <1>1, <2>1 DEF CalmInv, ClosingInv, Closing
    <3>2. ASSUME NEW j \in PreviewRows, preview'[j].is = "live", preview'[j].ours
          PROVE  FALSE
      <4>1. j # handler[h].row /\ preview[j].is = "live" /\ preview[j].ours
        BY <1>2, <3>2
      <4> QED
        BY <3>1, <4>1 DEF LivePreviews
    <3> QED
      BY <3>2 DEF LivePreviews
  <2>3. OneSite' /\ InOrder'
    BY <1>1, <1>3, <1>6, <2>1, ReadyEntry DEF CalmInv, InOrder, IsClosed
  <2>4. ClosingInv' /\ ClosedInv'
    BY <1>3, <2>1, <2>2, ReadyEntry DEF CalmInv, ClosingInv, ClosedInv, Closing
  <2> QED
    BY <2>3, <2>4 DEF CalmInv
<1> QED
  BY <1>1, <1>6, <1>7, <1>8 DEF PreviewsInv

-------------------------------------------------------------------------------
(* A row that is inserted: its name was free.                              *)
LEMMA RowInserted ==
  ASSUME PreviewsInv, NEW i \in PreviewRows, NEW s \in Sites \cup {NoSite}, NEW ours \in BOOLEAN,
         Inserts(i, s, ours), NameIsFree(s), UNCHANGED events, ours => events # <<>>
  PROVE  /\ preview' \in [PreviewRows -> PreviewEntry]
         /\ preview'[i] = PreviewRow("live", s, ours)
         /\ \A j \in PreviewRows \ {i} : preview'[j] = preview[j]
         /\ NameInv'
<1> DEFINE e == PreviewRow("live", s, ours)
<1>1. e \in PreviewEntry /\ e.is = "live" /\ e.site = s /\ e.ours = ours
  BY DEF PreviewRow, PreviewEntry
<1>2. preview' = [preview EXCEPT ![i] = e] /\ preview[i] = Blank
  BY DEF Inserts, FirstBlank
<1> HIDE DEF e
<1>3. /\ preview' \in [PreviewRows -> PreviewEntry] /\ preview'[i] = e
      /\ \A j \in PreviewRows \ {i} : preview'[j] = preview[j]
  BY <1>1, <1>2 DEF PreviewsInv, PreviewsTyped
<1>4. \A j \in PreviewRows \ {i} : InRow(j)' => preview'[j].site # s /\ InRow(j)
  BY <1>3 DEF NameIsFree, InRow
<1>5. \A j, k \in PreviewRows :
        InRow(j)' /\ InRow(k)' /\ preview'[j].site = preview'[k].site => j = k
  BY <1>1, <1>3, <1>4 DEF PreviewsInv, NameInv
<1>6. NameInv'
  BY <1>1, <1>3, <1>5 DEF PreviewsInv, NameInv
<1> QED
  BY <1>3, <1>6 DEF e

LEMMA NamesakeKeeps == \A s \in Sites : PreviewsInv /\ MakeNamesake(s) => PreviewsInv'
<1> SUFFICES ASSUME PreviewsInv, NEW s \in Sites, MakeNamesake(s)  PROVE PreviewsInv'
  OBVIOUS
<1>1. PICK i \in PreviewRows : Inserts(i, s, FALSE)
  BY DEF MakeNamesake
<1>2. UNCHANGED <<bases, events, begun, handler, calm>> /\ NameIsFree(s)
  BY DEF MakeNamesake
<1>3. /\ preview' \in [PreviewRows -> PreviewEntry]
      /\ preview'[i] = PreviewRow("live", s, FALSE)
      /\ \A j \in PreviewRows \ {i} : preview'[j] = preview[j]
      /\ NameInv'
  BY <1>1, <1>2, RowInserted
<1>4. ~preview'[i].ours
  BY <1>3 DEF PreviewRow
<1>5. LivePreviews' \subseteq LivePreviews
  BY <1>3, <1>4 DEF LivePreviews
<1>6. PreviewsTyped' /\ EventInv'
  BY <1>2, <1>3 DEF PreviewsInv, PreviewsTyped, EventInv, IsClosed
<1>7. CalmInv => CalmInv'
  <2>1. OneSite => OneSite'
    BY <1>2, <1>3, <1>4 DEF OneSite, IsOnly
  <2>2. InOrder /\ ClosingInv /\ ClosedInv => InOrder' /\ ClosingInv' /\ ClosedInv'
    BY <1>2, <1>5 DEF InOrder, ClosingInv, ClosedInv, IsClosed
  <2> QED
    BY <2>1, <2>2 DEF CalmInv
<1> QED
  BY <1>2, <1>3, <1>6, <1>7 DEF PreviewsInv

(* A preview is created by a request, which is not that of 'closed'.       *)
LEMMA CreatePreviewKeeps == \A h \in Handlers : PreviewsInv /\ CreatePreview(h) => PreviewsInv'
<1> SUFFICES ASSUME PreviewsInv, NEW h \in Handlers, CreatePreview(h)  PROVE PreviewsInv'
  OBVIOUS
<1>1. /\ handler[h] \in HandlerEntry /\ handler[h].at = "create" /\ handler[h].at \notin Closing
      /\ handler[h].site \in Sites \cup {NoSite} /\ handler[h].n \in begun /\ events # <<>>
      /\ ~IsClosed(handler[h].n) /\ UNCHANGED <<bases, events, begun, calm>> /\ calm \in BOOLEAN
  <2>1. handler[h] \in HandlerEntry /\ handler[h].at = "create" /\ calm \in BOOLEAN
        /\ UNCHANGED <<bases, events, begun, calm>>
    BY DEF PreviewsInv, PreviewsTyped, CreatePreview, Awaits
  <2>2. handler[h].n \in begun /\ ~IsClosed(handler[h].n)
    BY <2>1 DEF PreviewsInv, EventInv, Closing
  <2>3. begun \subseteq DOMAIN events /\ DOMAIN <<>> = {}
    BY DEF PreviewsInv, PreviewsTyped
  <2>4. events # <<>>
    BY <2>2, <2>3
  <2> QED
    BY <2>1, <2>2, <2>4 DEF HandlerEntry, Closing
<1>2. CASE Responds(h) /\ UNCHANGED preview
  BY <1>1, <1>2, RespondingKeeps
<1>3. ASSUME NameIsFree(handler[h].site), ToPlace(h, "deploy"),
             NEW i \in PreviewRows, Inserts(i, handler[h].site, TRUE)
      PROVE  PreviewsInv'
  <2>1. PICK s \in Sites \cup {NoSite} : s = handler[h].site
    BY <1>1
  <2>2. /\ preview' \in [PreviewRows -> PreviewEntry]
        /\ preview'[i] = PreviewRow("live", s, TRUE)
        /\ \A j \in PreviewRows \ {i} : preview'[j] = preview[j]
        /\ NameInv'
    BY <1>1, <1>3, <2>1, RowInserted
  <2>3. PICK e \in HandlerEntry :
          /\ e.at = "deploy" /\ e.n = handler[h].n /\ e.site = handler[h].site
          /\ handler' = [handler EXCEPT ![h] = e]
    <3> DEFINE e == [handler[h] EXCEPT !.at = "deploy"]
    <3>1. e \in HandlerEntry /\ e.at = "deploy" /\ e.n = handler[h].n
          /\ e.site = handler[h].site
      BY <1>1, EntryMoved DEF HandlerPlaces
    <3>2. handler' = [handler EXCEPT ![h] = e]
      BY <1>3 DEF ToPlace
    <3> HIDE DEF e
    <3> QED
      BY <3>1, <3>2
  <2>4. /\ handler' \in [Handlers -> HandlerEntry] /\ handler'[h] = e
        /\ \A g \in Handlers \ {h} : handler'[g] = handler[g]
    BY <2>3 DEF PreviewsInv, PreviewsTyped
  <2>5. PreviewsTyped'
    BY <1>1, <2>2, <2>4 DEF PreviewsInv, PreviewsTyped
  <2>6. EventInv'
    BY <1>1, <2>3, <2>4 DEF PreviewsInv, EventInv, IsClosed, Closing
  <2>7. ASSUME calm  PROVE CalmInv'
    <3>1. CalmInv
      BY <2>7 DEF PreviewsInv
    <3>2. OneSite'
      <4>1. PICK r \in Sites : IsOnly(r)
        BY <3>1 DEF CalmInv, OneSite
      <4>2. s = r
        BY <1>1, <2>1, <4>1 DEF IsOnly, Sited
      <4>3. preview'[i].site = r
        BY <2>2, <4>2 DEF PreviewRow
      <4>4. IsOnly(r)'
        <5>1. bases' \subseteq {r}
          BY <1>1, <4>1 DEF IsOnly
        <5>2. \A g \in Handlers : handler'[g].at \in Sited => handler'[g].site = r
          BY <2>1, <2>3, <2>4, <4>1, <4>2 DEF IsOnly
        <5>3. \A j \in PreviewRows : preview'[j].ours => preview'[j].site = r
          BY <2>2, <4>1, <4>3 DEF IsOnly
        <5> QED
          BY <5>1, <5>2, <5>3 DEF IsOnly
      <4> QED
        BY <4>4 DEF OneSite
    <3>3. InOrder'
      BY <1>1, <2>3, <2>4, <3>1 DEF CalmInv, InOrder, IsClosed
    <3>4. ClosingInv'
      <4>1. \A g \in Handlers : handler[g].at \notin Closing
        BY <1>1, <3>1 DEF CalmInv, ClosingInv
      <4>2. \A g \in Handlers : handler'[g].at \notin Closing
        BY <2>3, <2>4, <4>1 DEF Closing
      <4> QED
        BY <4>2 DEF ClosingInv
    <3>5. ClosedInv'
      BY <2>3, <2>4 DEF ClosedInv
    <3> QED
      BY <3>2, <3>3, <3>4, <3>5 DEF CalmInv
  <2> QED
    BY <1>1, <2>2, <2>5, <2>6, <2>7 DEF PreviewsInv
<1> QED
  BY <1>2, <1>3 DEF CreatePreview

-------------------------------------------------------------------------------
(* An event that is handled now, or refused.                               *)
LEMMA RefuseKeeps == \A n \in Numbers : PreviewsInv /\ RefuseEvent(n) => PreviewsInv'
<1> SUFFICES ASSUME PreviewsInv, NEW n \in Numbers, RefuseEvent(n)  PROVE PreviewsInv'
  OBVIOUS
<1>1. /\ n \in DOMAIN events /\ n \notin begun /\ begun' = begun \cup {n}
      /\ calm' = (calm /\ ~IsClosed(n)) /\ UNCHANGED <<bases, preview, events, handler>>
  BY DEF RefuseEvent, IsClosed
<1>2. calm \in BOOLEAN /\ begun \subseteq DOMAIN events /\ DOMAIN events \subseteq Nat
  BY DEF PreviewsInv, PreviewsTyped
<1>3. calm' \in BOOLEAN /\ (calm' => calm /\ ~IsClosed(n))
  BY <1>1, <1>2
<1>4. PreviewsTyped' /\ NameInv'
  BY <1>1, <1>3 DEF PreviewsInv, PreviewsTyped, NameInv, InRow
<1>5. EventInv'
  BY <1>1 DEF PreviewsInv, EventInv, IsClosed
<1>6. ASSUME calm'  PROVE CalmInv'
  <2>1. CalmInv /\ ~IsClosed(n)
    BY <1>3, <1>6 DEF PreviewsInv
  <2>2. OneSite' /\ ClosingInv'
    BY <1>1, <2>1 DEF CalmInv, OneSite, IsOnly, ClosingInv, LivePreviews
  <2>3. InOrder'
    BY <1>1, <2>1 DEF CalmInv, InOrder, IsClosed
  <2>4. ClosedInv'
    <3> SUFFICES ASSUME NEW m \in begun', IsClosed(m), begun' \subseteq 1 .. m,
                        \A h \in Handlers : handler[h].at = "ready"
                 PROVE  LivePreviews = {}
      BY <1>1 DEF ClosedInv, IsClosed, LivePreviews
    <3>1. m \in begun /\ begun \subseteq 1 .. m
      BY <1>1, <2>1
    <3> QED
      BY <2>1, <3>1 DEF CalmInv, ClosedInv
  <2> QED
    BY <2>2, <2>3, <2>4 DEF CalmInv
<1> QED
  BY <1>4, <1>5, <1>6, <1>3 DEF PreviewsInv

LEMMA HandleKeeps == \A h \in Handlers, n \in Numbers :
  PreviewsInv /\ HandleGitHubWebhook(h, n) => PreviewsInv'
<1> SUFFICES ASSUME PreviewsInv, NEW h \in Handlers, NEW n \in Numbers,
                    HandleGitHubWebhook(h, n)
             PROVE  PreviewsInv'
  OBVIOUS
<1>1. /\ handler[h].at = "ready" /\ n \in DOMAIN events /\ n \notin begun
      /\ begun' = begun \cup {n} /\ calm' = (calm /\ InTurn(n))
      /\ UNCHANGED <<bases, preview, events>>
  BY DEF HandleGitHubWebhook, Awaits
<1>2. /\ calm \in BOOLEAN /\ begun \subseteq DOMAIN events
      /\ DOMAIN events \subseteq Nat /\ n \in Nat /\ handler \in [Handlers -> HandlerEntry]
      /\ events[n] \in {"opened", "synchronize", "closed", "reopened"}
  BY <1>1 DEF PreviewsInv, PreviewsTyped
<1>3. PICK e \in HandlerEntry :
        /\ handler' = [handler EXCEPT ![h] = e]
        /\ e.at \in {"ready", "base", "preview"} /\ (e.at = "ready" => e = Ready)
        /\ e.at # "ready" => e.n = n /\ (e.at = "preview" <=> IsClosed(n))
        /\ IsClosed(n) => e.at = "preview"
  <2>1. CASE IsClosed(n)
    <3> DEFINE e == Handling("preview", n, NoSite, 0)
    <3>1. e \in HandlerEntry /\ e.at = "preview" /\ e.n = n
      BY <1>2 DEF Handling, HandlerEntry, HandlerPlaces
    <3>2. handler' = [handler EXCEPT ![h] = e]
      BY <2>1 DEF HandleGitHubWebhook, IsClosed
    <3> HIDE DEF e
    <3> QED
      BY <2>1, <3>1, <3>2
  <2>2. CASE events[n] = "reopened"
    <3>1. handler' = [handler EXCEPT ![h] = Ready]
      BY <2>2 DEF HandleGitHubWebhook
    <3> QED
      BY <2>2, <3>1, ReadyEntry DEF IsClosed
  <2>3. CASE ~IsClosed(n) /\ events[n] # "reopened"
    <3> DEFINE e == Handling("base", n, NoSite, 0)
    <3>1. e \in HandlerEntry /\ e.at = "base" /\ e.n = n
      BY <1>2 DEF Handling, HandlerEntry, HandlerPlaces
    <3>2. handler' = [handler EXCEPT ![h] = e]
      BY <2>3 DEF HandleGitHubWebhook, IsClosed
    <3> HIDE DEF e
    <3> QED
      BY <2>3, <3>1, <3>2
  <2> QED
    BY <2>1, <2>2, <2>3
<1>4. /\ handler' \in [Handlers -> HandlerEntry] /\ handler'[h] = e
      /\ \A g \in Handlers \ {h} : handler'[g] = handler[g]
  BY <1>2, <1>3
<1>5. calm' \in BOOLEAN /\ (calm' => calm /\ InTurn(n))
  BY <1>1, <1>2
<1>6. PreviewsTyped' /\ NameInv'
  BY <1>1, <1>4, <1>5 DEF PreviewsInv, PreviewsTyped, NameInv, InRow
<1>7. EventInv'
  BY <1>1, <1>3, <1>4 DEF PreviewsInv, EventInv, IsClosed, Closing
<1>8. ASSUME calm'  PROVE CalmInv'
  <2>1. CalmInv /\ InTurn(n)
    BY <1>5, <1>8 DEF PreviewsInv
  <2>2. OneSite'
    BY <1>1, <1>3, <1>4, <2>1 DEF CalmInv, OneSite, IsOnly, Sited
  <2>3. CASE IsClosed(n)
    <3>1. begun = 1 .. (n - 1) /\ (\A g \in Handlers : handler[g].at = "ready") /\ n >= 1
      BY <1>1, <1>2, <2>1, <2>3, ReadyEntry
      DEF InTurn, Resting, IsClosed, PreviewsInv, PreviewsTyped
    <3>2. begun' = 1 .. n
      BY <1>1, <1>2, <3>1
    <3>3. \A g \in Handlers : handler'[g].at # "ready" => g = h
      BY <1>4, <3>1
    <3>4. e.at = "preview" /\ e.n = n
      BY <1>3, <2>3
    <3>5. InOrder'
      BY <1>1, <1>2, <1>4, <3>2, <3>3, <3>4 DEF InOrder
    <3>6. ClosingInv'
      BY <1>4, <3>3, <3>4 DEF ClosingInv, Closing
    <3>7. ClosedInv'
      BY <1>4, <3>4 DEF ClosedInv
    <3> QED
      BY <2>2, <3>5, <3>6, <3>7 DEF CalmInv
  <2>4. CASE ~IsClosed(n)
    <3>1. \A m \in begun : IsClosed(m) => m < n /\ \A g \in Handlers : handler[g].n # m
      BY <2>1, <2>4 DEF InTurn, IsClosed
    <3>2. \A g \in Handlers : handler[g].at \notin Closing
      BY <3>1 DEF PreviewsInv, EventInv, Closing
    <3>3. \A g \in Handlers : handler'[g].at \notin Closing
      BY <1>3, <1>4, <2>4, <3>2 DEF Closing
    <3>4. ClosingInv'
      BY <3>3 DEF ClosingInv
    <3>5. InOrder'
      BY <1>1, <1>2, <1>3, <1>4, <2>1, <2>4, <3>1 DEF CalmInv, InOrder, IsClosed
    <3>6. ClosedInv'
      <4> SUFFICES ASSUME NEW m \in begun', IsClosed(m), begun' \subseteq 1 .. m  PROVE FALSE
        BY <1>1 DEF ClosedInv, IsClosed
      <4> QED
        BY <1>1, <1>2, <2>4, <3>1
    <3> QED
      BY <2>2, <3>4, <3>5, <3>6 DEF CalmInv
  <2> QED
    BY <2>3, <2>4
<1> QED
  BY <1>5, <1>6, <1>7, <1>8 DEF PreviewsInv

(* The pull request moves on: the events that are handled stay.            *)
LEMMA PullRequestKeeps == PreviewsInv /\ PullRequest => PreviewsInv'
<1> SUFFICES ASSUME PreviewsInv, PullRequest  PROVE PreviewsInv'
  OBVIOUS
<1>1. UNCHANGED <<bases, preview, begun, handler, calm>>
  BY DEF PullRequest
<1>2. /\ events' \in Seq({"opened", "synchronize", "closed", "reopened"})
      /\ events' # <<>> /\ DOMAIN events \subseteq DOMAIN events'
      /\ \A n \in DOMAIN events : events'[n] = events[n]
  <2>1. events \in Seq({"opened", "synchronize", "closed", "reopened"})
    BY DEF PreviewsInv, PreviewsTyped
  <2>2. CASE events = <<>> /\ events' = <<"opened">>
    BY <2>2
  <2>3. ASSUME NEW e \in {"synchronize", "closed", "reopened"}, events' = Append(events, e)
        PROVE  /\ events' \in Seq({"opened", "synchronize", "closed", "reopened"})
               /\ events' # <<>> /\ DOMAIN events \subseteq DOMAIN events'
               /\ \A n \in DOMAIN events : events'[n] = events[n]
    BY <2>1, <2>3
  <2> QED
    BY <2>2, <2>3 DEF PullRequest
<1>3. \A n \in begun : n \in DOMAIN events /\ (IsClosed(n)' <=> IsClosed(n))
  BY <1>1, <1>2 DEF IsClosed, PreviewsInv, PreviewsTyped
<1>4. PreviewsTyped'
  BY <1>1, <1>2 DEF PreviewsInv, PreviewsTyped
<1>5. EventInv'
  BY <1>1, <1>3 DEF PreviewsInv, EventInv
<1>6. NameInv'
  BY <1>1, <1>2 DEF PreviewsInv, NameInv, InRow
<1>7. ASSUME calm  PROVE CalmInv'
  <2>1. OneSite' /\ ClosingInv'
    BY <1>1, <1>7 DEF PreviewsInv, CalmInv, OneSite, IsOnly, ClosingInv, LivePreviews
  <2>2. InOrder' /\ ClosedInv'
    BY <1>1, <1>3, <1>7 DEF PreviewsInv, CalmInv, InOrder, ClosedInv, LivePreviews
  <2> QED
    BY <2>1, <2>2 DEF CalmInv
<1> QED
  BY <1>1, <1>4, <1>5, <1>6, <1>7 DEF PreviewsInv

-------------------------------------------------------------------------------
(* Another base ends the calm, unless nothing has happened.                *)
LEMMA BasesKeep == \A s \in Sites :
  PreviewsInv /\ (BaseAppears(s) \/ BaseDisappears(s)) => PreviewsInv'
<1> SUFFICES ASSUME PreviewsInv, NEW s \in Sites, BaseAppears(s) \/ BaseDisappears(s)
             PROVE  PreviewsInv'
  OBVIOUS
<1>1. /\ UNCHANGED <<preview, events, begun, handler>> /\ bases' \subseteq Sites
      /\ (UNCHANGED calm /\ bases' \subseteq bases)
         \/ (calm' = (calm /\ events = <<>> /\ bases = {}) /\ bases' = bases \cup {s})
  BY DEF BaseAppears, BaseDisappears, PreviewsInv, PreviewsTyped
<1>2. calm \in BOOLEAN
  BY DEF PreviewsInv, PreviewsTyped
<1>3. /\ calm' \in BOOLEAN /\ (calm' => calm)
      /\ calm' => ((bases' \subseteq bases) \/ (events = <<>> /\ bases' = {s}))
  <2>1. CASE UNCHANGED calm /\ bases' \subseteq bases
    BY <1>2, <2>1
  <2>2. CASE calm' = (calm /\ events = <<>> /\ bases = {}) /\ bases' = bases \cup {s}
    <3>1. calm' \in BOOLEAN /\ (calm' => calm /\ events = <<>> /\ bases = {})
      BY <1>2, <2>2
    <3> QED
      BY <2>2, <3>1
  <2> QED
    BY <1>1, <2>1, <2>2
<1>4. PreviewsTyped' /\ EventInv' /\ NameInv'
  BY <1>1, <1>3 DEF PreviewsInv, PreviewsTyped, EventInv, NameInv, IsClosed, InRow
<1>5. ASSUME calm'  PROVE CalmInv'
  <2>1. CalmInv
    BY <1>3, <1>5 DEF PreviewsInv
  <2>2. InOrder' /\ ClosingInv' /\ ClosedInv'
    BY <1>1, <2>1 DEF CalmInv, InOrder, ClosingInv, ClosedInv, IsClosed, LivePreviews
  <2>3. CASE bases' \subseteq bases
    BY <1>1, <2>1, <2>2, <2>3 DEF CalmInv, OneSite, IsOnly
  <2>4. CASE events = <<>> /\ bases' = {s}
    <3>1. \A i \in PreviewRows : ~preview[i].ours
      BY <2>4 DEF PreviewsInv, NameInv
    <3>2. begun = {}
      BY <2>4 DEF PreviewsInv, PreviewsTyped
    <3>3. \A h \in Handlers : handler[h].at = "ready"
      BY <3>2 DEF PreviewsInv, EventInv
    <3>4. IsOnly(s)'
      BY <1>1, <2>4, <3>1, <3>3 DEF IsOnly, Sited
    <3> QED
      BY <2>2, <3>4 DEF CalmInv, OneSite
  <2> QED
    BY <1>3, <1>5, <2>3, <2>4
<1> QED
  BY <1>3, <1>4, <1>5 DEF PreviewsInv

-------------------------------------------------------------------------------
LEMMA PreviewsKept == PreviewsInv /\ [PreviewsNext]_previewsVars => PreviewsInv'
<1> SUFFICES ASSUME PreviewsInv, [PreviewsNext]_previewsVars  PROVE PreviewsInv'
  OBVIOUS
<1>1. CASE UNCHANGED previewsVars
  BY <1>1 DEF previewsVars, PreviewsInv, PreviewsTyped, EventInv, NameInv, IsClosed, InRow,
     CalmInv, OneSite, IsOnly, InOrder, ClosingInv, ClosedInv, LivePreviews
<1>2. CASE PreviewsNext
  BY <1>2, PullRequestKeeps, RefuseKeeps, HandleKeeps, BaseKeeps, ExistingKeeps, UpdateKeeps,
     CreatePreviewKeeps, FindKeeps, ResourcesKeep, RemoveRowsKeeps, DiesKeeps, BasesKeep, NamesakeKeeps,
     UserStepKeeps
  DEF PreviewsNext
<1> QED
  BY <1>1, <1>2

(* In calm, a pull request that is closed and handled leaves no preview    *)
(* that is live, however many requests, rows, names and pushes there are   *)
(* (handlePullRequestEvent of WebhookController).                          *)
THEOREM ClosedIsEmpty == PreviewsSpec => []ClosedLeavesNone
<1>1. PreviewsInv => ClosedLeavesNone
  <2> SUFFICES ASSUME PreviewsInv, calm, ~IsOpen, begun = DOMAIN events, Resting
               PROVE  LivePreviews = {}
    BY DEF ClosedLeavesNone
  <2>1. \A h \in Handlers : handler[h].at = "ready"
    BY ReadyEntry DEF Resting
  <2>2. CASE events = <<>>
    BY <2>2 DEF PreviewsInv, NameInv, LivePreviews
  <2>3. CASE events # <<>>
    <3>1. /\ Len(events) \in begun /\ begun \subseteq 1 .. Len(events)
          /\ IsClosed(Len(events))
      BY <2>3 DEF PreviewsInv, PreviewsTyped, IsOpen, IsClosed
    <3> QED
      BY <2>1, <3>1 DEF PreviewsInv, CalmInv, ClosedInv
  <2> QED
    BY <2>2, <2>3
<1> QED
  BY <1>1, PreviewsBegin, PreviewsKept, PTL DEF PreviewsSpec

-------------------------------------------------------------------------------
(* A request is of an event that a pull request can have, and of a row.    *)
HandlerIds == \A h \in Handlers :
  handler[h].n \in Numbers \cup {0} /\ handler[h].row \in PreviewRows \cup {0}

LEMMA HandlerIdsBegin == PreviewsInit => HandlerIds
BY DEF PreviewsInit, HandlerIds, Ready, Handling

LEMMA HandlerIdsKept ==
  PreviewsInv /\ HandlerIds /\ [PreviewsNext]_previewsVars => HandlerIds'
<1> SUFFICES ASSUME PreviewsInv, HandlerIds, [PreviewsNext]_previewsVars  PROVE HandlerIds'
  OBVIOUS
<1>0. handler \in [Handlers -> HandlerEntry]
  BY DEF PreviewsInv, PreviewsTyped
<1>1. ASSUME UNCHANGED handler  PROVE HandlerIds'
  BY <1>1 DEF HandlerIds
<1>2. ASSUME NEW h \in Handlers, Responds(h)  PROVE HandlerIds'
  BY <1>0, <1>2 DEF Responds, Ready, Handling, HandlerIds
<1>3. ASSUME NEW h \in Handlers, NEW place, ToPlace(h, place)  PROVE HandlerIds'
  BY <1>0, <1>3 DEF ToPlace, HandlerEntry, HandlerIds
<1>4. ASSUME NEW h \in Handlers, NEW place, NEW i \in PreviewRows,
             handler' = [handler EXCEPT ![h].at = place, ![h].row = i]
      PROVE  HandlerIds'
  BY <1>0, <1>4 DEF HandlerEntry, HandlerIds
<1>5. ASSUME NEW h \in Handlers, NEW n \in Numbers, HandleGitHubWebhook(h, n)
      PROVE  HandlerIds'
  <2>1. \E r \in {Handling("preview", n, NoSite, 0), Handling("base", n, NoSite, 0), Ready} :
          handler' = [handler EXCEPT ![h] = r]
    BY <1>5 DEF HandleGitHubWebhook
  <2> QED
    BY <1>0, <2>1 DEF HandlerIds, Handling, Ready
<1>6. ASSUME NEW h \in Handlers, FindBaseService(h)  PROVE HandlerIds'
  <2>1. CASE Responds(h)
    BY <1>2, <2>1
  <2>2. ASSUME NEW s \in bases, handler' = [handler EXCEPT ![h].at = "existing", ![h].site = s]
        PROVE  HandlerIds'
    BY <1>0, <2>2 DEF HandlerEntry, HandlerIds
  <2> QED
    BY <1>6, <2>1, <2>2 DEF FindBaseService
<1>7. ASSUME NEW h \in Handlers,
             \/ FindExisting(h) \/ UpdatePreview(h) \/ CreatePreview(h) \/ QueuePreview(h)
      PROVE  HandlerIds'
  BY <1>2, <1>3, <1>4, <1>7 DEF FindExisting, UpdatePreview, CreatePreview, QueuePreview
<1>8. ASSUME NEW h \in Handlers,
             \/ FindPreview(h) \/ RemoveResources(h) \/ RemoveRows(h) \/ HandlerDies(h)
      PROVE  HandlerIds'
  BY <1>2, <1>3, <1>4, <1>8
  DEF FindPreview, RemoveResources, RemoveRows, HandlerDies, LivePreviews
<1>9. CASE \/ PullRequest \/ \E n \in Numbers : RefuseEvent(n)
           \/ \E s \in Sites : BaseAppears(s) \/ BaseDisappears(s) \/ MakeNamesake(s)
           \/ \E i \in PreviewRows : DeletePreview(i) \/ PurgePreview(i) \/ RecoverPreview(i)
           \/ UNCHANGED previewsVars
  BY <1>1, <1>9
  DEF PullRequest, RefuseEvent, BaseAppears, BaseDisappears, MakeNamesake, DeletePreview,
      PurgePreview, RecoverPreview, RowMoves, previewsVars
<1> QED
  BY <1>5, <1>6, <1>7, <1>8, <1>9 DEF PreviewsNext

(* A handler of a pull request is always at one of its places, of an event *)
(* and a row or of none, and what was begun is among what was sent.        *)
THEOREM PreviewsTypeCorrect == PreviewsSpec => []PreviewsTypeOK
<1>1. PreviewsInv /\ HandlerIds => PreviewsTypeOK
  <2> SUFFICES ASSUME PreviewsInv, HandlerIds  PROVE PreviewsTypeOK
    OBVIOUS
  <2>1. /\ PreviewsTyped /\ DOMAIN events = 1 .. Len(events)
        /\ handler \in [Handlers -> HandlerEntry]
    BY DEF PreviewsInv, PreviewsTyped
  <2>2. handler \in [Handlers -> [at : HandlerPlaces, n : Numbers \cup {0},
                                  site : Sites \cup {NoSite}, row : PreviewRows \cup {0}]]
    BY <2>1 DEF HandlerIds, HandlerEntry
  <2> QED
    BY <2>1, <2>2 DEF PreviewsTyped, PreviewsTypeOK, PreviewEntry
<1> QED
  BY <1>1, PreviewsBegin, PreviewsKept, HandlerIdsBegin, HandlerIdsKept, PTL DEF PreviewsSpec

-------------------------------------------------------------------------------
(***************************************************************************)
(* Streams: nothing a live stream opened outlives it, but for the reasons  *)
(* the property names. Each handler's place says what it has set up.       *)
(***************************************************************************)

StreamRow ==
  [at : {"none", "opening", "open", "refused"}, valid : BOOLEAN, timer : BOOLEAN,
   timeout : BOOLEAN, listening : BOOLEAN, redis : {"none", "connected", "subscribed", "quit"},
   errors : 0 .. ErrorLimit, client : BOOLEAN]

Connected(s) == s.redis \in {"connected", "subscribed"}

(* What a handler has set up when it stands where it stands, and what it   *)
(* may have left behind with the reason m.                                 *)
HeldBy(c, s, m) ==
  /\ s.at = "none" => ~s.valid /\ ~s.timer /\ ~s.timeout /\ ~s.client /\ ~Connected(s)
  /\ c \in MetricStreams => ~Connected(s)
  /\ s.at = "opening" =>
       /\ ~s.timeout /\ ~s.listening /\ s.redis # "subscribed"
       /\ c \in MetricStreams => s.valid /\ ~s.timer
       /\ c \in LogStreams /\ s.valid => s.timer
       /\ s.client \/ m # {}
  /\ s.at = "open" <=> s.listening
  /\ s.at = "refused" => m # {} \/ ~s.valid
  /\ s.valid => s.timer \/ s.at = "opening"
  /\ s.timer => s.valid \/ "ended-before-its-timer" \in m
  /\ Connected(s) => s.valid \/ "unsubscribe-failed" \in m
  /\ s.at # "none" /\ ~s.client /\ m = {} => ~s.timer /\ ~Connected(s)

StreamsInv ==
  /\ stream \in [Streams -> StreamRow] /\ missed \in [Streams -> SUBSET Reasons]
  /\ cookie \in BOOLEAN
  /\ \A c \in Streams : HeldBy(c, stream[c], missed[c])

-------------------------------------------------------------------------------
LEMMA StreamsBegin == StreamsInit => StreamsInv
BY DEF StreamsInit, StreamsInv, NewStream, StreamRow, HeldBy, Connected, Reasons, ErrorLimit

(* A step of one stream.                                                   *)
LEMMA OneStream ==
  ASSUME StreamsInv, NEW c \in Streams, NEW s \in StreamRow, NEW m \in SUBSET Reasons,
         Set(c, s), missed' = [missed EXCEPT ![c] = m], HeldBy(c, s, m), cookie' \in BOOLEAN
  PROVE  StreamsInv'
BY DEF StreamsInv, Set

(* The same when nothing is left behind.                                   *)
LEMMA OneStreamOnly ==
  ASSUME StreamsInv, NEW c \in Streams, NEW s \in StreamRow, Set(c, s), UNCHANGED <<missed, cookie>>,
         HeldBy(c, s, missed[c])
  PROVE  StreamsInv'
BY DEF StreamsInv, Set

(* A stream that is cleaned up holds nothing, or a reason is noted.        *)
LEMMA CleanUpKeeps ==
  ASSUME StreamsInv, NEW c \in Streams, NEW s \in StreamRow, UNCHANGED cookie,
         HeldBy(c, [s EXCEPT !.client = TRUE], missed[c]),
         s.at = "opening" => c \in LogStreams /\ (s.client \/ missed[c] # {}), CleanUp(c, s)
  PROVE  StreamsInv'
<1> DEFINE r == [s EXCEPT !.client = TRUE]
           q == [s EXCEPT !.valid = FALSE, !.timer = FALSE, !.timeout = FALSE]
           u == [q EXCEPT !.redis = IF s.redis = "none" THEN s.redis ELSE "quit"]
           m == missed[c] \cup {"unsubscribe-failed"}
<1>0. missed[c] \in SUBSET Reasons /\ m \in SUBSET Reasons /\ cookie' \in BOOLEAN
  BY DEF StreamsInv, Reasons
<1>1. /\ r \in StreamRow /\ r.at = s.at /\ r.valid = s.valid /\ r.timer = s.timer
      /\ r.timeout = s.timeout /\ r.listening = s.listening /\ r.redis = s.redis
      /\ r.client = TRUE
  BY DEF StreamRow
<1>2. /\ q \in StreamRow /\ q.at = s.at /\ q.valid = FALSE /\ q.timer = FALSE
      /\ q.timeout = FALSE /\ q.listening = s.listening /\ q.redis = s.redis
      /\ q.client = s.client
  BY DEF StreamRow
<1>3. /\ u \in StreamRow /\ u.at = s.at /\ u.valid = FALSE /\ u.timer = FALSE
      /\ u.timeout = FALSE /\ u.listening = s.listening /\ ~Connected(u)
      /\ u.client = s.client
  BY DEF StreamRow, Connected
<1>4. \/ ~s.valid /\ Set(c, s) /\ UNCHANGED missed
      \/ s.valid /\ Set(c, u) /\ UNCHANGED missed
      \/ /\ s.valid /\ s.redis = "subscribed" /\ Set(c, q)
         /\ missed' = [missed EXCEPT ![c] = m]
  BY DEF CleanUp, Cleaned, Missed
<1>5. HeldBy(c, r, missed[c])
  OBVIOUS
<1> HIDE DEF r, q, u, m
<1>6. CASE ~s.valid /\ Set(c, s) /\ UNCHANGED missed
  <2>1. HeldBy(c, s, missed[c])
    BY <1>1, <1>5, <1>6 DEF HeldBy, Connected
  <2> QED
    BY <1>6, <2>1, OneStreamOnly
<1>7. CASE s.valid /\ Set(c, u) /\ UNCHANGED missed
  <2>1. HeldBy(c, u, missed[c])
    BY <1>1, <1>3, <1>5, <1>7, StreamsAssumption DEF HeldBy, Connected
  <2> QED
    BY <1>3, <1>7, <2>1, OneStreamOnly
<1>8. CASE s.valid /\ s.redis = "subscribed" /\ Set(c, q) /\ missed' = [missed EXCEPT ![c] = m]
  <2>1. HeldBy(c, q, m)
    BY <1>1, <1>2, <1>5, <1>8, StreamsAssumption DEF HeldBy, Connected, m
  <2> QED
    BY <1>0, <1>2, <1>8, <2>1, OneStream
<1> QED
  BY <1>4, <1>6, <1>7, <1>8

(* A stream that is in the state of its action.                            *)
LEMMA Stream ==
  ASSUME StreamsInv, NEW c \in Streams
  PROVE  stream[c] \in StreamRow /\ missed[c] \in SUBSET Reasons /\ HeldBy(c, stream[c], missed[c])
         /\ cookie \in BOOLEAN
BY DEF StreamsInv

LEMMA LogSteps ==
  ASSUME StreamsInv, NEW c \in Streams,
         OpenLogs(c) \/ LogsOpen(c) \/ LogsOpenLate(c) \/ LogsRefused(c)
  PROVE  StreamsInv'
<1> DEFINE s == stream[c]
           opened == [NewStream EXCEPT !.at = "opening", !.valid = TRUE, !.timer = TRUE,
                                       !.redis = "connected", !.client = TRUE]
           open == [s EXCEPT !.at = "open", !.redis = "subscribed", !.timeout = TRUE,
                             !.listening = TRUE]
           late == [s EXCEPT !.at = "open", !.timeout = TRUE, !.listening = TRUE]
           refused == [s EXCEPT !.at = "refused"]
<1>0. s \in StreamRow /\ missed[c] \in SUBSET Reasons /\ HeldBy(c, s, missed[c])
      /\ cookie' \in BOOLEAN /\ UNCHANGED cookie
  BY Stream DEF OpenLogs, LogsOpen, LogsOpenLate, LogsRefused
<1>1. c \notin MetricStreams
  BY StreamsAssumption DEF OpenLogs, LogsOpen, LogsOpenLate, LogsRefused
<1>2. CASE OpenLogs(c)
  <2>n. NewStream \in StreamRow
    BY DEF StreamRow, NewStream, ErrorLimit
  <2>0. opened \in StreamRow
    BY <2>n DEF StreamRow
  <2>1. HeldBy(c, opened, missed[c])
    BY <1>1, <1>2 DEF NewStream, HeldBy, Connected, OpenLogs, OpenMetrics
  <2> QED
    BY <1>0, <1>2, <2>0, <2>1, OneStreamOnly DEF OpenLogs
<1>3. CASE LogsOpen(c)
  <2>1. open \in StreamRow
    BY <1>0 DEF StreamRow
  <2>2. HeldBy(c, open, missed[c])
    BY <1>0, <1>1, <1>3 DEF LogsOpen, StreamRow, HeldBy, Connected
  <2> QED
    BY <1>0, <1>3, <2>1, <2>2, OneStreamOnly DEF LogsOpen
<1>4. CASE LogsOpenLate(c)
  <2>1. late \in StreamRow
    BY <1>0 DEF StreamRow
  <2>2. HeldBy(c, late, missed[c])
    BY <1>0, <1>1, <1>4 DEF LogsOpenLate, StreamRow, HeldBy, Connected
  <2> QED
    BY <1>0, <1>4, <2>1, <2>2, OneStreamOnly DEF LogsOpenLate
<1>5. CASE LogsRefused(c)
  <2> DEFINE m == missed[c] \cup {"subscribe-failed"}
  <2>1. refused \in StreamRow
    BY <1>0 DEF StreamRow
  <2>2. m \in SUBSET Reasons
    BY <1>0 DEF Reasons
  <2>3. s.valid => HeldBy(c, refused, m)
    BY <1>0, <1>1, <1>5 DEF LogsRefused, StreamRow, HeldBy, Connected
  <2>4. ~s.valid => HeldBy(c, refused, missed[c])
    BY <1>0, <1>1, <1>5 DEF LogsRefused, StreamRow, HeldBy, Connected
  <2>5. /\ Set(c, refused)
        /\ IF s.valid THEN missed' = [missed EXCEPT ![c] = m] ELSE UNCHANGED missed
    BY <1>5 DEF LogsRefused, Missed
  <2> HIDE DEF s, refused, m
  <2> QED
    BY <1>0, <2>1, <2>2, <2>3, <2>4, <2>5, OneStream, OneStreamOnly
<1> QED
  BY <1>2, <1>3, <1>4, <1>5

LEMMA MetricSteps ==
  ASSUME StreamsInv, NEW c \in Streams, OpenMetrics(c) \/ MetricsOpen(c)
  PROVE  StreamsInv'
<1> DEFINE s == stream[c]
           opened == [NewStream EXCEPT !.at = "opening", !.valid = TRUE, !.client = TRUE]
           open(e) == [s EXCEPT !.at = "open", !.valid = cookie, !.timer = TRUE,
                                !.timeout = TRUE, !.listening = TRUE, !.errors = e]
           m == missed[c] \cup {"ended-before-its-timer"}
<1>0. s \in StreamRow /\ missed[c] \in SUBSET Reasons /\ HeldBy(c, s, missed[c])
      /\ cookie' \in BOOLEAN /\ UNCHANGED cookie /\ cookie \in BOOLEAN
  BY Stream DEF OpenMetrics, MetricsOpen
<1>1. c \in MetricStreams /\ c \notin LogStreams
  BY StreamsAssumption DEF OpenMetrics, MetricsOpen
<1>2. CASE OpenMetrics(c)
  <2>n. NewStream \in StreamRow
    BY DEF StreamRow, NewStream, ErrorLimit
  <2>0. opened \in StreamRow
    BY <2>n DEF StreamRow
  <2>1. HeldBy(c, opened, missed[c])
    BY <1>1, <1>2 DEF NewStream, HeldBy, Connected, OpenLogs, OpenMetrics
  <2> QED
    BY <1>0, <1>2, <2>0, <2>1, OneStreamOnly DEF OpenMetrics
<1>3. CASE MetricsOpen(c)
  <2>1. PICK e \in {0, 1} : Set(c, open(e))
    BY <1>3 DEF MetricsOpen
  <2>e. e \in 0 .. ErrorLimit /\ m \in SUBSET Reasons
    BY <1>0 DEF Reasons, ErrorLimit
  <2>2. open(e) \in StreamRow /\ m \in SUBSET Reasons
    BY <1>0, <2>e DEF StreamRow
  <2>3. cookie => HeldBy(c, open(e), missed[c])
    BY <1>0, <1>1, <1>3 DEF MetricsOpen, StreamRow, HeldBy, Connected
  <2>4. ~cookie => HeldBy(c, open(e), m)
    BY <1>0, <1>1, <1>3 DEF MetricsOpen, StreamRow, HeldBy, Connected
  <2>5. IF cookie THEN UNCHANGED missed ELSE missed' = [missed EXCEPT ![c] = m]
    BY <1>3 DEF MetricsOpen, Missed
  <2> HIDE DEF s, open, m
  <2> QED
    BY <1>0, <2>1, <2>2, <2>3, <2>4, <2>5, OneStream, OneStreamOnly
<1> QED
  BY <1>2, <1>3

(* What ends a stream, or has its client gone.                             *)
LEMMA EndingSteps ==
  ASSUME StreamsInv, NEW c \in Streams, Validate(c) \/ StreamError(c) \/ TimesOut(c) \/ Disconnect(c)
  PROVE  StreamsInv'
<1> DEFINE s == stream[c]
           failed == [s EXCEPT !.errors = s.errors + 1]
           over == [s EXCEPT !.timeout = FALSE]
           alone == [s EXCEPT !.client = FALSE]
           Heard(r) == [r EXCEPT !.client = TRUE]
<1>0. s \in StreamRow /\ missed[c] \in SUBSET Reasons /\ HeldBy(c, s, missed[c])
      /\ UNCHANGED cookie /\ cookie' \in BOOLEAN
  BY Stream DEF Validate, StreamError, TimesOut, Disconnect
<1>1. CASE Validate(c)
  <2>1. s.at = "opening" => c \in LogStreams /\ (s.client \/ missed[c] # {})
    BY <1>0, <1>1 DEF Validate, HeldBy, Streams
  <2>2. HeldBy(c, Heard(s), missed[c])
    BY <1>0, <1>1 DEF Validate, HeldBy, StreamRow, Connected
  <2> QED
    BY <1>0, <1>1, <2>1, <2>2, CleanUpKeeps DEF Validate
<1>2. CASE StreamError(c)
  <2>1. failed \in StreamRow
    BY <1>0, <1>2 DEF StreamError, StreamRow, ErrorLimit
  <2>v. s.valid
    BY <1>2 DEF StreamError
  <2>2. HeldBy(c, failed, missed[c]) /\ HeldBy(c, Heard(failed), missed[c])
    BY <1>0, <2>v DEF HeldBy, StreamRow, Connected
  <2>3. failed.at = "opening" => c \in LogStreams /\ (failed.client \/ missed[c] # {})
    BY <1>0, <1>2 DEF StreamError, HeldBy, StreamRow, Streams
  <2>4. (Set(c, failed) /\ UNCHANGED missed) \/ CleanUp(c, failed)
    BY <1>2 DEF StreamError
  <2> HIDE DEF failed
  <2> QED
    BY <1>0, <2>1, <2>2, <2>3, <2>4, OneStreamOnly, CleanUpKeeps
<1>3. CASE TimesOut(c)
  <2>1. over \in StreamRow
    BY <1>0 DEF StreamRow
  <2>2. HeldBy(c, Heard(over), missed[c])
    BY <1>0, <1>3 DEF TimesOut, HeldBy, StreamRow, Connected
  <2>3. over.at # "opening"
    BY <1>0, <1>3 DEF TimesOut, HeldBy, StreamRow
  <2> QED
    BY <1>0, <1>3, <2>1, <2>2, <2>3, CleanUpKeeps DEF TimesOut
<1>4. CASE Disconnect(c)
  <2> DEFINE m == missed[c] \cup {"left-before-it-was-open"}
  <2>1. alone \in StreamRow /\ alone.at = s.at
    BY <1>0 DEF StreamRow
  <2>2. HeldBy(c, Heard(alone), missed[c])
    BY <1>0, <1>4 DEF Disconnect, HeldBy, StreamRow, Connected
  <2>3. CASE s.listening
    <3>1. s.at # "opening"
      BY <1>0, <2>3 DEF HeldBy
    <3>2. CleanUp(c, alone)
      BY <1>4, <2>3 DEF Disconnect, StreamRow
    <3> QED
      BY <1>0, <2>1, <2>2, <3>1, <3>2, CleanUpKeeps
  <2>4. CASE ~s.listening /\ s.at = "opening"
    <3>1. m \in SUBSET Reasons
      BY <1>0 DEF Reasons
    <3>2. HeldBy(c, alone, m)
      BY <1>0, <2>4 DEF HeldBy, StreamRow, Connected
    <3>3. Set(c, alone) /\ missed' = [missed EXCEPT ![c] = m]
      BY <1>4, <2>4 DEF Disconnect, Missed
    <3> HIDE DEF alone, m
    <3> QED
      BY <1>0, <2>1, <3>1, <3>2, <3>3, OneStream
  <2>5. CASE ~s.listening /\ s.at # "opening"
    <3>1. HeldBy(c, alone, missed[c])
      BY <1>0, <2>5 DEF HeldBy, StreamRow, Connected
    <3>2. Set(c, alone) /\ UNCHANGED missed
      BY <1>4, <2>5 DEF Disconnect
    <3> HIDE DEF alone
    <3> QED
      BY <1>0, <2>1, <3>1, <3>2, OneStreamOnly
  <2> QED
    BY <2>3, <2>4, <2>5
<1> QED
  BY <1>1, <1>2, <1>3, <1>4

LEMMA StreamsKept == StreamsInv /\ [StreamsNext]_streamVars => StreamsInv'
<1>1. StreamsInv /\ UNCHANGED streamVars => StreamsInv'
  BY DEF StreamsInv, streamVars
<1>2. StreamsInv /\ TokenIsOver => StreamsInv'
  BY DEF StreamsInv, TokenIsOver
<1> QED
  BY <1>1, <1>2, LogSteps, MetricSteps, EndingSteps DEF StreamsNext

(* What a stream holds, someone will free, and nothing is left behind by a *)
(* client that went, but for the cases named.                              *)
THEOREM StreamsAreFreed == StreamsSpec => []NothingLeaks
<1>1. StreamsInv => NothingLeaks
  BY DEF StreamsInv, HeldBy, NothingLeaks, Holds, Connected
<1> QED
  BY <1>1, StreamsBegin, StreamsKept, PTL DEF StreamsSpec

-------------------------------------------------------------------------------
(* What a stream has set up stays in its type, its errors within the limit.*)
THEOREM StreamsTypeCorrect == StreamsSpec => []StreamsTypeOK
<1>1. StreamsInv => StreamsTypeOK
  BY DEF StreamsInv, StreamsTypeOK, StreamRow
<1> QED
  BY <1>1, StreamsBegin, StreamsKept, PTL DEF StreamsSpec

-------------------------------------------------------------------------------
(***************************************************************************)
(* Storage: a container that stopped can start again. The image it was     *)
(* made from keeps a name until a later deployment takes it.               *)
(***************************************************************************)

BoxRow == [on : 0 .. MaxImages, tag : Tags \cup {NoTag}, runs : BOOLEAN]
DeployRow == [at : {"idle", "built", "started"}, tag : Tags \cup {NoTag}]

(* What a container was made from has a name still, or was taken.          *)
Backed(b) ==
  b.on # NoImage => b.tag \in Tags /\ (named[b.tag] # NoImage \/ b.tag \in taken)

StorageTyped ==
  /\ named \in [Tags -> 0 .. MaxImages] /\ images \in 0 .. MaxImages
  /\ box \in [Services -> BoxRow] /\ fresh \in [Services -> BoxRow]
  /\ deploy \in [Services -> DeployRow]
  /\ \A s \in Services : deploy[s].at = "built" => deploy[s].tag \in Tags

BackedInv ==
  StorageTyped /\ \A s \in Services : Backed(box[s]) /\ Backed(fresh[s])

-------------------------------------------------------------------------------
LEMMA NoBoxBacked == NoBox \in BoxRow /\ Backed(NoBox)
BY StorageAssumption DEF NoBox, BoxRow, Backed, NoImage

LEMMA NoDeployTyped == NoDeploy \in DeployRow /\ NoDeploy.at = "idle"
BY DEF NoDeploy, DeployRow

LEMMA StorageBegins == StorageInit => BackedInv
<1> SUFFICES ASSUME StorageInit  PROVE BackedInv
  OBVIOUS
<1>1. named \in [Tags -> 0 .. MaxImages] /\ images \in 0 .. MaxImages
  BY StorageAssumption DEF StorageInit, NoImage
<1> QED
  BY <1>1, NoBoxBacked, NoDeployTyped DEF StorageInit, BackedInv, StorageTyped

(* Names that stay leave containers backed.                                *)
LEMMA BoxesStay ==
  ASSUME BackedInv, NEW b \in BoxRow, Backed(b), UNCHANGED <<named, taken>>
  PROVE  Backed(b)'
BY DEF Backed

(* A step of Docker's names.                                               *)
LEMMA NamesChange ==
  ASSUME BackedInv, UNCHANGED <<box, fresh>>, named' \in [Tags -> 0 .. MaxImages],
         images' \in 0 .. MaxImages, deploy' \in [Services -> DeployRow],
         \A s \in Services : deploy'[s].at = "built" => deploy'[s].tag \in Tags,
         \A s \in Services : \A b \in {box[s], fresh[s]} : b.on # NoImage =>
           named'[b.tag] # NoImage \/ b.tag \in taken'
  PROVE  BackedInv'
BY DEF BackedInv, StorageTyped, Backed

(* A step of one service that leaves the names.                            *)
LEMMA ServiceMoves ==
  ASSUME BackedInv, UNCHANGED <<named, images, taken>>, NEW s \in Services,
         NEW b \in BoxRow, NEW f \in BoxRow, NEW d \in DeployRow,
         Backed(b), Backed(f), d.at = "built" => d.tag \in Tags,
         box' = [box EXCEPT ![s] = b], fresh' = [fresh EXCEPT ![s] = f],
         deploy' = [deploy EXCEPT ![s] = d]
  PROVE  BackedInv'
<1>1. /\ box' \in [Services -> BoxRow] /\ fresh' \in [Services -> BoxRow]
      /\ deploy' \in [Services -> DeployRow]
  BY DEF BackedInv, StorageTyped
<1>2. \A u \in Services : box'[u] \in {b, box[u]} /\ fresh'[u] \in {f, fresh[u]}
                          /\ deploy'[u] \in {d, deploy[u]}
  BY DEF BackedInv, StorageTyped
<1>3. \A x : Backed(x) => Backed(x)'
  BY DEF Backed
<1>4. StorageTyped'
  BY <1>1, <1>2 DEF BackedInv, StorageTyped
<1>5. \A u \in Services : Backed(box'[u]) /\ Backed(fresh'[u])
  BY <1>2 DEF BackedInv
<1> QED
  BY <1>4, <1>5 DEF BackedInv, Backed

LEMMA StorageKept == BackedInv /\ [StorageNext]_storageVars => BackedInv'
<1> SUFFICES ASSUME BackedInv, [StorageNext]_storageVars  PROVE BackedInv'
  OBVIOUS
<1>0. /\ StorageTyped
      /\ \A s \in Services :
           /\ box[s] \in BoxRow /\ fresh[s] \in BoxRow /\ deploy[s] \in DeployRow
           /\ Backed(box[s]) /\ Backed(fresh[s])
  BY DEF BackedInv, StorageTyped
<1>s. \A s \in Services : /\ [box EXCEPT ![s] = box[s]] = box
                          /\ [fresh EXCEPT ![s] = fresh[s]] = fresh
                          /\ [deploy EXCEPT ![s] = deploy[s]] = deploy
  BY <1>0 DEF StorageTyped
<1>1. CASE UNCHANGED <<named, images, taken, box, fresh, deploy>>
  BY <1>1 DEF BackedInv, StorageTyped, Backed
<1>2. ASSUME NEW s \in Services, NEW t \in TagsOf[s], MakeImage(s, t)  PROVE BackedInv'
  <2>1. t \in Tags /\ MaxImages \in Nat
    BY StorageAssumption DEF Tags
  <2>2. /\ named' \in [Tags -> 0 .. MaxImages] /\ images' \in 0 .. MaxImages
        /\ named'[t] # NoImage /\ \A u \in Tags \ {t} : named'[u] = named[u]
    BY <1>0, <1>2, <2>1 DEF MakeImage, Docker, StorageTyped, NoImage
  <2> DEFINE d == [at |-> "built", tag |-> t]
  <2>3. d \in DeployRow /\ d.tag = t
    BY <2>1 DEF DeployRow
  <2>4. deploy' = [deploy EXCEPT ![s] = d] /\ taken' = taken \ {t} /\ UNCHANGED <<box, fresh>>
    BY <1>2 DEF MakeImage
  <2> HIDE DEF d
  <2>5. /\ deploy' \in [Services -> DeployRow]
        /\ \A u \in Services : deploy'[u].at = "built" => deploy'[u].tag \in Tags
    BY <1>0, <2>1, <2>3, <2>4 DEF StorageTyped
  <2>6. \A u \in Services : \A b \in {box[u], fresh[u]} : b.on # NoImage =>
          named'[b.tag] # NoImage \/ b.tag \in taken'
    BY <1>0, <2>2, <2>4 DEF Backed
  <2> QED
    BY <2>2, <2>4, <2>5, <2>6, NamesChange
<1>3. ASSUME NEW s \in Services, StartFresh(s)  PROVE BackedInv'
  <2> DEFINE f == [on |-> named[deploy[s].tag], tag |-> deploy[s].tag, runs |-> TRUE]
             d == [deploy[s] EXCEPT !.at = "started"]
  <2>1. deploy[s].tag \in Tags /\ named[deploy[s].tag] # NoImage
    BY <1>0, <1>3 DEF StartFresh, StorageTyped
  <2>2. f \in BoxRow /\ Backed(f)
    BY <1>0, <2>1 DEF StorageTyped, BoxRow, Backed
  <2>3. d \in DeployRow /\ d.at = "started"
    BY <1>0 DEF DeployRow
  <2>4. /\ fresh' = [fresh EXCEPT ![s] = f] /\ deploy' = [deploy EXCEPT ![s] = d]
        /\ UNCHANGED <<box, named, images, taken>>
    BY <1>3 DEF StartFresh, OnlyBoxes
  <2> HIDE DEF f, d
  <2> QED
    BY <1>0, <1>s, <2>2, <2>3, <2>4, ServiceMoves
<1>4. ASSUME NEW s \in Services, DeploySucceeds(s) \/ DeployFails(s)  PROVE BackedInv'
  <2> DEFINE b == IF DeploySucceeds(s) THEN fresh[s] ELSE box[s]
  <2>1. b \in BoxRow /\ Backed(b)
    BY <1>0
  <2>2. /\ box' = [box EXCEPT ![s] = b] /\ fresh' = [fresh EXCEPT ![s] = NoBox]
        /\ deploy' = [deploy EXCEPT ![s] = NoDeploy] /\ UNCHANGED <<named, images, taken>>
    BY <1>s, <1>4 DEF DeploySucceeds, DeployFails, OnlyBoxes
  <2> HIDE DEF b
  <2> QED
    BY <1>0, <2>1, <2>2, NoBoxBacked, NoDeployTyped, ServiceMoves
<1>5. ASSUME NEW s \in Services, Restart(s) \/ StopBox(s) \/ RemoveBox(s)  PROVE BackedInv'
  <2> DEFINE b == [on |-> named[box[s].tag], tag |-> box[s].tag, runs |-> TRUE]
             c == [box[s] EXCEPT !.runs = FALSE]
  <2>1. Restart(s) => b \in BoxRow /\ Backed(b)
    BY <1>0 DEF Restart, StorageTyped, BoxRow, Backed
  <2>2. c \in BoxRow /\ Backed(c)
    BY <1>0 DEF BoxRow, Backed
  <2>3. /\ \/ Restart(s) /\ box' = [box EXCEPT ![s] = b]
           \/ box' = [box EXCEPT ![s] = c]
           \/ box' = [box EXCEPT ![s] = NoBox]
        /\ UNCHANGED <<named, images, taken, fresh, deploy>>
    BY <1>5 DEF Restart, StopBox, RemoveBox, OnlyBoxes
  <2>4. deploy[s].at = "built" => deploy[s].tag \in Tags
    BY <1>0 DEF StorageTyped
  <2> HIDE DEF b, c
  <2> QED
    BY <1>0, <1>s, <2>1, <2>2, <2>3, <2>4, NoBoxBacked, ServiceMoves
<1>6. ASSUME NEW s \in Services, Erase(s)  PROVE BackedInv'
  <2> DEFINE gone == {t \in Tags : <<s, t>> \in rows}
  <2>1. /\ named' = [t \in Tags |-> IF t \in gone THEN NoImage ELSE named[t]]
        /\ box' = [box EXCEPT ![s] = NoBox] /\ UNCHANGED <<images, fresh, deploy>>
        /\ taken \subseteq taken'
        /\ \A t \in gone :
             (\E b \in {box[u] : u \in Services \ {s}} \cup {fresh[u] : u \in Services} :
                b.on # NoImage /\ b.tag = t) => t \in taken'
    BY <1>6 DEF Erase
  <2> HIDE DEF gone
  <2>2. /\ named' \in [Tags -> 0 .. MaxImages]
        /\ \A t \in Tags \ gone : named'[t] = named[t]
    BY <1>0, <2>1, StorageAssumption DEF StorageTyped, NoImage
  <2>3. ASSUME NEW b \in {box[u] : u \in Services \ {s}} \cup {fresh[u] : u \in Services}
        PROVE  Backed(b) => Backed(b)'
    BY <2>1, <2>2 DEF Backed
  <2>4. /\ box' \in [Services -> BoxRow] /\ box'[s] = NoBox
        /\ \A u \in Services \ {s} : box'[u] = box[u]
    BY <1>0, <2>1, NoBoxBacked DEF StorageTyped
  <2>5. StorageTyped'
    BY <1>0, <2>1, <2>2, <2>4 DEF StorageTyped
  <2>6. ASSUME NEW u \in Services  PROVE Backed(box[u])' /\ Backed(fresh[u])'
    <3>1. Backed(fresh[u])'
      BY <1>0, <2>1, <2>3 DEF Backed
    <3>2. CASE u = s
      BY <2>4, <3>1, <3>2 DEF Backed, NoBox
    <3>3. CASE u # s
      BY <1>0, <2>3, <2>4, <3>1, <3>3 DEF Backed
    <3> QED
      BY <3>2, <3>3
  <2> QED
    BY <2>5, <2>6 DEF BackedInv
<1>7. ASSUME NEW s \in Services, NEW t \in TagsOf[s], RemoveOld(s, t)  PROVE BackedInv'
  <2>1. t \in Tags /\ MaxImages \in Nat
    BY StorageAssumption DEF Tags
  <2>2. UNCHANGED <<images, box, fresh, deploy>>
    BY <1>7 DEF RemoveOld
  <2>3. CASE UNCHANGED <<named, taken>>
    BY <1>1, <2>2, <2>3
  <2>4. CASE /\ named' = [named EXCEPT ![t] = NoImage]
             /\ taken' = taken \cup {u \in {t} : \E b \in Boxes : b.tag = t}
    <3>1. /\ named' \in [Tags -> 0 .. MaxImages]
          /\ \A u \in Tags \ {t} : named'[u] = named[u]
      BY <1>0, <2>1, <2>4 DEF StorageTyped, NoImage
    <3>2. \A u \in Services : \A b \in {box[u], fresh[u]} : b.on # NoImage => b \in Boxes
      BY DEF Boxes
    <3>3. \A u \in Services : \A b \in {box[u], fresh[u]} : b.on # NoImage =>
            named'[b.tag] # NoImage \/ b.tag \in taken'
      BY <1>0, <2>4, <3>1, <3>2 DEF Backed
    <3> QED
      BY <1>0, <2>2, <3>1, <3>3, NamesChange DEF StorageTyped
  <2> QED
    BY <1>7, <2>3, <2>4 DEF RemoveOld
<1>8. ASSUME NEW i \in Image, RemoveDangling(i)  PROVE BackedInv'
  BY <1>1, <1>8 DEF RemoveDangling
<1>9. CASE ListDangling \/ ListOld \/ ListActive \/ SweepEnds
  BY <1>1, <1>9 DEF ListDangling, ListOld, ListActive, SweepEnds
<1>10. CASE UNCHANGED storageVars
  BY <1>1, <1>10 DEF storageVars
<1> QED
  BY <1>2, <1>3, <1>4, <1>5, <1>6, <1>7, <1>8, <1>9, <1>10 DEF StorageNext

(* A service that has a container can be restarted: images are listed,     *)
(* protected and removed in separate steps, but none that a container was  *)
(* made from loses its name, except to an erased homonym or as a tag that  *)
(* is old for another row.                                                 *)
THEOREM ContainersRestart == StorageSpec => []Restartable
<1>1. BackedInv => Restartable
  BY DEF BackedInv, Backed, Restartable
<1> QED
  BY <1>1, StorageBegins, StorageKept, PTL DEF StorageSpec

-------------------------------------------------------------------------------
(* The rows a sweep has read are there until it looks at them: erasing a   *)
(* service takes its rows out of both.                                     *)
SweepRow == [at : {"idle", "dangling", "old", "remove"}, dangling : SUBSET Image,
             old : SUBSET (Services \X Tags), active : SUBSET Image]
SweepInv ==
  /\ disk \subseteq Image /\ rows \subseteq Services \X Tags
  /\ last \in [Services -> Tags \cup {NoTag}]
  /\ sweep \in SweepRow /\ sweep.old \subseteq rows
  /\ erased \subseteq Services /\ taken \subseteq Tags
  /\ \A s \in Services : deploy[s].at # "idle" => deploy[s].tag \in Tags

LEMMA SweepBegins == StorageInit => SweepInv
BY DEF StorageInit, SweepInv, SweepRow, NoSweep, NoDeploy

LEMMA SweepKept == BackedInv /\ SweepInv /\ [StorageNext]_storageVars => SweepInv'
<1> SUFFICES ASSUME BackedInv, SweepInv, [StorageNext]_storageVars  PROVE SweepInv'
  OBVIOUS
<1>0. /\ deploy \in [Services -> DeployRow] /\ images \in 0 .. MaxImages
      /\ named \in [Tags -> 0 .. MaxImages]
  BY DEF BackedInv, StorageTyped
<1>1. CASE UNCHANGED storageVars
  BY <1>1 DEF storageVars, SweepInv
<1>2. ASSUME NEW s \in Services, NEW t \in TagsOf[s], MakeImage(s, t)  PROVE SweepInv'
  <2>1. t \in Tags /\ MaxImages \in Nat
    BY StorageAssumption DEF Tags
  <2>2. disk' \subseteq Image
    <3>1. CASE disk' = disk
      BY <3>1 DEF SweepInv
    <3>2. CASE images < MaxImages /\ disk' = disk \cup {images + 1}
      <4>1. images + 1 \in Image
        BY <1>0, <2>1, <3>2 DEF Image
      <4> QED
        BY <3>2, <4>1 DEF SweepInv
    <3> QED
      BY <1>2, <3>1, <3>2 DEF MakeImage, Docker
  <2>3. \A u \in Services : deploy'[u].at # "idle" => deploy'[u].tag \in Tags
    BY <1>0, <1>2, <2>1 DEF MakeImage, SweepInv
  <2> QED
    BY <1>2, <2>2, <2>3 DEF MakeImage, SweepInv
<1>3. ASSUME NEW s \in Services, StartFresh(s)  PROVE SweepInv'
  BY <1>0, <1>3 DEF StartFresh, OnlyBoxes, SweepInv, DeployRow
<1>4. ASSUME NEW s \in Services, DeploySucceeds(s)  PROVE SweepInv'
  <2>1. deploy[s].tag \in Tags
    BY <1>4 DEF DeploySucceeds, SweepInv
  <2> QED
    BY <1>0, <1>4, <2>1, NoDeployTyped DEF DeploySucceeds, OnlyBoxes, SweepInv
<1>5. ASSUME NEW s \in Services, DeployFails(s)  PROVE SweepInv'
  BY <1>0, <1>5, NoDeployTyped DEF DeployFails, OnlyBoxes, SweepInv
<1>6. ASSUME NEW s \in Services, Restart(s) \/ StopBox(s) \/ RemoveBox(s)  PROVE SweepInv'
  BY <1>6 DEF Restart, StopBox, RemoveBox, OnlyBoxes, SweepInv
<1>7. ASSUME NEW s \in Services, Erase(s)  PROVE SweepInv'
  <2>1. /\ disk' \subseteq disk /\ rows' = {r \in rows : r[1] # s}
        /\ sweep' = [sweep EXCEPT !.old = {r \in @ : r[1] # s}]
        /\ last' = [last EXCEPT ![s] = NoTag] /\ erased' = erased \cup {s}
        /\ UNCHANGED deploy /\ taken' \subseteq Tags
    BY <1>7 DEF Erase, SweepInv
  <2>2. sweep' \in SweepRow /\ sweep'.old = {r \in sweep.old : r[1] # s}
    BY <2>1 DEF SweepInv, SweepRow
  <2> QED
    BY <2>1, <2>2 DEF SweepInv
<1>8. CASE ListDangling
  <2>1. sweep' \in SweepRow /\ sweep'.old = {}
    BY <1>8 DEF ListDangling, NoSweep, SweepRow, SweepInv
  <2> QED
    BY <1>8, <2>1 DEF ListDangling, SweepInv
<1>9. ASSUME NEW i \in Image, RemoveDangling(i)  PROVE SweepInv'
  <2>1. sweep' \in SweepRow /\ sweep'.old = sweep.old /\ disk' \subseteq disk
    BY <1>9 DEF RemoveDangling, SweepRow, SweepInv
  <2> QED
    BY <1>9, <2>1 DEF RemoveDangling, SweepInv
<1>10. CASE ListOld
  <2>1. sweep' \in SweepRow /\ sweep'.old \subseteq rows
    BY <1>10 DEF ListOld, SweepRow, SweepInv
  <2> QED
    BY <1>10, <2>1 DEF ListOld, SweepInv
<1>11. CASE ListActive
  <2>1. sweep' \in SweepRow /\ sweep'.old = sweep.old
    BY <1>11 DEF ListActive, SweepRow, SweepInv
  <2> QED
    BY <1>11, <2>1 DEF ListActive, SweepInv
<1>12. ASSUME NEW s \in Services, NEW t \in TagsOf[s], RemoveOld(s, t)  PROVE SweepInv'
  <2>1. t \in Tags
    BY DEF Tags
  <2>2. sweep' \in SweepRow /\ sweep'.old \subseteq sweep.old
    BY <1>12 DEF RemoveOld, SweepRow, SweepInv
  <2>3. disk' \subseteq disk /\ taken' \subseteq taken \cup {t}
    BY <1>12 DEF RemoveOld
  <2> QED
    BY <1>12, <2>1, <2>2, <2>3 DEF RemoveOld, SweepInv
<1>13. CASE SweepEnds
  <2>1. sweep' \in SweepRow /\ sweep'.old = {}
    BY <1>13 DEF SweepEnds, NoSweep, SweepRow
  <2> QED
    BY <1>13, <2>1 DEF SweepEnds, SweepInv
<1> QED
  BY <1>1, <1>2, <1>3, <1>4, <1>5, <1>6, <1>7, <1>8, <1>9, <1>10, <1>11, <1>12, <1>13
  DEF StorageNext

(* Images, rows and what a sweep holds of them stay in their types: the    *)
(* sweep never looks at a row that has gone.                               *)
THEOREM StorageTypeCorrect == StorageSpec => []StorageTypeOK
<1>1. BackedInv /\ SweepInv => StorageTypeOK
  BY DEF BackedInv, StorageTyped, SweepInv, StorageTypeOK, BoxRow, DeployRow, SweepRow
<1> QED
  BY <1>1, StorageBegins, StorageKept, SweepBegins, SweepKept, PTL DEF StorageSpec
===============================================================================
