------------------------------ MODULE PageProofs ------------------------------
(***************************************************************************)
(* What holds of what the pages show, for any number of keys, requests,    *)
(* forms and answers in flight: feature flags, the guesses of the          *)
(* dashboard, the ports of the service forms, and the list of the          *)
(* repositories. One section per module, each with its inductive           *)
(* invariant, one lemma per action, and its theorem.                       *)
(***************************************************************************)
EXTENDS Flags, Dashboard, Configs, Wizard, FiniteSetTheorems, SequenceTheorems, TLAPS

-------------------------------------------------------------------------------
(***************************************************************************)
(* Flags: what a page is shown was true of the flag not long ago. What a   *)
(* check read, what is cached and what is shown were each true at an       *)
(* instant their time bounds.                                              *)
(***************************************************************************)

FlagEntry == [key : Keys, value : BOOLEAN, at : Int]
CheckEntry ==
  [at : {"idle", "asked", "read"}, key : Keys \cup {NoKey}, since : Int, value : BOOLEAN]
AdminEntry == [at : {"idle", "write"}, key : Keys \cup {NoKey}, on : BOOLEAN]

FlagsTyped ==
  /\ flag \in [Keys -> FlagStates] /\ edits \in Nat /\ admin \in [Admins -> AdminEntry]
  /\ \A a \in Admins : admin[a].at = "write" => admin[a].key \in Keys
  /\ clock \in Nat /\ wasLast \in [Keys -> [BOOLEAN -> Int]]
  /\ cache \in Seq(FlagEntry) /\ check \in [Checks -> CheckEntry]
  /\ shown \in [Keys -> FlagEntry]

(* The flag was b at the instant t or later.                               *)
Seen(k, b, t) == wasLast[k][b] >= 0 /\ wasLast[k][b] >= t

(* What a flag is, what a check has read, what is cached, what is shown.   *)
NowInv ==
  /\ \A k \in Keys : Seen(k, Enabled(k), clock)
  /\ \A k \in Keys, b \in BOOLEAN : wasLast[k][b] <= clock
AskedWithin(e) ==
  e.key \in Keys /\ e.since \in Nat /\ e.since <= clock /\ clock - e.since <= Delay
ChecksInv == \A c \in Checks : check[c].at # "idle" =>
  /\ AskedWithin(check[c])
  /\ check[c].at = "read" => Seen(check[c].key, check[c].value, check[c].since)
CacheInv == \A i \in DOMAIN cache : Seen(cache[i].key, cache[i].value, cache[i].at - Delay)
ShownInv == \A k \in Keys : shown[k].at >= 0 =>
  Seen(k, shown[k].value, shown[k].at - CacheTtl - Delay)

FlagsInv == FlagsTyped /\ NowInv /\ ChecksInv /\ CacheInv /\ ShownInv
-------------------------------------------------------------------------------
LEMMA FlagsBegin == FlagsInit => FlagsInv
<1> SUFFICES ASSUME FlagsInit  PROVE FlagsInv
  OBVIOUS
<1>1. NoEdit \in AdminEntry /\ NoCheck \in CheckEntry /\ NoEdit.at = "idle" /\ NoCheck.at = "idle"
  BY DEF NoEdit, AdminEntry, NoCheck, CheckEntry
<1>2. \A k \in Keys : Entry(k, FALSE, -1) \in FlagEntry /\ Entry(k, FALSE, -1).at = -1
  BY DEF Entry, FlagEntry
<1>3. wasLast \in [Keys -> [BOOLEAN -> Int]] /\ \A k \in Keys : wasLast[k][FALSE] = 0
  BY DEF FlagsInit
<1>4. flag \in [Keys -> FlagStates] /\ \A k \in Keys : Enabled(k) = FALSE
  BY DEF FlagsInit, FlagStates, Enabled
<1>5. admin \in [Admins -> AdminEntry] /\ \A a \in Admins : admin[a].at = "idle"
  BY <1>1 DEF FlagsInit
<1>6. check \in [Checks -> CheckEntry] /\ \A c \in Checks : check[c].at = "idle"
  BY <1>1 DEF FlagsInit
<1>7. shown \in [Keys -> FlagEntry] /\ \A k \in Keys : shown[k].at = -1
  BY <1>2 DEF FlagsInit
<1>8. cache \in Seq(FlagEntry) /\ DOMAIN cache = {} /\ clock = 0 /\ edits = 0
  BY DEF FlagsInit
<1>9. FlagsTyped
  BY <1>3, <1>4, <1>5, <1>6, <1>7, <1>8 DEF FlagsTyped
<1>10. NowInv
  <2>1. \A k \in Keys : wasLast[k][Enabled(k)] = 0
    BY <1>3, <1>4
  <2>2. \A k \in Keys, d \in BOOLEAN : wasLast[k][d] <= 0
    BY DEF FlagsInit
  <2> QED
    BY <1>8, <2>1, <2>2 DEF NowInv, Seen
<1>11. ChecksInv /\ CacheInv /\ ShownInv
  BY <1>6, <1>7, <1>8 DEF ChecksInv, CacheInv, ShownInv
<1> QED
  BY <1>9, <1>10, <1>11 DEF FlagsInv

(* What was true of a flag is not forgotten.                               *)
Remembers == \A k \in Keys, b \in BOOLEAN : wasLast'[k][b] >= wasLast[k][b]

LEMMA SeenLasts ==
  ASSUME FlagsTyped, wasLast' \in [Keys -> [BOOLEAN -> Int]], Remembers,
         NEW k \in Keys, NEW b \in BOOLEAN, NEW t \in Int, Seen(k, b, t)
  PROVE  Seen(k, b, t)'
<1>1. wasLast[k][b] \in Int /\ wasLast'[k][b] \in Int /\ wasLast'[k][b] >= wasLast[k][b]
  BY DEF FlagsTyped, Remembers
<1> QED
  BY <1>1 DEF Seen

(* So a change of flags disturbs no answer.                                *)
LEMMA AnswersLast ==
  ASSUME FlagsInv, wasLast' \in [Keys -> [BOOLEAN -> Int]], Remembers,
         UNCHANGED <<cache, check, shown>>
  PROVE  /\ CacheInv' /\ ShownInv'
         /\ UNCHANGED clock => ChecksInv'
         /\ \A c \in Checks : check[c].at = "read" =>
              Seen(check[c].key, check[c].value, check[c].since)'
<1>1. CacheInv'
  <2> SUFFICES ASSUME NEW i \in DOMAIN cache
               PROVE  Seen(cache[i].key, cache[i].value, cache[i].at - Delay)'
    BY DEF CacheInv
  <2>1. cache[i].key \in Keys /\ cache[i].value \in BOOLEAN /\ cache[i].at - Delay \in Int
    <3>1. cache[i] \in FlagEntry
      BY DEF FlagsInv, FlagsTyped
    <3> QED
      BY <3>1, FlagsAssumption DEF FlagEntry
  <2>2. Seen(cache[i].key, cache[i].value, cache[i].at - Delay)
    BY DEF FlagsInv, CacheInv
  <2> QED
    BY <2>1, <2>2, SeenLasts DEF FlagsInv
<1>2. ShownInv'
  <2> SUFFICES ASSUME NEW k \in Keys, shown[k].at >= 0
               PROVE  Seen(k, shown[k].value, shown[k].at - CacheTtl - Delay)'
    BY DEF ShownInv
  <2>1. shown[k].value \in BOOLEAN /\ shown[k].at - CacheTtl - Delay \in Int
    BY FlagsAssumption DEF FlagsInv, FlagsTyped, FlagEntry
  <2>2. Seen(k, shown[k].value, shown[k].at - CacheTtl - Delay)
    BY DEF FlagsInv, ShownInv
  <2> QED
    BY <2>1, <2>2, SeenLasts DEF FlagsInv
<1>3. ASSUME NEW c \in Checks, check[c].at = "read"
      PROVE  Seen(check[c].key, check[c].value, check[c].since)'
  <2>1. check[c].key \in Keys /\ check[c].value \in BOOLEAN /\ check[c].since \in Int
    BY <1>3 DEF FlagsInv, FlagsTyped, CheckEntry, ChecksInv, AskedWithin
  <2>2. Seen(check[c].key, check[c].value, check[c].since)
    BY <1>3 DEF FlagsInv, ChecksInv
  <2> QED
    BY <2>1, <2>2, SeenLasts DEF FlagsInv
<1>4. UNCHANGED clock => ChecksInv'
  BY <1>3 DEF FlagsInv, ChecksInv, AskedWithin
<1> QED
  BY <1>1, <1>2, <1>3, <1>4

(* One instant of a function of instants is written.                       *)
LEMMA FunWritten ==
  ASSUME NEW S, NEW row \in [S -> Int], NEW b \in S, NEW t \in Int
  PROVE  LET r == [row EXCEPT ![b] = t] IN
         r \in [S -> Int] /\ r[b] = t /\ \A d \in S \ {b} : r[d] = row[d]
OBVIOUS

(* A flag is written.                                                      *)
LEMMA SetsKeeps ==
  ASSUME FlagsInv, NEW k \in Keys, NEW state \in FlagStates, Sets(k, state), OnlyFlags,
         edits' \in Nat, admin' \in [Admins -> AdminEntry],
         \A a \in Admins : admin'[a].at = "write" => admin'[a].key \in Keys
  PROVE  FlagsInv'
<1>1. /\ flag' = [flag EXCEPT ![k] = state] /\ UNCHANGED <<clock, cache, check, shown>>
      /\ wasLast' = [wasLast EXCEPT ![k] = [wasLast[k] EXCEPT ![state = "on"] = clock]]
  BY DEF Sets, OnlyFlags
<1>2. PICK b \in BOOLEAN : b = (state = "on")
  OBVIOUS
<1>3. clock \in Nat /\ wasLast[k] \in [BOOLEAN -> Int] /\ wasLast \in [Keys -> [BOOLEAN -> Int]]
      /\ flag \in [Keys -> FlagStates]
  BY DEF FlagsInv, FlagsTyped
<1>4. PICK row \in [BOOLEAN -> Int] :
        /\ wasLast' = [wasLast EXCEPT ![k] = row]
        /\ row[b] = clock /\ \A d \in BOOLEAN \ {b} : row[d] = wasLast[k][d]
  <2> DEFINE row == [wasLast[k] EXCEPT ![b] = clock]
  <2>1. row \in [BOOLEAN -> Int] /\ row[b] = clock
        /\ \A d \in BOOLEAN \ {b} : row[d] = wasLast[k][d]
    BY <1>3, FunWritten
  <2>2. wasLast' = [wasLast EXCEPT ![k] = row]
    BY <1>1, <1>2
  <2> HIDE DEF row
  <2> QED
    BY <2>1, <2>2
<1>5. /\ wasLast' \in [Keys -> [BOOLEAN -> Int]] /\ wasLast'[k] = row
      /\ \A j \in Keys \ {k} : wasLast'[j] = wasLast[j]
      /\ flag' \in [Keys -> FlagStates] /\ flag'[k] = state
      /\ \A j \in Keys \ {k} : flag'[j] = flag[j]
  BY <1>1, <1>3, <1>4
<1>6. Remembers
  BY <1>3, <1>4, <1>5 DEF Remembers, FlagsInv, NowInv
<1>7. CacheInv' /\ ShownInv' /\ ChecksInv'
  BY <1>1, <1>5, <1>6, AnswersLast
<1>8. FlagsTyped'
  BY <1>1, <1>5 DEF FlagsInv, FlagsTyped
<1>9. NowInv'
  <2>1. ASSUME NEW j \in Keys \ {k}  PROVE Seen(j, Enabled(j), clock)'
    BY <1>1, <1>5 DEF FlagsInv, NowInv, Seen, Enabled
  <2>2. wasLast'[k][b] = clock /\ Enabled(k)' = b
    BY <1>2, <1>4, <1>5 DEF Enabled
  <2>3. Seen(k, Enabled(k), clock)'
    BY <1>1, <1>3, <2>2 DEF Seen
  <2>4. \A j \in Keys, d \in BOOLEAN : wasLast'[j][d] <= clock
    BY <1>3, <1>4, <1>5 DEF FlagsInv, NowInv
  <2> QED
    BY <1>1, <2>1, <2>3, <2>4 DEF NowInv
<1> QED
  BY <1>7, <1>8, <1>9 DEF FlagsInv

LEMMA EditsKeep ==
  /\ \A k \in Keys, on \in BOOLEAN : FlagsInv /\ CreateFlag(k, on) => FlagsInv'
  /\ \A k \in Keys : FlagsInv /\ DeleteFlag(k) => FlagsInv'
<1>1. ASSUME FlagsInv, NEW k \in Keys, NEW state \in FlagStates, Sets(k, state), OnlyFlags,
             edits' = edits + 1, UNCHANGED admin
      PROVE  FlagsInv'
  <2>1. /\ edits' \in Nat /\ admin' \in [Admins -> AdminEntry]
        /\ \A a \in Admins : admin'[a].at = "write" => admin'[a].key \in Keys
    BY <1>1 DEF FlagsInv, FlagsTyped
  <2> QED
    BY <1>1, <2>1, SetsKeeps
<1> QED
  BY <1>1 DEF CreateFlag, DeleteFlag, FlagStates

(* The pages of the administrators.                                        *)
LEMMA AdminWritten ==
  ASSUME FlagsInv, NEW a \in Admins, NEW e \in AdminEntry, e.at = "write" => e.key \in Keys,
         admin' = [admin EXCEPT ![a] = e]
  PROVE  /\ admin' \in [Admins -> AdminEntry]
         /\ \A c \in Admins : admin'[c].at = "write" => admin'[c].key \in Keys
BY DEF FlagsInv, FlagsTyped

LEMMA FormsKeep == \A a \in Admins, k \in Keys :
  FlagsInv /\ (OpenForm(a, k) \/ ReadToggle(a, k)) => FlagsInv'
<1> SUFFICES ASSUME FlagsInv, NEW a \in Admins, NEW k \in Keys, OpenForm(a, k) \/ ReadToggle(a, k)
             PROVE  FlagsInv'
  OBVIOUS
<1>1. PICK on \in BOOLEAN : admin' = [admin EXCEPT ![a] = [at |-> "write", key |-> k, on |-> on]]
  BY DEF OpenForm, ReadToggle, Enabled
<1>2. UNCHANGED <<flag, edits, wasLast, clock, cache, check, shown>>
  BY DEF OpenForm, ReadToggle, OnlyFlags
<1>3. [at |-> "write", key |-> k, on |-> on] \in AdminEntry
  BY DEF AdminEntry
<1>4. /\ admin' \in [Admins -> AdminEntry]
      /\ \A c \in Admins : admin'[c].at = "write" => admin'[c].key \in Keys
  BY <1>1, <1>3, AdminWritten
<1> QED
  BY <1>2, <1>4 DEF FlagsInv, FlagsTyped, NowInv, ChecksInv, CacheInv, ShownInv, Seen, Enabled,
     AskedWithin

LEMMA WriteFlagKeeps == \A a \in Admins : FlagsInv /\ WriteFlag(a) => FlagsInv'
<1> SUFFICES ASSUME FlagsInv, NEW a \in Admins, WriteFlag(a)  PROVE FlagsInv'
  OBVIOUS
<1> DEFINE k == admin[a].key
<1>1. k \in Keys /\ admin' = [admin EXCEPT ![a] = NoEdit] /\ OnlyFlags
  BY DEF WriteFlag, FlagsInv, FlagsTyped
<1>2. NoEdit \in AdminEntry /\ NoEdit.at = "idle"
  BY DEF NoEdit, AdminEntry
<1>3. /\ admin' \in [Admins -> AdminEntry]
      /\ \A c \in Admins : admin'[c].at = "write" => admin'[c].key \in Keys
  BY <1>1, <1>2, AdminWritten
<1>4. CASE UNCHANGED <<flag, edits, wasLast>>
  BY <1>1, <1>3, <1>4 DEF OnlyFlags, FlagsInv, FlagsTyped, NowInv, ChecksInv, CacheInv, ShownInv,
     Seen, Enabled, AskedWithin
<1>5. ASSUME NEW state \in FlagStates, Sets(k, state), edits' = edits + 1  PROVE FlagsInv'
  <2>1. edits' \in Nat
    BY <1>5 DEF FlagsInv, FlagsTyped
  <2> HIDE DEF k
  <2> QED
    BY <1>1, <1>3, <1>5, <2>1, SetsKeeps
<1> QED
  BY <1>4, <1>5 DEF WriteFlag, FlagStates

-------------------------------------------------------------------------------
(* Checks of the dashboard: flags and clock stay.                          *)
LEMMA ChecksKeep ==
  ASSUME FlagsInv, OnlyPage, cache' \in Seq(FlagEntry), check' \in [Checks -> CheckEntry],
         shown' \in [Keys -> FlagEntry], ChecksInv', CacheInv', ShownInv'
  PROVE  FlagsInv'
BY DEF OnlyPage, FlagsInv, FlagsTyped, NowInv, Seen, Enabled

(* A page is shown what was true not long ago.                             *)
LEMMA ShowsKeeps ==
  ASSUME FlagsInv, NEW k \in Keys, NEW b \in BOOLEAN, NEW t \in Int, UNCHANGED wasLast,
         ShowsFlag(k, Entry(k, b, t)), t >= 0 => Seen(k, b, t - CacheTtl - Delay)
  PROVE  shown' \in [Keys -> FlagEntry] /\ ShownInv'
<1>1. /\ Entry(k, b, t) \in FlagEntry /\ Entry(k, b, t).value = b /\ Entry(k, b, t).at = t
  BY DEF Entry, FlagEntry
<1>2. /\ shown' \in [Keys -> FlagEntry] /\ shown'[k] = Entry(k, b, t)
      /\ \A j \in Keys \ {k} : shown'[j] = shown[j]
  BY <1>1 DEF ShowsFlag, FlagsInv, FlagsTyped
<1>3. ShownInv'
  BY <1>1, <1>2 DEF FlagsInv, ShownInv, Seen
<1> QED
  BY <1>2, <1>3

(* A check moves on.                                                       *)
LEMMA CheckMoved ==
  ASSUME FlagsInv, NEW c \in Checks, NEW e \in CheckEntry, check' = [check EXCEPT ![c] = e],
         UNCHANGED <<clock, wasLast>>,
         e.at # "idle" => AskedWithin(e),
         e.at = "read" => Seen(e.key, e.value, e.since)
  PROVE  check' \in [Checks -> CheckEntry] /\ ChecksInv'
<1>1. /\ check' \in [Checks -> CheckEntry] /\ check'[c] = e
      /\ \A d \in Checks \ {c} : check'[d] = check[d]
  BY DEF FlagsInv, FlagsTyped
<1>2. ChecksInv'
  BY <1>1 DEF FlagsInv, ChecksInv, AskedWithin, Seen
<1> QED
  BY <1>1, <1>2

LEMMA NoCheckEntry == NoCheck \in CheckEntry /\ NoCheck.at = "idle"
BY DEF NoCheck, CheckEntry

LEMMA AskFlagKeeps == \A c \in Checks, k \in Keys : FlagsInv /\ AskFlag(c, k) => FlagsInv'
<1> SUFFICES ASSUME FlagsInv, NEW c \in Checks, NEW k \in Keys, AskFlag(c, k)
             PROVE  FlagsInv'
  OBVIOUS
<1>1. UNCHANGED cache /\ OnlyPage /\ UNCHANGED <<clock, wasLast>> /\ clock \in Nat
      /\ cache \in Seq(FlagEntry) /\ check \in [Checks -> CheckEntry]
      /\ shown \in [Keys -> FlagEntry]
  BY DEF AskFlag, OnlyPage, FlagsInv, FlagsTyped
<1>2. CacheInv'
  BY <1>1 DEF FlagsInv, CacheInv, Seen
<1>3. ASSUME NEW i \in Cached(k), Fresh(i), UNCHANGED check,
             ShowsFlag(k, Entry(k, cache[i].value, clock))
      PROVE  FlagsInv'
  <2>1. i \in DOMAIN cache /\ cache[i] \in FlagEntry /\ cache[i].key = k
    BY <1>1 DEF Cached
  <2>2. cache[i].at \in Int /\ cache[i].value \in BOOLEAN
    BY <2>1 DEF FlagEntry
  <2>3. Seen(k, cache[i].value, cache[i].at - Delay)
    BY <2>1 DEF FlagsInv, CacheInv
  <2>4. wasLast[k][cache[i].value] \in Int
    BY <2>2 DEF FlagsInv, FlagsTyped
  <2>5. Seen(k, cache[i].value, clock - CacheTtl - Delay)
    BY <1>1, <1>3, <2>2, <2>3, <2>4, FlagsAssumption DEF Seen, Fresh
  <2>6. shown' \in [Keys -> FlagEntry] /\ ShownInv'
    BY <1>1, <1>3, <2>2, <2>5, ShowsKeeps
  <2>7. ChecksInv'
    BY <1>1, <1>3 DEF FlagsInv, ChecksInv, Seen, AskedWithin
  <2> QED
    BY <1>1, <1>2, <1>3, <2>6, <2>7, ChecksKeep
<1>4. ASSUME check' = [check EXCEPT ![c] =
               [at |-> "asked", key |-> k, since |-> clock, value |-> FALSE]],
             UNCHANGED shown
      PROVE  FlagsInv'
  <2> DEFINE e == [at |-> "asked", key |-> k, since |-> clock, value |-> FALSE]
  <2>1. e \in CheckEntry /\ e.at = "asked" /\ AskedWithin(e)
    BY <1>1, FlagsAssumption DEF CheckEntry, AskedWithin
  <2>2. check' = [check EXCEPT ![c] = e]
    BY <1>4
  <2> HIDE DEF e
  <2>3. check' \in [Checks -> CheckEntry] /\ ChecksInv'
    BY <1>1, <2>1, <2>2, CheckMoved
  <2>4. ShownInv'
    BY <1>1, <1>4 DEF FlagsInv, ShownInv, Seen
  <2> QED
    BY <1>1, <1>2, <1>4, <2>3, <2>4, ChecksKeep
<1> QED
  BY <1>3, <1>4 DEF AskFlag

LEMMA ReadFlagKeeps == \A c \in Checks : FlagsInv /\ ReadFlag(c) => FlagsInv'
<1> SUFFICES ASSUME FlagsInv, NEW c \in Checks, ReadFlag(c)  PROVE FlagsInv'
  OBVIOUS
<1>1. UNCHANGED <<cache, shown>> /\ OnlyPage /\ UNCHANGED <<clock, wasLast>>
      /\ cache \in Seq(FlagEntry) /\ shown \in [Keys -> FlagEntry]
      /\ check[c] \in CheckEntry /\ check[c].at = "asked" /\ AskedWithin(check[c])
  BY DEF ReadFlag, OnlyPage, FlagsInv, FlagsTyped, ChecksInv
<1>2. CacheInv' /\ ShownInv'
  BY <1>1 DEF FlagsInv, CacheInv, ShownInv, Seen
<1> DEFINE k == check[c].key
           e == [check[c] EXCEPT !.at = "read", !.value = Enabled(k)]
<1>3. k \in Keys /\ Enabled(k) \in BOOLEAN
  BY <1>1 DEF AskedWithin, Enabled
<1>4. /\ e \in CheckEntry /\ e.at = "read" /\ e.value = Enabled(k) /\ e.key = k
      /\ e.since = check[c].since
  BY <1>1, <1>3 DEF CheckEntry
<1>5. check' = [check EXCEPT ![c] = e]
  BY DEF ReadFlag
<1> HIDE DEF e
<1>6. AskedWithin(e)
  BY <1>1, <1>4 DEF AskedWithin
<1>7. Seen(k, Enabled(k), clock) /\ wasLast[k][Enabled(k)] \in Int /\ clock \in Nat
  BY <1>3 DEF FlagsInv, FlagsTyped, NowInv
<1>8. Seen(e.key, e.value, e.since)
  BY <1>4, <1>6, <1>7 DEF Seen, AskedWithin
<1>9. check' \in [Checks -> CheckEntry] /\ ChecksInv'
  BY <1>1, <1>4, <1>5, <1>6, <1>8, CheckMoved
<1> QED
  BY <1>1, <1>2, <1>9, ChecksKeep

(* What the cache has after an answer is that answer and what it had.      *)
LEMMA EvictedHas ==
  ASSUME FlagsInv
  PROVE  /\ Evicted \in Seq(FlagEntry)
         /\ \A i \in DOMAIN Evicted : \E j \in DOMAIN cache : Evicted[i] = cache[j]
<1>1. cache \in Seq(FlagEntry) /\ Len(cache) \in Nat /\ MaxCache \in Nat
  BY FlagsAssumption DEF FlagsInv, FlagsTyped
<1>2. CASE Len(cache) <= MaxCache
  BY <1>1, <1>2 DEF Evicted
<1>3. CASE Len(cache) > MaxCache
  <2> DEFINE m == Len(cache) - MaxCache + 1  n == Len(cache)
  <2>1. m \in Int /\ n \in Int /\ \A i \in m .. n : i \in DOMAIN cache /\ cache[i] \in FlagEntry
    BY <1>1, <1>3
  <2>2. Evicted = SubSeq(cache, m, n)
    BY <1>1, <1>3 DEF Evicted
  <2>3. /\ Evicted \in Seq(FlagEntry) /\ Len(Evicted) = n - m + 1
        /\ \A i \in 1 .. n - m + 1 : Evicted[i] = cache[m + i - 1]
    BY <1>1, <1>3, <2>1, <2>2, SubSeqProperties
  <2>4. ASSUME NEW i \in DOMAIN Evicted
        PROVE  Evicted[i] = cache[m + i - 1] /\ m + i - 1 \in DOMAIN cache
    BY <1>1, <1>3, <2>1, <2>3
  <2> QED
    BY <2>3, <2>4
<1> QED
  BY <1>1, <1>2, <1>3

LEMMA PutHas ==
  ASSUME NEW entries \in Seq(FlagEntry), NEW e \in FlagEntry
  PROVE  /\ Put(entries, e) \in Seq(FlagEntry)
         /\ \A i \in DOMAIN Put(entries, e) :
              Put(entries, e)[i] = e
              \/ \E j \in DOMAIN entries : Put(entries, e)[i] = entries[j]
<1>1. CASE \E i \in DOMAIN entries : entries[i].key = e.key
  <2>1. Put(entries, e) =
          [i \in DOMAIN entries |-> IF entries[i].key = e.key THEN e ELSE entries[i]]
    BY <1>1 DEF Put
  <2>2. DOMAIN entries = 1 .. Len(entries) /\ Len(entries) \in Nat
    OBVIOUS
  <2>3. \A i \in 1 .. Len(entries) :
          (IF entries[i].key = e.key THEN e ELSE entries[i]) \in FlagEntry
    OBVIOUS
  <2>4. Put(entries, e) \in Seq(FlagEntry)
    BY <2>1, <2>2, <2>3
  <2> QED
    BY <2>1, <2>4
<1>2. CASE ~\E i \in DOMAIN entries : entries[i].key = e.key
  <2>1. Put(entries, e) = Append(entries, e)
    BY <1>2 DEF Put
  <2> QED
    BY <2>1
<1> QED
  BY <1>1, <1>2

LEMMA ComesKeepsRecent == \A c \in Checks : FlagsInv /\ AnswerComes(c) => FlagsInv'
<1> SUFFICES ASSUME FlagsInv, NEW c \in Checks, AnswerComes(c)  PROVE FlagsInv'
  OBVIOUS
<1> DEFINE k == check[c].key  b == check[c].value
           e == Entry(k, b, clock)
<1>1. /\ OnlyPage /\ UNCHANGED <<clock, wasLast>> /\ clock \in Nat
      /\ check[c] \in CheckEntry /\ AskedWithin(check[c]) /\ Seen(k, b, check[c].since)
      /\ k \in Keys /\ b \in BOOLEAN
  BY DEF AnswerComes, OnlyPage, FlagsInv, FlagsTyped, ChecksInv, CheckEntry, AskedWithin
<1>2. cache' = Put(Evicted, e) /\ ShowsFlag(k, e) /\ check' = [check EXCEPT ![c] = NoCheck]
  BY DEF AnswerComes, Entry
<1>3. e \in FlagEntry /\ e.key = k /\ e.value = b /\ e.at = clock
  BY <1>1 DEF Entry, FlagEntry
<1>4. Seen(k, b, clock - Delay) /\ Seen(k, b, clock - CacheTtl - Delay)
  <2>1. wasLast[k][b] \in Int /\ check[c].since \in Int /\ clock - check[c].since <= Delay
    BY <1>1 DEF FlagsInv, FlagsTyped, AskedWithin
  <2> QED
    BY <1>1, <2>1, FlagsAssumption DEF Seen
<1>5. shown' \in [Keys -> FlagEntry] /\ ShownInv'
  BY <1>1, <1>2, <1>4, ShowsKeeps
<1>6. check' \in [Checks -> CheckEntry] /\ ChecksInv'
  BY <1>1, <1>2, NoCheckEntry, CheckMoved
<1> HIDE DEF e, k, b
<1>7. /\ cache' \in Seq(FlagEntry)
      /\ \A i \in DOMAIN cache' : cache'[i] = e \/ \E j \in DOMAIN cache : cache'[i] = cache[j]
  BY <1>2, <1>3, EvictedHas, PutHas
<1>8. CacheInv'
  <2> SUFFICES ASSUME NEW i \in DOMAIN cache'
               PROVE  Seen(cache'[i].key, cache'[i].value, cache'[i].at - Delay)
    BY <1>1 DEF CacheInv, Seen
  <2> QED
    BY <1>3, <1>4, <1>7 DEF FlagsInv, CacheInv
<1> QED
  BY <1>1, <1>5, <1>6, <1>7, <1>8, ChecksKeep

LEMMA FailsKeeps == \A c \in Checks : FlagsInv /\ CheckFails(c) => FlagsInv'
<1> SUFFICES ASSUME FlagsInv, NEW c \in Checks, CheckFails(c)  PROVE FlagsInv'
  OBVIOUS
<1>1. /\ UNCHANGED cache /\ OnlyPage /\ UNCHANGED <<clock, wasLast>>
      /\ cache \in Seq(FlagEntry) /\ check[c].key \in Keys
      /\ ShowsFlag(check[c].key, Entry(check[c].key, FALSE, -1))
      /\ check' = [check EXCEPT ![c] = NoCheck]
  BY DEF CheckFails, OnlyPage, FlagsInv, FlagsTyped, ChecksInv, AskedWithin
<1>2. CacheInv'
  BY <1>1 DEF FlagsInv, CacheInv, Seen
<1>3. shown' \in [Keys -> FlagEntry] /\ ShownInv'
  <2>1. -1 \in Int /\ ~(-1 >= 0) /\ FALSE \in BOOLEAN
    OBVIOUS
  <2>2. PICK t \in Int : t = -1
    BY <2>1
  <2> QED
    BY <1>1, <2>1, <2>2, ShowsKeeps
<1>4. check' \in [Checks -> CheckEntry] /\ ChecksInv'
  BY <1>1, NoCheckEntry, CheckMoved
<1> QED
  BY <1>1, <1>2, <1>3, <1>4, ChecksKeep

(* An instant later the flags are what they were.                          *)
LEMMA TimeKeeps == FlagsInv /\ TimePasses => FlagsInv'
<1> SUFFICES ASSUME FlagsInv, TimePasses  PROVE FlagsInv'
  OBVIOUS
<1>1. /\ clock' = clock + 1 /\ clock \in Nat /\ wasLast \in [Keys -> [BOOLEAN -> Int]]
      /\ \A c \in Checks : check[c].at # "idle" => clock - check[c].since < Delay
      /\ wasLast' = [k \in Keys |-> [wasLast[k] EXCEPT ![Enabled(k)] = clock + 1]]
      /\ UNCHANGED <<flag, edits, admin, cache, check, shown>>
  BY DEF TimePasses, FlagsInv, FlagsTyped
<1>2. ASSUME NEW k \in Keys
      PROVE  /\ wasLast'[k] \in [BOOLEAN -> Int] /\ wasLast'[k][Enabled(k)] = clock + 1
             /\ \A d \in BOOLEAN \ {Enabled(k)} : wasLast'[k][d] = wasLast[k][d]
  <2>1. PICK row \in [BOOLEAN -> Int], b \in BOOLEAN : row = wasLast[k] /\ b = Enabled(k)
    BY <1>1 DEF Enabled
  <2>2. wasLast'[k] = [row EXCEPT ![b] = clock + 1]
    BY <1>1, <2>1
  <2>3. clock + 1 \in Int
    BY <1>1
  <2> QED
    BY <2>1, <2>2, <2>3, FunWritten
<1>3. wasLast' \in [Keys -> [BOOLEAN -> Int]]
  BY <1>1, <1>2
<1>4. \A k \in Keys, d \in BOOLEAN : wasLast'[k][d] = clock + 1 \/ wasLast'[k][d] = wasLast[k][d]
  BY <1>2
<1>5. \A k \in Keys, d \in BOOLEAN : wasLast[k][d] \in Int /\ wasLast[k][d] <= clock
  BY <1>1 DEF FlagsInv, NowInv
<1>6. Remembers
  BY <1>1, <1>4, <1>5 DEF Remembers
<1>7. /\ CacheInv' /\ ShownInv'
      /\ \A c \in Checks : check[c].at = "read" =>
           Seen(check[c].key, check[c].value, check[c].since)'
  BY <1>1, <1>3, <1>6, AnswersLast
<1>8. ChecksInv'
  <2>1. \A c \in Checks : check[c].at # "idle" => AskedWithin(check[c])'
    BY <1>1, FlagsAssumption DEF FlagsInv, ChecksInv, AskedWithin
  <2> QED
    BY <1>1, <1>7, <2>1 DEF ChecksInv
<1>9. NowInv'
  <2>1. \A k \in Keys : Enabled(k)' = Enabled(k) /\ Enabled(k) \in BOOLEAN
    BY <1>1 DEF Enabled
  <2>2. \A k \in Keys : Seen(k, Enabled(k), clock)'
    BY <1>1, <1>2, <2>1 DEF Seen
  <2>3. \A k \in Keys, d \in BOOLEAN : wasLast'[k][d] <= clock'
    BY <1>1, <1>4, <1>5
  <2> QED
    BY <2>2, <2>3 DEF NowInv
<1>10. FlagsTyped'
  BY <1>1, <1>3 DEF FlagsInv, FlagsTyped
<1> QED
  BY <1>7, <1>8, <1>9, <1>10 DEF FlagsInv

LEMMA FlagsKept == FlagsInv /\ [FlagsNext]_flagsVars => FlagsInv'
<1> SUFFICES ASSUME FlagsInv, [FlagsNext]_flagsVars  PROVE FlagsInv'
  OBVIOUS
<1>1. CASE UNCHANGED flagsVars
  BY <1>1 DEF flagsVars, FlagsInv, FlagsTyped, NowInv, ChecksInv, CacheInv, ShownInv, Seen,
     Enabled, AskedWithin
<1>2. CASE FlagsNext
  BY <1>2, EditsKeep, FormsKeep, WriteFlagKeeps, AskFlagKeeps, ReadFlagKeeps, ComesKeepsRecent,
     FailsKeeps, TimeKeeps
  DEF FlagsNext
<1> QED
  BY <1>1, <1>2

(* A page is never shown what was not true of the flag within the time an  *)
(* answer is cached and a check takes, whatever the size of the cache, the *)
(* number of pages and the order of answers (FeatureFlagClient.isEnabled). *)
THEOREM AnswersAreRecent == FlagsSpec => []AnswersRecent
<1>1. FlagsInv => AnswersRecent
  <2> SUFFICES ASSUME FlagsInv, NEW k \in Keys, shown[k].at >= 0
               PROVE  /\ wasLast[k][shown[k].value] >= 0
                      /\ shown[k].at - wasLast[k][shown[k].value] < CacheTtl + Delay + 1
    BY DEF AnswersRecent
  <2>1. Seen(k, shown[k].value, shown[k].at - CacheTtl - Delay)
    BY DEF FlagsInv, ShownInv
  <2>2. shown[k].value \in BOOLEAN /\ shown[k].at \in Int
    BY DEF FlagsInv, FlagsTyped, FlagEntry
  <2>3. wasLast[k][shown[k].value] \in Int
    BY <2>2 DEF FlagsInv, FlagsTyped
  <2> QED
    BY <2>1, <2>2, <2>3, FlagsAssumption DEF Seen
<1> QED
  BY <1>1, FlagsBegin, FlagsKept, PTL DEF FlagsSpec

-------------------------------------------------------------------------------
(* What the invariant leaves open of the types: instants are instants of   *)
(* the clock, and the cache has at most one answer more than its limit,    *)
(* because it makes room before it takes one in.                           *)
FlagsBounds ==
  /\ edits <= MaxEdits /\ clock <= Until
  /\ \A k \in Keys, b \in BOOLEAN : wasLast[k][b] >= -1
  /\ \A i \in DOMAIN cache : cache[i].at \in Instants
  /\ Len(cache) <= MaxCache + 1
  /\ \A c \in Checks : check[c].since \in Instants
  /\ \A k \in Keys : shown[k].at \in Instants

LEMMA NowIsInstant == FlagsInv /\ FlagsBounds => clock \in Instants /\ -1 \in Instants
BY FlagsAssumption DEF FlagsInv, FlagsTyped, FlagsBounds, Instants

LEMMA BoundsBegin == FlagsInit => FlagsBounds
<1> SUFFICES ASSUME FlagsInit  PROVE FlagsBounds
  OBVIOUS
<1>1. edits <= MaxEdits /\ clock <= Until /\ -1 \in Instants /\ 0 \in Instants
  BY FlagsAssumption DEF FlagsInit, Instants
<1>2. \A k \in Keys, b \in BOOLEAN : wasLast[k][b] >= -1
  BY DEF FlagsInit
<1>3. Len(cache) <= MaxCache + 1 /\ \A i \in DOMAIN cache : cache[i].at \in Instants
  BY FlagsAssumption DEF FlagsInit
<1>4. \A c \in Checks : check[c].since \in Instants
  BY <1>1 DEF FlagsInit, NoCheck
<1>5. \A k \in Keys : shown[k].at \in Instants
  BY <1>1 DEF FlagsInit, Entry
<1> QED
  BY <1>1, <1>2, <1>3, <1>4, <1>5 DEF FlagsBounds

(* A flag is written at an instant.                                        *)
LEMMA WrittenInBounds ==
  ASSUME FlagsInv, FlagsInv', FlagsBounds, NEW k \in Keys, NEW state \in FlagStates,
         Sets(k, state), OnlyFlags, edits < MaxEdits, edits' = edits + 1
  PROVE  FlagsBounds'
<1>1. wasLast \in [Keys -> [BOOLEAN -> Int]] /\ clock \in Nat /\ edits \in Nat
  BY DEF FlagsInv, FlagsTyped
<1>2. \A j \in Keys, b \in BOOLEAN : wasLast'[j][b] = clock \/ wasLast'[j][b] = wasLast[j][b]
  BY <1>1 DEF Sets
<1>3. \A j \in Keys, b \in BOOLEAN : wasLast'[j][b] >= -1
  BY <1>1, <1>2 DEF FlagsBounds
<1> QED
  BY <1>1, <1>3, FlagsAssumption DEF FlagsBounds, OnlyFlags

LEMMA AnswerInBounds ==
  ASSUME FlagsInv, FlagsBounds, NEW c \in Checks, AnswerComes(c)
  PROVE  FlagsBounds'
<1> DEFINE e == Entry(check[c].key, check[c].value, clock)
<1>1. /\ OnlyPage /\ cache' = Put(Evicted, e) /\ shown' = [shown EXCEPT ![e.key] = e]
      /\ check' = [check EXCEPT ![c] = NoCheck] /\ clock \in Instants /\ e.at = clock
  BY NowIsInstant DEF AnswerComes, ShowsFlag, Entry
<1>2. e \in FlagEntry
  BY DEF AnswerComes, FlagsInv, FlagsTyped, ChecksInv, AskedWithin, CheckEntry, Entry, FlagEntry
<1> HIDE DEF e
<1>3. cache \in Seq(FlagEntry) /\ Evicted \in Seq(FlagEntry) /\ MaxCache \in Nat
  BY EvictedHas, FlagsAssumption DEF FlagsInv, FlagsTyped
<1>4. Len(Evicted) <= MaxCache
  <2>1. CASE Len(cache) <= MaxCache
    BY <2>1 DEF Evicted
  <2>2. CASE Len(cache) > MaxCache
    <3>1. \A i \in Len(cache) - MaxCache + 1 .. Len(cache) : i \in 1 .. Len(cache)
      BY <1>3, <2>2
    <3>2. Evicted = SubSeq(cache, Len(cache) - MaxCache + 1, Len(cache))
      BY <1>3, <2>2 DEF Evicted
    <3> QED
      BY <1>3, <2>2, <3>2
  <2> QED
    BY <1>3, <2>1, <2>2
<1>5. Len(cache') <= MaxCache + 1
  <2>1. CASE \E i \in DOMAIN Evicted : Evicted[i].key = e.key
    <3>1. cache' = [i \in DOMAIN Evicted |-> IF Evicted[i].key = e.key THEN e ELSE Evicted[i]]
      BY <1>1, <2>1 DEF Put
    <3>2. cache' \in Seq(FlagEntry)
      BY <1>1, <1>2, <1>3, PutHas
    <3>3. Len(cache') = Len(Evicted)
      BY <1>3, <3>1, <3>2
    <3> QED
      BY <1>3, <1>4, <3>3
  <2>2. CASE ~\E i \in DOMAIN Evicted : Evicted[i].key = e.key
    <3>1. cache' = Append(Evicted, e)
      BY <1>1, <2>2 DEF Put
    <3> QED
      BY <1>2, <1>3, <1>4, <3>1
  <2> QED
    BY <2>1, <2>2
<1>6. \A i \in DOMAIN cache' : cache'[i].at \in Instants
  <2>1. \A i \in DOMAIN cache' : cache'[i] = e \/ \E j \in DOMAIN cache : cache'[i] = cache[j]
    BY <1>1, <1>2, <1>3, EvictedHas, PutHas
  <2> QED
    BY <1>1, <2>1 DEF FlagsBounds
<1>7. \A d \in Checks : check'[d].since \in Instants
  <2>1. NoCheck.since \in Instants
    BY FlagsAssumption DEF NoCheck, Instants
  <2> QED
    BY <1>1, <2>1 DEF FlagsBounds, FlagsInv, FlagsTyped
<1>8. \A k \in Keys : shown'[k].at \in Instants
  BY <1>1 DEF FlagsBounds, FlagsInv, FlagsTyped
<1> QED
  BY <1>1, <1>5, <1>6, <1>7, <1>8 DEF FlagsBounds, OnlyPage

(* The other steps of a check.                                             *)
LEMMA ChecksInBounds ==
  ASSUME FlagsInv, FlagsBounds, NEW c \in Checks,
         (\E k \in Keys : AskFlag(c, k)) \/ ReadFlag(c) \/ CheckFails(c)
  PROVE  FlagsBounds'
<1>0. clock \in Instants /\ -1 \in Instants /\ 0 \in Instants
  BY NowIsInstant, FlagsAssumption DEF Instants
<1>1. UNCHANGED cache /\ OnlyPage
  BY DEF AskFlag, ReadFlag, CheckFails
<1>2. \A k \in Keys : shown'[k].at \in Instants
  <2>1. ASSUME NEW k \in Keys, NEW b, NEW t \in Instants, ShowsFlag(k, Entry(k, b, t))
        PROVE  \A j \in Keys : shown'[j].at \in Instants
    <3>1. Entry(k, b, t).at = t /\ shown' = [shown EXCEPT ![k] = Entry(k, b, t)]
      BY <2>1 DEF Entry, ShowsFlag
    <3> QED
      BY <3>1 DEF FlagsBounds, FlagsInv, FlagsTyped
  <2>2. CASE UNCHANGED shown
    BY <2>2 DEF FlagsBounds
  <2>3. CASE CheckFails(c)
    <3>1. check[c].key \in Keys /\ ShowsFlag(check[c].key, Entry(check[c].key, FALSE, -1))
      BY <2>3 DEF CheckFails, FlagsInv, ChecksInv, AskedWithin
    <3> QED
      BY <1>0, <2>1, <3>1
  <2> QED
    BY <1>0, <2>1, <2>2, <2>3 DEF AskFlag, ReadFlag
<1>3. \A d \in Checks : check'[d].since \in Instants
  <2>1. CASE \E k \in Keys : AskFlag(c, k)
    BY <1>0, <2>1 DEF AskFlag, FlagsBounds, FlagsInv, FlagsTyped
  <2>2. CASE ReadFlag(c)
    <3>1. check[c] \in CheckEntry
      BY DEF FlagsInv, FlagsTyped
    <3> QED
      BY <2>2, <3>1 DEF ReadFlag, FlagsBounds, FlagsInv, FlagsTyped, CheckEntry
  <2>3. CASE CheckFails(c)
    BY <1>0, <2>3 DEF CheckFails, NoCheck, FlagsBounds, FlagsInv, FlagsTyped
  <2> QED
    BY <2>1, <2>2, <2>3
<1> QED
  BY <1>1, <1>2, <1>3 DEF FlagsBounds, OnlyPage

LEMMA TimeInBounds ==
  ASSUME FlagsInv, FlagsBounds, TimePasses
  PROVE  FlagsBounds'
<1>1. clock \in Nat /\ wasLast \in [Keys -> [BOOLEAN -> Int]] /\ clock' = clock + 1 /\ clock < Until
      /\ Until \in Nat
  BY FlagsAssumption DEF FlagsInv, FlagsTyped, TimePasses
<1>2. \A k \in Keys, b \in BOOLEAN : wasLast'[k][b] = clock + 1 \/ wasLast'[k][b] = wasLast[k][b]
  BY <1>1 DEF TimePasses
<1>3. \A k \in Keys, b \in BOOLEAN : wasLast'[k][b] >= -1
  BY <1>1, <1>2 DEF FlagsBounds
<1> QED
  BY <1>1, <1>3 DEF FlagsBounds, TimePasses

LEMMA FlagsBoundsKept ==
  FlagsInv /\ FlagsInv' /\ FlagsBounds /\ [FlagsNext]_flagsVars => FlagsBounds'
<1> SUFFICES ASSUME FlagsInv, FlagsInv', FlagsBounds, [FlagsNext]_flagsVars  PROVE FlagsBounds'
  OBVIOUS
<1>1. CASE UNCHANGED flagsVars
  BY <1>1 DEF flagsVars, FlagsBounds
<1>2. ASSUME NEW k \in Keys, NEW on \in BOOLEAN, CreateFlag(k, on)  PROVE FlagsBounds'
  BY <1>2, WrittenInBounds DEF CreateFlag, FlagStates
<1>3. ASSUME NEW k \in Keys, DeleteFlag(k)  PROVE FlagsBounds'
  BY <1>3, WrittenInBounds DEF DeleteFlag, FlagStates
<1>4. ASSUME NEW a \in Admins, NEW k \in Keys, OpenForm(a, k) \/ ReadToggle(a, k)
      PROVE  FlagsBounds'
  BY <1>4 DEF OpenForm, ReadToggle, OnlyFlags, FlagsBounds
<1>5. ASSUME NEW a \in Admins, WriteFlag(a)  PROVE FlagsBounds'
  <2>1. CASE UNCHANGED <<flag, edits, wasLast>>
    BY <1>5, <2>1 DEF WriteFlag, OnlyFlags, FlagsBounds
  <2>2. CASE ~UNCHANGED <<flag, edits, wasLast>>
    <3>1. /\ admin[a].key \in Keys /\ edits # MaxEdits /\ edits' = edits + 1 /\ OnlyFlags
          /\ Sets(admin[a].key, IF admin[a].on THEN "on" ELSE "off")
      BY <1>5, <2>2 DEF WriteFlag, FlagsInv, FlagsTyped
    <3>2. edits < MaxEdits
      BY <3>1, FlagsAssumption DEF FlagsBounds, FlagsInv, FlagsTyped
    <3> QED
      BY <3>1, <3>2, WrittenInBounds DEF FlagStates
  <2> QED
    BY <2>1, <2>2
<1> QED
  BY <1>1, <1>2, <1>3, <1>4, <1>5, AnswerInBounds, ChecksInBounds, TimeInBounds, Zenon DEF FlagsNext

(* Flags, forms, checks and the cache keep their types, and the cache its  *)
(* limit, exceeded by one at most (evictOldestCacheEntries is called       *)
(* before the answer is put in).                                           *)
THEOREM FlagsTypeCorrect == FlagsSpec => []FlagsTypeOK
<1>1. FlagsInv /\ FlagsBounds => FlagsTypeOK
  <2> SUFFICES ASSUME FlagsInv, FlagsBounds  PROVE FlagsTypeOK
    OBVIOUS
  <2>1. edits \in 0 .. MaxEdits /\ clock \in 0 .. Until
    BY FlagsAssumption DEF FlagsInv, FlagsTyped, FlagsBounds
  <2>2. wasLast \in [Keys -> [BOOLEAN -> Instants]]
    <3>1. \A k \in Keys, b \in BOOLEAN : wasLast[k][b] \in Instants
      BY <2>1, FlagsAssumption DEF FlagsInv, FlagsTyped, FlagsBounds, NowInv, Instants
    <3>2. \A k \in Keys : wasLast[k] \in [BOOLEAN -> Instants]
      BY <3>1 DEF FlagsInv, FlagsTyped
    <3> QED
      BY <3>2 DEF FlagsInv, FlagsTyped
  <2>3. cache \in Seq([key : Keys, value : BOOLEAN, at : Instants])
    <3>1. cache \in Seq(FlagEntry) /\ \A i \in 1 .. Len(cache) : cache[i].at \in Instants
      BY DEF FlagsInv, FlagsTyped, FlagsBounds
    <3>2. \A i \in 1 .. Len(cache) : cache[i] \in [key : Keys, value : BOOLEAN, at : Instants]
      <4> SUFFICES ASSUME NEW i \in 1 .. Len(cache)
                   PROVE  cache[i] \in [key : Keys, value : BOOLEAN, at : Instants]
        OBVIOUS
      <4>1. cache[i] \in FlagEntry /\ cache[i].at \in Instants
        BY <3>1
      <4> QED
        BY <4>1 DEF FlagEntry
    <3> DEFINE E == [key : Keys, value : BOOLEAN, at : Instants]
    <3>3. Len(cache) \in Nat /\ cache \in [1 .. Len(cache) -> FlagEntry]
      BY <3>1, LenProperties
    <3> HIDE DEF E
    <3>4. cache \in [1 .. Len(cache) -> E]
      BY <3>2, <3>3 DEF E
    <3>5. cache \in Seq(E)
      BY <3>3, <3>4, SeqDef
    <3> QED
      BY <3>5 DEF E
  <2>4. check \in [Checks -> [at : {"idle", "asked", "read"}, key : Keys \cup {NoKey},
                              since : Instants, value : BOOLEAN]]
    BY DEF FlagsInv, FlagsTyped, FlagsBounds, CheckEntry
  <2>5. shown \in [Keys -> [key : Keys, value : BOOLEAN, at : Instants]]
    BY DEF FlagsInv, FlagsTyped, FlagsBounds, FlagEntry
  <2> QED
    BY <2>1, <2>2, <2>3, <2>4, <2>5 DEF FlagsTypeOK, FlagsInv, FlagsTyped, FlagsBounds, AdminEntry
<1> QED
  BY <1>1, FlagsBegin, FlagsKept, BoundsBegin, FlagsBoundsKept, PTL DEF FlagsSpec

-------------------------------------------------------------------------------
(***************************************************************************)
(* Dashboard: a guess ends. When no guess is under way and the list has    *)
(* been answered, every row shows what came with the list or was streamed, *)
(* and is not older than what was reported of it, unless an update was     *)
(* answered between the reading of the list and its coming.                *)
(***************************************************************************)

ClickEntry ==
  [op : Guessed \cup {"update", "delete", "none"}, card : Cards \cup {"none"},
   at : {"idle", "sent", "done", "failed"}, ver : Versions, before : [Cards -> Card]]
FetchEntry == [at : {"idle", "asked", "read"}, data : [Cards -> Versions]]

DashboardTyped ==
  /\ version \in [Cards -> Versions] /\ list \in [Cards -> Card]
  /\ fetching \in FetchEntry /\ answered \in BOOLEAN
  /\ click \in [Clicks -> ClickEntry]
  /\ \A m \in Clicks : click[m].at # "idle" => click[m].card \in Cards
  /\ clicks \in Nat /\ reported \in [Cards -> Versions]

(* A version that was reported or read is not ahead of the row's.          *)
NotNewer(v, w) == w = 0 \/ v <= w
VersionInv ==
  /\ \A s \in Cards : NotNewer(reported[s], version[s])
  /\ \A m \in Clicks : click[m].at \in {"done", "failed"} =>
       NotNewer(click[m].ver, version[click[m].card])
  /\ fetching.at = "read" =>
       \A s \in Cards : NotNewer(reported[s], fetching.data[s]) \/ s \in overtaken

(* No request for the list and no guess is under way: the list is the last *)
(* one that came, except for what was answered and streamed since.         *)
NoGuess(m) == click[m].at = "idle" \/ click[m].op \notin Guessed
Quiet == fetching.at = "idle" /\ answered /\ \A m \in Clicks : NoGuess(m)
ShowsTrue(s) ==
  /\ list[s].from # "guess"
  /\ list[s].from = "list" => list[s].ver >= reported[s] \/ s \in crossed
  /\ s \in removed => list[s].from = "nowhere" \/ s \in crossed
QuietInv == Quiet => \A s \in Cards : ShowsTrue(s)

DashboardInv == DashboardTyped /\ VersionInv /\ QuietInv
-------------------------------------------------------------------------------
LEMMA VersionsAre ==
  Versions \subseteq Nat /\ 0 \in Versions /\ 1 \in Versions
BY DashboardAssumption DEF Versions

LEMMA CardsTyped ==
  /\ Absent \in Card /\ Nowhere \in [Cards -> Card] /\ NoList \in [Cards -> Versions]
  /\ NoClick \in ClickEntry /\ NoClick.at = "idle"
  /\ Rest \in FetchEntry /\ Rest.at = "idle"
  /\ [Rest EXCEPT !.at = "asked"] \in FetchEntry /\ [Rest EXCEPT !.at = "asked"].at = "asked"
<1>1. Absent \in Card /\ NoList \in [Cards -> Versions]
  BY VersionsAre DEF Absent, Card, NoList
<1>2. Nowhere \in [Cards -> Card]
  BY <1>1 DEF Nowhere
<1>3. NoClick \in ClickEntry /\ NoClick.at = "idle"
  BY <1>2, VersionsAre DEF NoClick, ClickEntry
<1>4. /\ Rest \in FetchEntry /\ Rest.at = "idle"
      /\ [Rest EXCEPT !.at = "asked"] \in FetchEntry /\ [Rest EXCEPT !.at = "asked"].at = "asked"
  BY <1>1 DEF Rest, FetchEntry
<1> QED
  BY <1>1, <1>2, <1>3, <1>4

(* What the list shows of data that came.                                  *)
LEMMA SourcesAre ==
  ASSUME NEW data \in [Cards -> Versions]
  PROVE  /\ Sources(data) \in [Cards -> Card]
         /\ \A s \in Cards :
              IF data[s] = 0 THEN Sources(data)[s].from = "nowhere"
              ELSE Sources(data)[s].from = "list" /\ Sources(data)[s].ver = data[s]
<1>1. \A s \in Cards : data[s] \in Versions
  OBVIOUS
<1> QED
  BY <1>1, VersionsAre DEF Sources, Absent, Card

LEMMA DashboardBegins == DashboardInit => DashboardInv
<1> SUFFICES ASSUME DashboardInit  PROVE DashboardInv
  OBVIOUS
<1>1. version \in [Cards -> Versions]
  BY VersionsAre DEF DashboardInit
<1>2. DashboardTyped
  BY <1>1, CardsTyped, SourcesAre DEF DashboardInit, DashboardTyped
<1>3. VersionInv
  BY <1>1, CardsTyped, VersionsAre DEF DashboardInit, VersionInv, NotNewer, NoList
<1>4. \A s \in Cards : ShowsTrue(s)
  <2> SUFFICES ASSUME NEW s \in Cards  PROVE ShowsTrue(s)
    OBVIOUS
  <2>1. list[s].from \in {"nowhere", "list"}
    BY <1>1, SourcesAre DEF DashboardInit
  <2>2. list[s].from = "list" => list[s].ver = 1 /\ reported[s] = 0
    BY <1>1, SourcesAre DEF DashboardInit, NoList
  <2> QED
    BY <2>1, <2>2 DEF ShowsTrue, DashboardInit
<1>5. QuietInv
  BY <1>4 DEF QuietInv
<1> QED
  BY <1>2, <1>3, <1>5 DEF DashboardInv

-------------------------------------------------------------------------------
(* A mutation begins.                                                      *)
LEMMA ClickBegun ==
  ASSUME NEW s \in Cards, NEW op \in Guessed \cup {"update", "delete"},
         NEW before \in [Cards -> Card]
  PROVE  LET e == [op |-> op, card |-> s, at |-> "sent", ver |-> 0, before |-> before] IN
         e \in ClickEntry /\ e.at = "sent" /\ e.op = op /\ e.card = s
BY VersionsAre DEF ClickEntry

LEMMA BeginKeeps ==
  \A m \in Clicks, s \in Cards, op \in Guessed \cup {"update", "delete"} :
    DashboardInv /\ Begin(m, s, op) => DashboardInv'
<1> SUFFICES ASSUME DashboardInv, NEW m \in Clicks, NEW s \in Cards,
                    NEW op \in Guessed \cup {"update", "delete"}, Begin(m, s, op)
             PROVE  DashboardInv'
  OBVIOUS
<1>1. PICK e \in ClickEntry : /\ click' = [click EXCEPT ![m] = e]
                              /\ e.at = "sent" /\ e.op = op /\ e.card = s
  <2> DEFINE before == IF op \in Guessed THEN list ELSE Nowhere
  <2>1. before \in [Cards -> Card]
    BY CardsTyped DEF DashboardInv, DashboardTyped
  <2>2. click' = [click EXCEPT ![m] = [op |-> op, card |-> s, at |-> "sent", ver |-> 0,
                                       before |-> before]]
    BY DEF Begin
  <2> HIDE DEF before
  <2> QED
    BY <2>1, <2>2, ClickBegun
<1>2. /\ click' \in [Clicks -> ClickEntry] /\ click'[m] = e
      /\ \A n \in Clicks \ {m} : click'[n] = click[n]
  BY <1>1 DEF DashboardInv, DashboardTyped
<1>3. /\ click[m].at = "idle" /\ clicks' = clicks + 1
      /\ UNCHANGED <<version, answered, crossed, reported, removed>>
  BY DEF Begin, OnlyClient
<1>4. \/ /\ op \in Guessed /\ fetching' = Rest
         /\ list' = [list EXCEPT ![s] = [from |-> "guess", ver |-> 0]]
      \/ op \notin Guessed /\ UNCHANGED <<fetching, list, overtaken>>
  BY DEF Begin
<1>5. DashboardTyped'
  <2>1. list' \in [Cards -> Card] /\ fetching' \in FetchEntry
    <3>1. [from |-> "guess", ver |-> 0] \in Card
      BY VersionsAre DEF Card
    <3> QED
      BY <1>4, <3>1, CardsTyped DEF DashboardInv, DashboardTyped
  <2> QED
    BY <1>1, <1>2, <1>3, <2>1 DEF DashboardInv, DashboardTyped
<1>6. VersionInv'
  BY <1>1, <1>2, <1>3, <1>4, CardsTyped DEF DashboardInv, VersionInv
<1>7. QuietInv'
  <2>1. CASE op \in Guessed
    <3>1. ~NoGuess(m)'
      BY <1>1, <1>2, <2>1 DEF NoGuess
    <3> QED
      BY <3>1 DEF QuietInv, Quiet
  <2>2. CASE op \notin Guessed
    <3>1. UNCHANGED <<list, fetching>>
      BY <1>4, <2>2
    <3>2. \A n \in Clicks : NoGuess(n)' => NoGuess(n)
      BY <1>2, <1>3 DEF NoGuess
    <3>3. Quiet' => Quiet
      BY <1>3, <3>1, <3>2 DEF Quiet
    <3> QED
      BY <1>3, <3>1, <3>3 DEF DashboardInv, QuietInv, ShowsTrue
  <2> QED
    BY <2>1, <2>2
<1> QED
  BY <1>5, <1>6, <1>7 DEF DashboardInv

-------------------------------------------------------------------------------
(* A row only gets newer, until it is deleted for good.                    *)
Newer(v, w) == w = 0 \/ (v # 0 /\ v <= w)

LEMMA VersionsGrow ==
  ASSUME DashboardInv, version' \in [Cards -> Versions],
         \A s \in Cards : version'[s] = version[s] \/ Newer(version[s], version'[s])
  PROVE  /\ \A s \in Cards : NotNewer(reported[s], version'[s])
         /\ \A m \in Clicks : click[m].at \in {"done", "failed"} =>
              NotNewer(click[m].ver, version'[click[m].card])
<1>1. ASSUME NEW s \in Cards, NEW v \in Versions, NotNewer(v, version[s])
      PROVE  NotNewer(v, version'[s])
  <2>1. v \in Nat /\ version[s] \in Nat /\ version'[s] \in Nat
    BY VersionsAre DEF DashboardInv, DashboardTyped
  <2> QED
    BY <1>1, <2>1 DEF NotNewer, Newer
<1>2. /\ \A s \in Cards : reported[s] \in Versions
      /\ \A m \in Clicks : click[m].ver \in Versions
  BY DEF DashboardInv, DashboardTyped, ClickEntry
<1> QED
  BY <1>1, <1>2 DEF VersionInv, DashboardInv, DashboardTyped

(* Of the list and of what is under way the API changes nothing.           *)
LEMMA CarryKeeps == \A m \in Clicks : DashboardInv /\ Carry(m) => DashboardInv'
<1> SUFFICES ASSUME DashboardInv, NEW m \in Clicks, Carry(m)  PROVE DashboardInv'
  OBVIOUS
<1> DEFINE s == click[m].card
<1>1. /\ click[m] \in ClickEntry /\ click[m].at = "sent" /\ s \in Cards
      /\ version[s] \in Versions /\ version[s] \in Nat
  BY VersionsAre DEF Carry, DashboardInv, DashboardTyped
<1>2. UNCHANGED <<list, fetching, answered, clicks, reported, removed, overtaken, crossed>>
  BY DEF Carry
<1>3. PICK e \in ClickEntry, v \in Versions :
        /\ click' = [click EXCEPT ![m] = e] /\ version' = [version EXCEPT ![s] = v]
        /\ e.at \in {"done", "failed"} /\ e.ver = v /\ e.op = click[m].op /\ e.card = s
        /\ v = version[s] \/ Newer(version[s], v)
  <2>1. ASSUME NEW v \in Versions, NEW end \in {"done", "failed"},
               version' = [version EXCEPT ![s] = v],
               click' = [click EXCEPT ![m].at = end, ![m].ver = v],
               v = version[s] \/ Newer(version[s], v)
        PROVE  \E f \in ClickEntry, w \in Versions :
                 /\ click' = [click EXCEPT ![m] = f] /\ version' = [version EXCEPT ![s] = w]
                 /\ f.at \in {"done", "failed"} /\ f.ver = w /\ f.op = click[m].op /\ f.card = s
                 /\ w = version[s] \/ Newer(version[s], w)
    <3> DEFINE f == [click[m] EXCEPT !.at = end, !.ver = v]
    <3>1. /\ f \in ClickEntry /\ f.at = end /\ f.ver = v
          /\ f.op = click[m].op /\ f.card = click[m].card
      BY <1>1 DEF ClickEntry
    <3>2. click' = [click EXCEPT ![m] = f]
      BY <2>1
    <3> HIDE DEF f
    <3> QED
      BY <2>1, <3>1, <3>2
  <2>2. ASSUME Changed(s)
        PROVE  /\ 0 \in Versions /\ Newer(version[s], 0)
               /\ version[s] + 1 \in Versions /\ Newer(version[s], version[s] + 1)
    BY <1>1, <2>2, VersionsAre, DashboardAssumption DEF Changed, Versions, Newer
  <2>3. version' = version => version' = [version EXCEPT ![s] = version[s]]
    BY DEF DashboardInv, DashboardTyped
  <2>4. PICK v \in Versions, end \in {"done", "failed"} :
          /\ version' = [version EXCEPT ![s] = v]
          /\ click' = [click EXCEPT ![m].at = end, ![m].ver = v]
          /\ v = version[s] \/ Newer(version[s], v)
    BY <1>1, <2>2, <2>3 DEF Carry
  <2> QED
    BY <2>1, <2>4
<1> HIDE DEF s
<1>4. /\ click' \in [Clicks -> ClickEntry] /\ click'[m] = e
      /\ \A n \in Clicks \ {m} : click'[n] = click[n]
      /\ version' \in [Cards -> Versions] /\ version'[s] = v
      /\ \A c \in Cards \ {s} : version'[c] = version[c]
  BY <1>1, <1>3 DEF DashboardInv, DashboardTyped
<1>5. DashboardTyped'
  BY <1>1, <1>2, <1>3, <1>4 DEF DashboardInv, DashboardTyped
<1>6. VersionInv'
  <2>1. \A c \in Cards : version'[c] = version[c] \/ Newer(version[c], version'[c])
    BY <1>3, <1>4
  <2>2. /\ \A c \in Cards : NotNewer(reported[c], version'[c])
        /\ \A n \in Clicks : click[n].at \in {"done", "failed"} =>
             NotNewer(click[n].ver, version'[click[n].card])
    BY <1>4, <2>1, VersionsGrow
  <2>3. NotNewer(e.ver, version'[e.card])
    BY <1>3, <1>4, VersionsAre DEF NotNewer
  <2>4. \A n \in Clicks : click'[n].at \in {"done", "failed"} =>
          NotNewer(click'[n].ver, version'[click'[n].card])
    BY <1>4, <2>2, <2>3
  <2> QED
    BY <1>2, <2>2, <2>4 DEF VersionInv, DashboardInv
<1>7. QuietInv'
  <2>1. \A n \in Clicks : NoGuess(n)' => NoGuess(n)
    BY <1>1, <1>3, <1>4 DEF NoGuess
  <2>2. Quiet' => Quiet
    BY <1>2, <2>1 DEF Quiet
  <2> QED
    BY <1>2, <2>2 DEF DashboardInv, QuietInv, ShowsTrue
<1> QED
  BY <1>5, <1>6, <1>7 DEF DashboardInv

-------------------------------------------------------------------------------
(* What an answer makes of the list.                                       *)
LEMMA PatchedIs ==
  ASSUME DashboardInv, NEW m \in Clicks, click[m].at \in {"done", "failed"}
  PROVE  /\ Patched(m) \in [Cards -> Card]
         /\ click[m].op \notin Guessed => \A s \in Cards :
              Patched(m)[s] = list[s] \/ Patched(m)[s].from = "nowhere"
              \/ (Patched(m)[s].from = "answer" /\ list[s].from # "nowhere")
         /\ click[m].op = "delete" /\ click[m].at = "done" =>
              Patched(m)[click[m].card].from = "nowhere"
         /\ Updated(m) => Patched(m)[click[m].card].from \in {"answer", "nowhere"}
<1> DEFINE s == click[m].card
           answer == [from |-> "answer", ver |-> click[m].ver]
<1>1. /\ click[m] \in ClickEntry /\ s \in Cards /\ list \in [Cards -> Card]
      /\ click[m].before \in [Cards -> Card] /\ click[m].ver \in Versions
  BY DEF DashboardInv, DashboardTyped, ClickEntry
<1>2. answer \in Card /\ answer.from = "answer" /\ Absent \in Card /\ Absent.from = "nowhere"
  BY <1>1, CardsTyped DEF Card, Absent
<1> HIDE DEF s, answer
<1>3. CASE click[m].at = "failed" /\ click[m].op \in Guessed
  <2>1. Patched(m) = click[m].before
    BY <1>3 DEF Patched, Guessed
  <2> QED
    BY <1>1, <1>3, <2>1 DEF Updated
<1>4. CASE click[m].at = "done" /\ click[m].op \in {"restart", "update"} /\ list[s].from # "nowhere"
  <2>1. Patched(m) = [list EXCEPT ![s] = answer]
    BY <1>4 DEF Patched, Guessed, s, answer
  <2> QED
    BY <1>1, <1>2, <1>4, <2>1 DEF s
<1>5. CASE click[m].at = "done" /\ click[m].op = "delete"
  <2>1. Patched(m) = [list EXCEPT ![s] = Absent]
    BY <1>5 DEF Patched, Guessed, s
  <2> QED
    BY <1>1, <1>2, <1>5, <2>1 DEF s, Updated
<1>6. CASE /\ ~(click[m].at = "failed" /\ click[m].op \in Guessed)
           /\ ~(/\ click[m].at = "done" /\ click[m].op \in {"restart", "update"}
                /\ list[s].from # "nowhere")
           /\ ~(click[m].at = "done" /\ click[m].op = "delete")
  <2>1. Patched(m) = list
    BY <1>6 DEF Patched, s
  <2>2. Updated(m) => list[s].from = "nowhere"
    BY <1>6 DEF Updated
  <2> QED
    BY <1>1, <1>6, <2>1, <2>2 DEF s
<1> QED
  BY <1>3, <1>4, <1>5, <1>6

LEMMA AnsweredKeeps == \A m \in Clicks : DashboardInv /\ Answered(m) => DashboardInv'
<1> SUFFICES ASSUME DashboardInv, NEW m \in Clicks, Answered(m)  PROVE DashboardInv'
  OBVIOUS
<1> DEFINE s == click[m].card
<1>1. /\ click[m].at \in {"done", "failed"} /\ s \in Cards
      /\ click[m] \in ClickEntry /\ click[m].ver \in Versions
      /\ UNCHANGED <<version, answered, crossed, clicks>>
      /\ list' = Patched(m) /\ click' = [click EXCEPT ![m] = NoClick]
      /\ removed' = IF click[m].at = "done" /\ click[m].op = "delete"
                    THEN removed \cup {s} ELSE removed
  BY DEF Answered, Reports, Back, OnlyClient, DashboardInv, DashboardTyped, ClickEntry
<1>2. IF click[m].op \in Guessed THEN fetching' = [Rest EXCEPT !.at = "asked"]
      ELSE UNCHANGED fetching
  BY DEF Answered, Fetches
<1>7. /\ reported' \in [Cards -> Versions]
      /\ \A c \in Cards : reported'[c] # reported[c] =>
           c = s /\ reported'[c] = click[m].ver /\ (click[m].op \in Guessed \/ Updated(m))
  <2>1. reported' = IF click[m].op \in Guessed \/ Updated(m)
                    THEN [reported EXCEPT ![s] = IF click[m].ver > @ THEN click[m].ver ELSE @]
                    ELSE reported
    BY DEF Answered, Reports
  <2>2. reported \in [Cards -> Versions]
    BY DEF DashboardInv, DashboardTyped
  <2> HIDE DEF s
  <2> QED
    BY <1>1, <2>1, <2>2
<1>8. click[m].op \notin Guessed =>
        overtaken' = IF Updated(m) /\ fetching.at = "read" THEN overtaken \cup {s} ELSE overtaken
  BY DEF Answered, Overtakes
<1> HIDE DEF s
<1>3. /\ click' \in [Clicks -> ClickEntry] /\ click'[m] = NoClick
      /\ \A n \in Clicks \ {m} : click'[n] = click[n]
  BY <1>1, CardsTyped DEF DashboardInv, DashboardTyped
<1>4. DashboardTyped'
  <2>1. fetching' \in FetchEntry /\ reported' \in [Cards -> Versions]
    BY <1>2, <1>7, CardsTyped DEF DashboardInv, DashboardTyped
  <2>2. list' \in [Cards -> Card]
    BY <1>1, PatchedIs
  <2> QED
    BY <1>1, <1>3, <2>1, <2>2, CardsTyped DEF DashboardInv, DashboardTyped
<1>5. VersionInv'
  <2>1. \A c \in Cards : NotNewer(reported'[c], version[c])
    BY <1>1, <1>7 DEF DashboardInv, VersionInv, s
  <2>2. \A n \in Clicks : click'[n].at \in {"done", "failed"} =>
          NotNewer(click'[n].ver, version[click'[n].card])
    BY <1>3, CardsTyped DEF DashboardInv, VersionInv
  <2>3. ASSUME fetching'.at = "read", NEW c \in Cards
        PROVE  NotNewer(reported'[c], fetching'.data[c]) \/ c \in overtaken'
    <3>1. click[m].op \notin Guessed /\ fetching' = fetching
      BY <1>2, <2>3, CardsTyped
    <3>2. c \in overtaken => c \in overtaken'
      BY <1>8, <3>1
    <3>3. reported'[c] # reported[c] => c \in overtaken'
      BY <1>7, <1>8, <2>3, <3>1
    <3> QED
      BY <2>3, <3>1, <3>2, <3>3 DEF DashboardInv, VersionInv
  <2> QED
    BY <1>1, <2>1, <2>2, <2>3 DEF VersionInv
<1>6. QuietInv'
  <2>1. CASE click[m].op \in Guessed
    <3>1. fetching'.at = "asked"
      BY <1>2, <2>1, CardsTyped
    <3> QED
      BY <3>1 DEF QuietInv, Quiet
  <2>2. CASE click[m].op \notin Guessed
    <3>1. NoGuess(m) /\ \A n \in Clicks : NoGuess(n)' => NoGuess(n)
      BY <1>3, <2>2 DEF NoGuess
    <3>2. Quiet' => Quiet
      BY <1>1, <1>2, <2>2, <3>1 DEF Quiet
    <3>3. ASSUME Quiet, NEW c \in Cards  PROVE ShowsTrue(c)'
      <4>1. ShowsTrue(c)
        BY <3>3 DEF DashboardInv, QuietInv
      <4>2. list'[c] = list[c] \/ list'[c].from = "nowhere"
            \/ (list'[c].from = "answer" /\ list[c].from # "nowhere")
        BY <1>1, <2>2, PatchedIs
      <4>3. c \in removed' => c \in removed \/ list'[c].from = "nowhere"
        BY <1>1, PatchedIs DEF s
      <4>4. crossed' = crossed
        BY <1>1
      <4>5. reported'[c] # reported[c] => list'[c].from \in {"answer", "nowhere"}
        BY <1>1, <1>7, <2>2, PatchedIs DEF s
      <4> QED
        BY <4>1, <4>2, <4>3, <4>4, <4>5 DEF ShowsTrue
    <3> QED
      BY <3>2, <3>3 DEF QuietInv
  <2> QED
    BY <2>1, <2>2
<1> QED
  BY <1>4, <1>5, <1>6 DEF DashboardInv

-------------------------------------------------------------------------------
(* The request for the list.                                               *)
LEMMA FetchKeeps ==
  DashboardInv /\ (Refetch \/ ListServices \/ ListFails) => DashboardInv'
<1> SUFFICES ASSUME DashboardInv, Refetch \/ ListServices \/ ListFails  PROVE DashboardInv'
  OBVIOUS
<1>1. UNCHANGED <<version, click, clicks, reported, removed, list, crossed>>
  BY DEF Refetch, ListServices, ListFails, OnlyFetch
<1>2. /\ fetching' \in FetchEntry /\ answered' \in BOOLEAN
      /\ fetching'.at = "read" => fetching'.data = version
      /\ fetching'.at # "idle" \/ answered' = FALSE
  <2>1. CASE ListServices
    BY <2>1 DEF ListServices, FetchEntry, DashboardInv, DashboardTyped
  <2>2. CASE Refetch
    BY <2>2, CardsTyped DEF Refetch, Fetches, DashboardInv, DashboardTyped
  <2>3. CASE ListFails
    BY <2>3, CardsTyped DEF ListFails
  <2> QED
    BY <2>1, <2>2, <2>3
<1>3. DashboardTyped'
  BY <1>1, <1>2 DEF DashboardInv, DashboardTyped
<1>4. VersionInv'
  BY <1>1, <1>2 DEF DashboardInv, VersionInv
<1>5. QuietInv'
  BY <1>2 DEF QuietInv, Quiet
<1> QED
  BY <1>3, <1>4, <1>5 DEF DashboardInv

LEMMA ComesKeeps == DashboardInv /\ ListComes => DashboardInv'
<1> SUFFICES ASSUME DashboardInv, ListComes  PROVE DashboardInv'
  OBVIOUS
<1>1. /\ fetching.at = "read" /\ list' = Sources(fetching.data) /\ fetching' = Rest
      /\ answered' = TRUE /\ crossed' = overtaken \cup {s \in removed : fetching.data[s] # 0}
      /\ UNCHANGED <<version, click, clicks, reported, removed>>
  BY DEF ListComes, OnlyFetch
<1>2. fetching.data \in [Cards -> Versions]
  BY DEF DashboardInv, DashboardTyped, FetchEntry
<1>3. /\ list' \in [Cards -> Card]
      /\ \A s \in Cards :
           IF fetching.data[s] = 0 THEN list'[s].from = "nowhere"
           ELSE list'[s].from = "list" /\ list'[s].ver = fetching.data[s]
  BY <1>1, <1>2, SourcesAre
<1>4. DashboardTyped'
  BY <1>1, <1>3, CardsTyped DEF DashboardInv, DashboardTyped
<1>5. VersionInv'
  BY <1>1, CardsTyped DEF DashboardInv, VersionInv
<1>6. ASSUME NEW s \in Cards  PROVE ShowsTrue(s)'
  <2>1. /\ NotNewer(reported[s], fetching.data[s]) \/ s \in overtaken
        /\ fetching.data[s] \in Nat /\ reported[s] \in Nat
    BY <1>1, <1>2, VersionsAre DEF DashboardInv, DashboardTyped, VersionInv
  <2>2. list'[s].from \in {"nowhere", "list"}
    BY <1>3
  <2>3. list'[s].from = "list" => fetching.data[s] # 0 /\ list'[s].ver = fetching.data[s]
    BY <1>3
  <2>4. list'[s].from = "list" => list'[s].ver >= reported[s] \/ s \in crossed'
    BY <1>1, <2>1, <2>3 DEF NotNewer
  <2>5. s \in removed => list'[s].from = "nowhere" \/ s \in crossed'
    BY <1>1, <1>3
  <2> QED
    BY <1>1, <2>2, <2>4, <2>5 DEF ShowsTrue
<1> QED
  BY <1>4, <1>5, <1>6 DEF DashboardInv, QuietInv

(* Other changes of a row, and metrics.                                    *)
LEMMA RowKeeps == \A s \in Cards : DashboardInv /\ RowChanges(s) => DashboardInv'
<1> SUFFICES ASSUME DashboardInv, NEW s \in Cards, RowChanges(s)  PROVE DashboardInv'
  OBVIOUS
<1>1. /\ Changed(s) /\ version' = [version EXCEPT ![s] = version[s] + 1]
      /\ UNCHANGED <<list, fetching, answered, click, clicks, reported, removed, overtaken, crossed>>
  BY DEF RowChanges, OnlyServer
<1>2. version[s] \in Nat /\ version[s] + 1 \in Versions /\ Newer(version[s], version[s] + 1)
  <2>1. version[s] \in Nat
    BY VersionsAre DEF DashboardInv, DashboardTyped
  <2> QED
    BY <1>1, <2>1, DashboardAssumption DEF Changed, Versions, Newer
<1>3. /\ version' \in [Cards -> Versions]
      /\ \A c \in Cards : version'[c] = version[c] \/ Newer(version[c], version'[c])
  BY <1>1, <1>2 DEF DashboardInv, DashboardTyped
<1>4. VersionInv'
  BY <1>1, <1>3, VersionsGrow DEF DashboardInv, VersionInv
<1> QED
  BY <1>1, <1>3, <1>4 DEF DashboardInv, DashboardTyped, QuietInv, Quiet, NoGuess, ShowsTrue

LEMMA MetricsKeep == DashboardInv /\ MetricsCome => DashboardInv'
<1> SUFFICES ASSUME DashboardInv, MetricsCome  PROVE DashboardInv'
  OBVIOUS
<1>1. UNCHANGED <<version, fetching, answered, click, clicks, reported, removed, overtaken, crossed>>
  BY DEF MetricsCome, OnlyServer
<1>2. /\ list' \in [Cards -> Card]
      /\ \A s \in Cards : list'[s] = list[s]
                          \/ (list[s].from # "nowhere" /\ list'[s].from = "metrics")
  <2>1. [from |-> "metrics", ver |-> 0] \in Card
    BY VersionsAre DEF Card
  <2> QED
    BY <2>1 DEF MetricsCome, DashboardInv, DashboardTyped
<1>3. DashboardTyped' /\ VersionInv'
  BY <1>1, <1>2 DEF DashboardInv, DashboardTyped, VersionInv
<1>4. QuietInv'
  BY <1>1, <1>2 DEF DashboardInv, QuietInv, Quiet, NoGuess, ShowsTrue
<1> QED
  BY <1>3, <1>4 DEF DashboardInv

LEMMA DashboardKept == DashboardInv /\ [DashboardNext]_dashboardVars => DashboardInv'
<1> SUFFICES ASSUME DashboardInv, [DashboardNext]_dashboardVars  PROVE DashboardInv'
  OBVIOUS
<1>1. CASE UNCHANGED dashboardVars
  BY <1>1 DEF dashboardVars, DashboardInv, DashboardTyped, VersionInv, QuietInv, Quiet,
     NoGuess, ShowsTrue
<1>2. CASE DashboardNext
  BY <1>2, BeginKeeps, CarryKeeps, AnsweredKeeps, FetchKeeps, ComesKeeps, RowKeeps, MetricsKeep
  DEF DashboardNext
<1> QED
  BY <1>1, <1>2

(* Whatever number of mutations guess, fail and take back each other's     *)
(* guesses, no guess is left in the end, and a listed row is as new as what *)
(* was reported of it and shows nothing deleted; except for a service whose *)
(* update or deletion was answered while an older list was on its way,     *)
(* which no hook cancels or repeats (useServices.ts:118, 132).             *)
THEOREM GuessesDoEnd == DashboardSpec => []GuessesEnd
<1>1. DashboardInv => GuessesEnd
  BY DEF DashboardInv, QuietInv, Quiet, NoGuess, ShowsTrue, GuessesEnd
<1> QED
  BY <1>1, DashboardBegins, DashboardKept, PTL DEF DashboardSpec

-------------------------------------------------------------------------------
(* What the invariant leaves open of the types.                            *)
DashboardBounds ==
  /\ clicks <= MaxClicks
  /\ removed \subseteq Cards /\ overtaken \subseteq Cards /\ crossed \subseteq Cards

LEMMA DashboardBoundsKept ==
  DashboardInv /\ DashboardBounds /\ [DashboardNext]_dashboardVars => DashboardBounds'
<1> SUFFICES ASSUME DashboardInv, DashboardBounds, [DashboardNext]_dashboardVars
             PROVE  DashboardBounds'
  OBVIOUS
<1>1. CASE UNCHANGED dashboardVars
  BY <1>1 DEF dashboardVars, DashboardBounds
<1>2. ASSUME NEW m \in Clicks, NEW s \in Cards, NEW op, Begin(m, s, op)  PROVE DashboardBounds'
  BY <1>2, DashboardAssumption DEF Begin, OnlyClient, DashboardBounds, DashboardInv, DashboardTyped
<1>3. ASSUME NEW m \in Clicks, Answered(m)  PROVE DashboardBounds'
  BY <1>3 DEF Answered, Reports, Overtakes, Updated, OnlyClient, DashboardBounds, DashboardInv,
     DashboardTyped
<1>4. CASE ListComes
  BY <1>4 DEF ListComes, OnlyFetch, DashboardBounds
<1>5. ASSUME \/ \E m \in Clicks : Carry(m)
             \/ Refetch \/ ListServices \/ ListFails
             \/ \E s \in Cards : RowChanges(s)
             \/ MetricsCome
      PROVE  UNCHANGED <<clicks, removed, crossed>> /\ (overtaken' = overtaken \/ overtaken' = {})
  BY <1>5 DEF Carry, Refetch, ListServices, ListFails, RowChanges, MetricsCome, OnlyFetch, OnlyServer
<1> QED
  BY <1>1, <1>2, <1>3, <1>4, <1>5 DEF DashboardNext, DashboardBounds

(* The list, the mutations and what they ended with keep their types       *)
(* (useServices).                                                          *)
THEOREM DashboardTypeCorrect == DashboardSpec => []DashboardTypeOK
<1>1. DashboardInit => DashboardBounds
  BY DashboardAssumption DEF DashboardInit, DashboardBounds
<1>2. DashboardInv /\ DashboardBounds => DashboardTypeOK
  <2> SUFFICES ASSUME DashboardInv, DashboardBounds  PROVE DashboardTypeOK
    OBVIOUS
  <2>1. clicks \in 0 .. MaxClicks
    BY DashboardAssumption DEF DashboardInv, DashboardTyped, DashboardBounds
  <2> QED
    BY <2>1 DEF DashboardInv, DashboardTyped, DashboardBounds, DashboardTypeOK, ClickEntry, FetchEntry
<1> QED
  BY <1>1, <1>2, DashboardBegins, DashboardKept, DashboardBoundsKept, PTL DEF DashboardSpec

-------------------------------------------------------------------------------
(***************************************************************************)
(* Configs: a service is served at the port its form showed. What is saved *)
(* is computed of the same form the port is shown in; and of a form whose  *)
(* port was not touched it is the port of the list it was opened from.     *)
(***************************************************************************)

Sorts == Chosen \cup Engines
RowPorts == Nat \ {Unset}
ConfigRow == [live : BOOLEAN, type : Sorts, port : RowPorts, image : BOOLEAN]
FormRow == [at : {"page", "wizard", "edit"}, source : Origins, type : Sorts, port : Nat,
            from : Nat]

(* A site has one port, in its row and in the edit form, which begins with *)
(* a port that is set; the wizard has no database for a type.              *)
SitePort(r) == r.type = "STATIC" => r.port = 80
Editable(f) ==
  /\ f.at = "wizard" => f.type \in Chosen
  /\ f.at = "edit" => SitePort(f) /\ f.from # Unset

ConfigsInv ==
  /\ config \in ConfigRow /\ SitePort(config)
  /\ listed \in [Editors -> ConfigRow] /\ form \in [Editors -> FormRow]
  /\ \A e \in Editors : SitePort(listed[e]) /\ Editable(form[e])
  /\ ServedAsShown
-------------------------------------------------------------------------------
LEMMA SortsHavePorts ==
  /\ \A t \in Sorts : DefaultPorts[t] \in RowPorts
  /\ DefaultPorts["STATIC"] = 80 /\ DefaultPorts["DOCKER"] = 3000
<1>1. Sorts \subseteq {"DOCKER", "STATIC", "COMPOSE", "POSTGRES", "REDIS", "MYSQL"}
  BY ConfigsAssumption DEF Sorts, Chosen
<1> QED
  BY <1>1 DEF DefaultPorts, RowPorts, Unset

LEMMA TypedPorts == Typed \subseteq Nat /\ Unset \in Nat /\ Unread \in Nat /\ Unset # Unread
BY ConfigsAssumption DEF Unset, Unread

LEMMA ClosedForm == Closed \in FormRow /\ Editable(Closed) /\ Closed.at = "page"
BY TypedPorts DEF Closed, FormRow, Sorts, Chosen, Origins, Editable

LEMMA ConfigsBegin == ConfigsInit => ConfigsInv
<1> SUFFICES ASSUME ConfigsInit  PROVE ConfigsInv
  OBVIOUS
<1>1. NoConfig \in ConfigRow /\ SitePort(NoConfig)
  BY DEF NoConfig, ConfigRow, Sorts, Chosen, SitePort, RowPorts, Unset
<1> QED
  BY <1>1, ClosedForm DEF ConfigsInit, ConfigsInv, ServedAsShown

(* A form that is filled in.                                               *)
LEMMA FillKeeps ==
  ASSUME ConfigsInv, NEW e \in Editors, NEW f \in FormRow, Editable(f), Fill(e, f)
  PROVE  ConfigsInv'
<1>1. /\ form' \in [Editors -> FormRow] /\ form'[e] = f
      /\ \A d \in Editors \ {e} : form'[d] = form[d]
      /\ UNCHANGED <<config, listed, lastShown, lastWanted, writtenBack>>
  BY DEF ConfigsInv, Fill
<1>2. \A d \in Editors : Editable(form'[d])
  BY <1>1 DEF ConfigsInv
<1> QED
  BY <1>1, <1>2 DEF ConfigsInv, ServedAsShown

(* The row that is written, and the form closed.                           *)
LEMMA WriteKeeps ==
  ASSUME ConfigsInv, NEW e \in Editors, NEW c \in ConfigRow, config' = c, SitePort(c),
         ServedAsShown',
         form' = [form EXCEPT ![e] = Closed],
         listed' = listed \/ listed' = [listed EXCEPT ![e] = c]
  PROVE  ConfigsInv'
<1>1. /\ form' \in [Editors -> FormRow] /\ form'[e] = Closed
      /\ \A d \in Editors \ {e} : form'[d] = form[d]
  BY ClosedForm DEF ConfigsInv
<1>2. \A d \in Editors : Editable(form'[d])
  BY <1>1, ClosedForm DEF ConfigsInv
<1>3. listed' \in [Editors -> ConfigRow] /\ \A d \in Editors : SitePort(listed'[d])
  BY DEF ConfigsInv
<1> QED
  BY <1>1, <1>2, <1>3 DEF ConfigsInv

-------------------------------------------------------------------------------
LEMMA OriginKeeps == \A e \in Editors : ConfigsInv /\ ChooseOrigin(e) => ConfigsInv'
<1> SUFFICES ASSUME ConfigsInv, NEW e \in Editors, ChooseOrigin(e)  PROVE ConfigsInv'
  OBVIOUS
<1> DEFINE f(s) == IF form[e].at = "page" THEN [NewForm EXCEPT !.source = s]
                   ELSE [form[e] EXCEPT !.source = s]
<1>1. PICK s \in Origins : Fill(e, f(s))
  BY DEF ChooseOrigin
<1>2. form[e] \in FormRow /\ Editable(form[e]) /\ form[e].at \in {"page", "wizard"}
  BY DEF ConfigsInv, ChooseOrigin
<1>3. f(s) \in FormRow
  BY <1>2, TypedPorts DEF FormRow, NewForm, Closed, Sorts, Chosen
<1>4. Editable(f(s))
  BY <1>2, TypedPorts DEF FormRow, NewForm, Closed, Chosen, Editable
<1> HIDE DEF f
<1> QED
  BY <1>1, <1>3, <1>4, FillKeeps

LEMMA OpenKeeps == \A e \in Editors : ConfigsInv /\ OpenEdit(e) => ConfigsInv'
<1> SUFFICES ASSUME ConfigsInv, NEW e \in Editors, OpenEdit(e)  PROVE ConfigsInv'
  OBVIOUS
<1> DEFINE f == [Closed EXCEPT !.at = "edit", !.type = listed[e].type,
                   !.port = listed[e].port, !.from = listed[e].port,
                   !.source = IF listed[e].image THEN "image" ELSE "repository"]
<1>1. Fill(e, f)
  BY DEF OpenEdit
<1>2. /\ listed[e] \in ConfigRow /\ SitePort(listed[e])
      /\ listed[e].type \in Sorts /\ listed[e].port \in Nat /\ listed[e].port # Unset
  BY DEF ConfigsInv, ConfigRow, RowPorts
<1>3. f \in FormRow
  BY <1>2 DEF FormRow, Closed, Origins
<1>4. Editable(f)
  BY <1>2 DEF Closed, Editable, SitePort
<1> HIDE DEF f
<1> QED
  BY <1>1, <1>3, <1>4, FillKeeps

LEMMA TypeKeeps == \A e \in Editors : ConfigsInv /\ ChooseType(e) => ConfigsInv'
<1> SUFFICES ASSUME ConfigsInv, NEW e \in Editors, ChooseType(e)  PROVE ConfigsInv'
  OBVIOUS
<1>1. form[e] \in FormRow /\ Editable(form[e])
  BY DEF ConfigsInv
<1>2. PICK t \in Chosen :
        \/ form[e].at = "edit" /\ Fill(e, EditType(form[e], t))
        \/ form[e].at = "wizard" /\ Fill(e, WizardType(form[e], t))
  BY DEF ChooseType
<1>3. CASE form[e].at = "edit" /\ Fill(e, EditType(form[e], t))
  <2>1. EditType(form[e], t) \in FormRow
    BY <1>1 DEF EditType, FormRow, Sorts
  <2>2. Editable(EditType(form[e], t))
    BY <1>1, <1>3 DEF EditType, FormRow, Editable, SitePort
  <2> QED
    BY <1>3, <2>1, <2>2, FillKeeps
<1>4. CASE form[e].at = "wizard" /\ Fill(e, WizardType(form[e], t))
  <2>1. WizardType(form[e], t) \in FormRow
    BY <1>1 DEF WizardType, FormRow, Sorts
  <2>2. Editable(WizardType(form[e], t))
    BY <1>1, <1>4 DEF WizardType, FormRow, Editable
  <2> QED
    BY <1>4, <2>1, <2>2, FillKeeps
<1> QED
  BY <1>2, <1>3, <1>4

LEMMA SourceKeeps == \A e \in Editors : ConfigsInv /\ ChangeSource(e) => ConfigsInv'
<1> SUFFICES ASSUME ConfigsInv, NEW e \in Editors, ChangeSource(e)  PROVE ConfigsInv'
  OBVIOUS
<1>1. form[e] \in FormRow /\ Editable(form[e])
  BY DEF ConfigsInv
<1> DEFINE f == [form[e] EXCEPT !.source = IF IsImage(form[e]) THEN "repository" ELSE "image"]
<1>2. f \in FormRow
  BY <1>1 DEF FormRow, Origins
<1>3. Editable(f)
  BY <1>1 DEF FormRow, Editable, SitePort
<1>4. Fill(e, f)
  BY DEF ChangeSource
<1> HIDE DEF f
<1> QED
  BY <1>2, <1>3, <1>4, FillKeeps

LEMMA PortKeeps == \A e \in Editors : ConfigsInv /\ TypePort(e) => ConfigsInv'
<1> SUFFICES ASSUME ConfigsInv, NEW e \in Editors, TypePort(e)  PROVE ConfigsInv'
  OBVIOUS
<1>1. form[e] \in FormRow /\ Editable(form[e])
  BY DEF ConfigsInv
<1>2. PICK p \in Nat : Fill(e, [form[e] EXCEPT !.port = p])
  BY TypedPorts DEF TypePort, ImageEmptied
<1>3. form[e].at = "edit" => form[e].type # "STATIC"
  BY <1>1 DEF TypePort, Fields, EditFields
<1>4. [form[e] EXCEPT !.port = p] \in FormRow
  BY <1>1 DEF FormRow
<1>5. Editable([form[e] EXCEPT !.port = p])
  BY <1>1, <1>3 DEF FormRow, Editable, SitePort
<1> QED
  BY <1>2, <1>4, <1>5, FillKeeps

-------------------------------------------------------------------------------
(* What the form shows is what is written, in the wizard and in the edit   *)
(* form.                                                                   *)
LEMMA NewIsServed ==
  ASSUME NEW f \in FormRow, f.at = "wizard", f.type \in Chosen, Valid(PayloadPort(f)),
         NEW engine, ~InVain(f), PortShown(f) # Unset
  PROVE  FinalPort(FinalType(f, engine), PayloadPort(f)) = PortShown(f)
<1>1. f.source # "database" /\ FinalType(f, engine) = f.type
  BY DEF InVain, FinalType
<1>2. CASE f.type = "STATIC"
  <2>1. ~IsImage(f)
    BY <1>2 DEF InVain
  <2>2. Fields(f) = "STATIC"
    BY <1>2, <2>1 DEF Fields, WizardFields
  <2>3. PortShown(f) = 80
    BY <2>2 DEF PortShown, StaticShows
  <2>4. FinalPort("STATIC", PayloadPort(f)) = 80
    BY SortsHavePorts DEF FinalPort
  <2> QED
    BY <1>1, <1>2, <2>3, <2>4
<1>3. CASE f.type \in {"DOCKER", "COMPOSE"}
  <2>1. PayloadPort(f) = f.port /\ f.port # Unread
    BY <1>3 DEF PayloadPort, Valid
  <2>2. Fields(f) # "STATIC" /\ (Fields(f) = "image" <=> IsImage(f))
        /\ (Fields(f) = "COMPOSE" => f.type = "COMPOSE")
    BY <1>3 DEF Fields, WizardFields
  <2>3. CASE f.port # Unset
    <3>1. PortShown(f) = f.port
      BY <2>1, <2>2, <2>3 DEF PortShown
    <3>2. FinalPort(f.type, f.port) = f.port
      BY <1>3, <2>3 DEF FinalPort
    <3> QED
      BY <1>1, <2>1, <3>1, <3>2
  <2>4. CASE f.port = Unset
    <3>1. f.type = "DOCKER"
      BY <1>3, <2>4 DEF InVain
    <3>2. FinalPort("DOCKER", Unset) = 3000
      BY SortsHavePorts DEF FinalPort
    <3>3. CASE IsImage(f)
      BY <2>2, <2>4, <3>3 DEF PortShown
    <3>4. CASE ~IsImage(f)
      <4>1. PortShown(f) = 3000
        BY <2>2, <2>4, <3>1, <3>4 DEF PortShown, DockerShows
      <4> QED
        BY <1>1, <2>1, <2>4, <3>1, <3>2, <4>1
    <3> QED
      BY <3>3, <3>4
  <2> QED
    BY <2>3, <2>4
<1> QED
  BY <1>2, <1>3 DEF Chosen

LEMMA EditIsServed ==
  ASSUME NEW f \in FormRow, f.at = "edit", SitePort(f), Valid(f.port), ~InVain(f),
         PortShown(f) # Unset
  PROVE  UpdatedPort(f) = PortShown(f)
<1> USE DEF UpdatedPort, PortShown, Fields, EditFields, InVain, Valid, IsImage, SitePort,
        DockerShows, ComposeShows, StaticShows
<1>1. CASE f.type = "STATIC"
  BY <1>1, TypedPorts, SortsHavePorts
<1>2. CASE f.type = "DOCKER"
  BY <1>2, SortsHavePorts
<1>3. CASE f.type \notin {"STATIC", "DOCKER"}
  <2>1. f.port # Unset /\ f.port # Unread
    BY <1>3
  <2>2. Fields(f) # "STATIC"
    BY <1>3
  <2>3. PortShown(f) = f.port
    BY <2>1, <2>2 DEF PortShown
  <2> QED
    BY <2>1, <2>3
<1> QED
  BY <1>1, <1>2, <1>3

LEMMA PortsAreNumbers == \A f \in FormRow : PortShown(f) \in Nat
BY TypedPorts DEF PortShown, Fields, WizardFields, EditFields, FormRow, DockerShows,
   ComposeShows, StaticShows

LEMMA NewKeeps == \A e \in Editors : ConfigsInv /\ SubmitNew(e) => ConfigsInv'
<1> SUFFICES ASSUME ConfigsInv, NEW e \in Editors, SubmitNew(e)  PROVE ConfigsInv'
  OBVIOUS
<1>1. /\ form[e] \in FormRow /\ form[e].at = "wizard" /\ form[e].type \in Chosen
      /\ form[e].port \in Nat /\ Valid(PayloadPort(form[e])) /\ UNCHANGED listed
  BY DEF ConfigsInv, SubmitNew, Editable, FormRow
<1>2. PICK engine \in IF form[e].source = "database" THEN Engines ELSE {"none"} :
        Write(e, TRUE, FinalType(form[e], engine),
              FinalPort(FinalType(form[e], engine), PayloadPort(form[e])))
  BY DEF SubmitNew
<1> DEFINE type == FinalType(form[e], engine)
           port == FinalPort(type, PayloadPort(form[e]))
           asked == PortAsked(form[e])
<1>3. type \in Sorts
  BY <1>1 DEF FinalType, Sorts
<1>4. port \in RowPorts /\ (type = "STATIC" => port = 80)
  BY <1>1, <1>3, SortsHavePorts, TypedPorts DEF FinalPort, PayloadPort, RowPorts
<1>5. asked # Unset => port = asked
  BY <1>1, NewIsServed DEF PortAsked
<1>6. /\ config' = [live |-> TRUE, type |-> type, port |-> port, image |-> IsImage(form[e])]
      /\ form' = [form EXCEPT ![e] = Closed]
      /\ lastShown' = asked /\ lastWanted' = asked
  BY <1>1, <1>2 DEF Write, Untouched
<1>7. IsImage(form[e]) \in BOOLEAN
  BY DEF IsImage
<1> HIDE DEF type, port, asked
<1> DEFINE row == [live |-> TRUE, type |-> type, port |-> port, image |-> IsImage(form[e])]
<1>8. row \in ConfigRow /\ row.type = type /\ row.port = port
  BY <1>3, <1>4, <1>7 DEF ConfigRow
<1>9. config' = row
  BY <1>6
<1> HIDE DEF row
<1>10. SitePort(row) /\ ServedAsShown'
  BY <1>4, <1>5, <1>6, <1>8, <1>9 DEF SitePort, ServedAsShown
<1> QED
  BY <1>1, <1>6, <1>8, <1>9, <1>10, WriteKeeps

LEMMA EditKeeps == \A e \in Editors : ConfigsInv /\ SubmitEdit(e) => ConfigsInv'
<1> SUFFICES ASSUME ConfigsInv, NEW e \in Editors, SubmitEdit(e)  PROVE ConfigsInv'
  OBVIOUS
<1>1. /\ form[e] \in FormRow /\ form[e].at = "edit" /\ SitePort(form[e])
      /\ form[e].port \in Nat /\ form[e].type \in Sorts /\ Valid(form[e].port)
      /\ form[e].from # Unset
      /\ Write(e, config.live, form[e].type, UpdatedPort(form[e]))
      /\ listed' = [listed EXCEPT ![e] = config']
  BY DEF ConfigsInv, SubmitEdit, Editable, FormRow
<1> DEFINE type == form[e].type
           port == UpdatedPort(form[e])
           asked == PortAsked(form[e])
<1>2. port \in RowPorts /\ (type = "STATIC" => port = 80)
  BY <1>1, SortsHavePorts DEF UpdatedPort, SitePort, RowPorts
<1>3. asked # Unset => port = asked
  BY <1>1, EditIsServed DEF PortAsked
<1>4. /\ config' = [live |-> config.live, type |-> type, port |-> port, image |-> IsImage(form[e])]
      /\ form' = [form EXCEPT ![e] = Closed] /\ lastShown' = asked
      /\ IF Untouched(form[e])
         THEN lastWanted' = lastWanted /\ writtenBack' = (writtenBack \/ config.port # form[e].from)
         ELSE lastWanted' = asked
  BY <1>1 DEF Write
<1>5. IsImage(form[e]) \in BOOLEAN /\ config.live \in BOOLEAN /\ type \in Sorts
  BY <1>1 DEF IsImage, ConfigsInv, ConfigRow
<1>6. Untouched(form[e]) => port = form[e].from
  BY <1>1 DEF Untouched, UpdatedPort
<1> HIDE DEF type, port, asked
<1>7. PICK c \in ConfigRow : config' = c /\ c.type = type /\ c.port = port
  BY <1>2, <1>4, <1>5 DEF ConfigRow
<1>8. SitePort(c)
  BY <1>2, <1>7 DEF SitePort
<1>9. ServedAsShown'
  <2>1. lastShown' # Unset => config'.port = lastShown'
    BY <1>3, <1>4, <1>7
  <2>2. CASE Untouched(form[e])
    <3>1. lastWanted # Unset => config.port = lastWanted \/ writtenBack
      BY DEF ConfigsInv, ServedAsShown
    <3>2. config'.port = form[e].from
      BY <1>6, <1>7, <2>2
    <3> QED
      BY <1>4, <2>1, <2>2, <3>1, <3>2 DEF ServedAsShown
  <2>3. CASE ~Untouched(form[e])
    BY <1>3, <1>4, <1>7, <2>1, <2>3 DEF ServedAsShown
  <2> QED
    BY <2>2, <2>3
<1> QED
  BY <1>1, <1>4, <1>7, <1>8, <1>9, WriteKeeps

LEMMA ConfigsKept == ConfigsInv /\ [ConfigsNext]_configsVars => ConfigsInv'
<1> SUFFICES ASSUME ConfigsInv, [ConfigsNext]_configsVars  PROVE ConfigsInv'
  OBVIOUS
<1>1. ASSUME NEW e \in Editors, ShowList(e)  PROVE ConfigsInv'
  <2>1. /\ listed' \in [Editors -> ConfigRow] /\ \A d \in Editors : SitePort(listed'[d])
        /\ UNCHANGED <<config, form, lastShown, lastWanted, writtenBack>>
    BY <1>1 DEF ConfigsInv, ShowList
  <2> QED
    BY <2>1 DEF ConfigsInv, ServedAsShown
<1>2. ASSUME NEW e \in Editors, CloseForm(e)  PROVE ConfigsInv'
  BY <1>2, ClosedForm, FillKeeps DEF CloseForm
<1>3. CASE DeleteConfig
  <2>1. config \in ConfigRow /\ UNCHANGED <<listed, form, lastShown, lastWanted, writtenBack>>
    BY <1>3 DEF ConfigsInv, DeleteConfig
  <2>2. /\ config' \in ConfigRow /\ config'.type = config.type /\ config'.port = config.port
    BY <1>3, <2>1 DEF ConfigRow, DeleteConfig
  <2> QED
    BY <2>1, <2>2 DEF ConfigsInv, SitePort, ServedAsShown
<1>4. CASE UNCHANGED configsVars
  BY <1>4 DEF configsVars, ConfigsInv, ServedAsShown
<1> QED
  BY <1>1, <1>2, <1>3, <1>4, OriginKeeps, OpenKeeps, TypeKeeps, SourceKeeps, PortKeeps, NewKeeps,
     EditKeeps DEF ConfigsNext

(* Whatever a service's type was changed from and to, by any number of     *)
(* windows with older lists (ConfigurationStep, EditServiceModal), it is   *)
(* served at the port its last form showed, or is one of the exceptions    *)
(* InVain names; and at the port somebody last changed, unless a form that *)
(* was opened from an older list has put the older port back.              *)
THEOREM PortsAreAsShown == ConfigsSpec => []ServedAsShown
<1>1. ConfigsInv => ServedAsShown
  BY DEF ConfigsInv
<1> QED
  BY <1>1, ConfigsBegin, ConfigsKept, PTL DEF ConfigsSpec

-------------------------------------------------------------------------------
(* What the invariant leaves open of the types: a port is one somebody     *)
(* typed in, or the default of a type. The edit form of an image that was  *)
(* emptied has none.                                                       *)
PortsAsked == Typed \cup {DefaultPorts[t] : t \in Sorts}
ConfigPorts ==
  /\ config.port \in PortsAsked /\ writtenBack \in BOOLEAN
  /\ {lastShown, lastWanted} \subseteq PortsAsked \cup {Unset, ComposeShows}
  /\ \A e \in Editors :
       /\ listed[e].port \in PortsAsked
       /\ form[e].port \in PortsAsked \cup {Unset, Unread}
       /\ form[e].from \in PortsAsked \cup {Unset}
  /\ saves <= MaxSaves /\ saves \in Nat

LEMMA SortsDefault ==
  /\ \A t \in Sorts : DefaultPorts[t] \in PortsAsked
  /\ {80, 3000} \subseteq PortsAsked /\ Chosen \subseteq Sorts
<1>1. "STATIC" \in Sorts /\ "DOCKER" \in Sorts /\ Chosen \subseteq Sorts
  BY DEF Sorts, Chosen
<1> QED
  BY <1>1, SortsHavePorts DEF PortsAsked

LEMMA ConfigPortsBegin == ConfigsInit => ConfigPorts
<1> SUFFICES ASSUME ConfigsInit  PROVE ConfigPorts
  OBVIOUS
<1>1. NoConfig.port = 3000 /\ Closed.port = Unset /\ Closed.from = Unset
  BY DEF NoConfig, Closed
<1>2. saves <= MaxSaves /\ saves \in Nat
  BY ConfigsAssumption DEF ConfigsInit
<1>3. {lastShown, lastWanted} \subseteq PortsAsked \cup {Unset, ComposeShows}
  BY DEF ConfigsInit
<1>4. 3000 \in PortsAsked /\ Unset \in PortsAsked \cup {Unset, Unread}
  BY SortsDefault
<1>5. config.port \in PortsAsked /\ writtenBack \in BOOLEAN
  <2>1. config = NoConfig /\ writtenBack = FALSE
    BY DEF ConfigsInit
  <2>2. config.port \in PortsAsked
    BY <2>1, <1>1, <1>4
  <2>3. writtenBack \in BOOLEAN
    BY <2>1, Zenon
  <2> QED
    BY <2>2, <2>3
<1>6. ASSUME NEW e \in Editors
      PROVE  /\ listed[e].port \in PortsAsked
             /\ form[e].port \in PortsAsked \cup {Unset, Unread}
             /\ form[e].from \in PortsAsked \cup {Unset}
  <2>1. listed[e] = NoConfig /\ form[e] = Closed
    BY <1>6 DEF ConfigsInit
  <2> QED
    BY <2>1, <1>1, <1>4
<1> QED
  BY <1>2, <1>3, <1>5, <1>6 DEF ConfigPorts

(* A form is filled in with a port of these.                               *)
LEMMA FillPorts ==
  ASSUME ConfigsInv, ConfigPorts, NEW e \in Editors, NEW f, Fill(e, f),
         f.port \in PortsAsked \cup {Unset, Unread}, f.from \in PortsAsked \cup {Unset}
  PROVE  ConfigPorts'
BY DEF Fill, ConfigPorts, ConfigsInv

LEMMA FormsPorts ==
  ASSUME ConfigsInv, ConfigPorts, NEW e \in Editors,
         \/ ChooseOrigin(e) \/ OpenEdit(e) \/ CloseForm(e) \/ ChooseType(e)
         \/ ChangeSource(e) \/ TypePort(e)
  PROVE  ConfigPorts'
<1>0. /\ form[e] \in FormRow /\ form[e].port \in PortsAsked \cup {Unset, Unread}
      /\ form[e].from \in PortsAsked \cup {Unset}
  BY DEF ConfigsInv, ConfigPorts
<1>1. PICK f : /\ Fill(e, f) /\ f.port \in PortsAsked \cup {Unset, Unread}
               /\ f.from \in PortsAsked \cup {Unset}
  <2>1. CASE ChooseOrigin(e)
    <3>1. \A s : /\ [NewForm EXCEPT !.source = s].port = Unset
                 /\ [NewForm EXCEPT !.source = s].from = Unset
                 /\ [form[e] EXCEPT !.source = s].port = form[e].port
                 /\ [form[e] EXCEPT !.source = s].from = form[e].from
      BY <1>0 DEF NewForm, Closed, FormRow
    <3> QED
      BY <1>0, <2>1, <3>1 DEF ChooseOrigin
  <2>2. CASE OpenEdit(e)
    <3> DEFINE f == [Closed EXCEPT !.at = "edit", !.type = listed[e].type,
                       !.port = listed[e].port, !.from = listed[e].port,
                       !.source = IF listed[e].image THEN "image" ELSE "repository"]
    <3>1. f.port = listed[e].port /\ f.from = listed[e].port
      BY DEF Closed
    <3> HIDE DEF f
    <3> QED
      BY <2>2, <3>1 DEF OpenEdit, ConfigPorts, f
  <2>3. CASE CloseForm(e)
    BY <2>3 DEF CloseForm, Closed
  <2>4. CASE ChooseType(e)
    <3>1. PICK t \in Chosen : Fill(e, EditType(form[e], t)) \/ Fill(e, WizardType(form[e], t))
      BY <2>4 DEF ChooseType
    <3>2. /\ EditType(form[e], t).port = (IF t = "STATIC" THEN 80 ELSE form[e].port)
          /\ WizardType(form[e], t).port = form[e].port
          /\ EditType(form[e], t).from = form[e].from
          /\ WizardType(form[e], t).from = form[e].from
      BY <1>0 DEF EditType, WizardType, FormRow
    <3> QED
      BY <1>0, <3>1, <3>2, SortsDefault
  <2>5. CASE ChangeSource(e)
    <3>1. \A s : /\ [form[e] EXCEPT !.source = s].port = form[e].port
                 /\ [form[e] EXCEPT !.source = s].from = form[e].from
      BY <1>0 DEF FormRow
    <3> QED
      BY <1>0, <2>5, <3>1 DEF ChangeSource
  <2>6. CASE TypePort(e)
    <3>1. \A p : /\ [form[e] EXCEPT !.port = p].port = p
                 /\ [form[e] EXCEPT !.port = p].from = form[e].from
      BY <1>0 DEF FormRow
    <3>2. PICK p : /\ Fill(e, [form[e] EXCEPT !.port = p])
                   /\ p \in Typed \cup {Unset, Unread}
      BY <2>6 DEF TypePort, ImageEmptied
    <3>3. p \in PortsAsked \cup {Unset, Unread}
      BY <3>2 DEF PortsAsked
    <3> QED
      BY <1>0, <3>1, <3>2, <3>3
  <2> QED
    BY <2>1, <2>2, <2>3, <2>4, <2>5, <2>6
<1> QED
  BY <1>1, FillPorts

(* What is written was asked for, unless the form had it in vain.          *)
LEMMA WritePorts ==
  ASSUME ConfigsInv, ConfigPorts, NEW e \in Editors, NEW live, NEW type,
         NEW port \in PortsAsked, Write(e, live, type, port),
         InVain(form[e]) \/ PortShown(form[e]) \in PortsAsked \cup {Unset, ComposeShows}
  PROVE  /\ config'.port \in PortsAsked /\ writtenBack' \in BOOLEAN
         /\ {lastShown', lastWanted'} \subseteq PortsAsked \cup {Unset, ComposeShows}
         /\ \A d \in Editors : /\ form'[d].port \in PortsAsked \cup {Unset, Unread}
                               /\ form'[d].from \in PortsAsked \cup {Unset}
         /\ saves' <= MaxSaves /\ saves' \in Nat
<1>1. /\ config'.port = port /\ writtenBack' \in BOOLEAN
      /\ {lastShown', lastWanted'} \subseteq PortsAsked \cup {Unset, ComposeShows}
  <2>1. config'.port = port /\ writtenBack' \in BOOLEAN
    BY DEF Write, ConfigPorts
  <2>2. PortAsked(form[e]) \in PortsAsked \cup {Unset, ComposeShows}
    BY DEF PortAsked
  <2> QED
    BY <2>1, <2>2 DEF Write, ConfigPorts
<1>2. Closed.port = Unset /\ Closed.from = Unset
  BY DEF Closed
<1>3. \A d \in Editors : /\ form'[d].port \in PortsAsked \cup {Unset, Unread}
                        /\ form'[d].from \in PortsAsked \cup {Unset}
  BY <1>2 DEF Write, ConfigPorts, ConfigsInv
<1>4. saves' <= MaxSaves /\ saves' \in Nat
  BY ConfigsAssumption DEF Write, ConfigPorts
<1> QED
  BY <1>1, <1>3, <1>4

LEMMA NewPorts ==
  ASSUME ConfigsInv, ConfigPorts, NEW e \in Editors, SubmitNew(e)
  PROVE  ConfigPorts'
<1> DEFINE f == form[e]
<1>0. /\ f \in FormRow /\ f.type \in Chosen /\ f.at = "wizard" /\ Valid(PayloadPort(f))
      /\ f.port \in PortsAsked \cup {Unset, Unread} /\ UNCHANGED listed
  BY DEF ConfigsInv, ConfigPorts, SubmitNew, Editable
<1>1. PICK engine : /\ engine \in IF f.source = "database" THEN Engines ELSE {"none"}
                    /\ Write(e, TRUE, FinalType(f, engine),
                             FinalPort(FinalType(f, engine), PayloadPort(f)))
  BY DEF SubmitNew
<1> HIDE DEF f
<1>2. FinalType(f, engine) \in Sorts
  BY <1>0, <1>1 DEF FinalType, Sorts, Chosen
<1>3. PayloadPort(f) \in PortsAsked \cup {Unset}
  BY <1>0 DEF PayloadPort, Valid
<1>4. FinalPort(FinalType(f, engine), PayloadPort(f)) \in PortsAsked
  BY <1>2, <1>3, SortsDefault DEF FinalPort
<1>5. InVain(f) \/ PortShown(f) \in PortsAsked \cup {Unset, ComposeShows}
  <2>1. CASE f.source = "database"
    BY <1>0, <2>1 DEF InVain
  <2>2. CASE f.source # "database" /\ f.type = "STATIC" /\ ~IsImage(f)
    BY <1>0, <2>2, SortsDefault DEF PortShown, Fields, WizardFields, StaticShows
  <2>3. CASE f.source # "database" /\ (f.type # "STATIC" \/ IsImage(f))
    <3>1. f.port \in PortsAsked \cup {Unset}
      BY <1>0, <1>3, <2>3 DEF PayloadPort, Chosen
    <3> QED
      BY <3>1, SortsDefault DEF PortShown, StaticShows, DockerShows
  <2> QED
    BY <2>1, <2>2, <2>3
<1> QED
  BY <1>0, <1>1, <1>4, <1>5, WritePorts DEF ConfigPorts, f

LEMMA EditPorts ==
  ASSUME ConfigsInv, ConfigPorts, NEW e \in Editors, SubmitEdit(e)
  PROVE  ConfigPorts'
<1> DEFINE f == form[e]
<1>0. /\ f \in FormRow /\ Valid(f.port) /\ f.port \in PortsAsked \cup {Unset, Unread}
      /\ Write(e, config.live, f.type, UpdatedPort(f)) /\ f.type \in Sorts
      /\ listed' = [listed EXCEPT ![e] = config']
  BY DEF ConfigsInv, ConfigPorts, SubmitEdit, FormRow
<1> HIDE DEF f
<1>1. f.port \in PortsAsked \cup {Unset}
  BY <1>0 DEF Valid
<1>2. UpdatedPort(f) \in PortsAsked
  BY <1>0, <1>1, SortsDefault DEF UpdatedPort
<1>3. PortShown(f) \in PortsAsked \cup {Unset, ComposeShows}
  BY <1>1, SortsDefault DEF PortShown, StaticShows, DockerShows
<1>4. /\ config'.port \in PortsAsked /\ writtenBack' \in BOOLEAN
      /\ {lastShown', lastWanted'} \subseteq PortsAsked \cup {Unset, ComposeShows}
      /\ \A d \in Editors : /\ form'[d].port \in PortsAsked \cup {Unset, Unread}
                            /\ form'[d].from \in PortsAsked \cup {Unset}
      /\ saves' <= MaxSaves /\ saves' \in Nat
  BY <1>0, <1>2, <1>3, WritePorts DEF f
<1>5. \A d \in Editors : listed'[d] = config' \/ listed'[d] = listed[d]
  BY <1>0 DEF ConfigsInv
<1> QED
  BY <1>4, <1>5 DEF ConfigPorts

LEMMA ConfigPortsKept == ConfigsInv /\ ConfigPorts /\ [ConfigsNext]_configsVars => ConfigPorts'
<1> SUFFICES ASSUME ConfigsInv, ConfigPorts, [ConfigsNext]_configsVars  PROVE ConfigPorts'
  OBVIOUS
<1>1. CASE UNCHANGED configsVars
  BY <1>1 DEF configsVars, ConfigPorts
<1>2. ASSUME NEW e \in Editors, ShowList(e)  PROVE ConfigPorts'
  <2>1. \A d \in Editors : listed'[d] = config \/ listed'[d] = listed[d]
    BY <1>2 DEF ShowList, ConfigsInv
  <2> QED
    BY <1>2, <2>1 DEF ShowList, ConfigPorts
<1>3. CASE DeleteConfig
  <2>1. config'.port = config.port
    BY <1>3 DEF DeleteConfig, ConfigsInv, ConfigRow
  <2> QED
    BY <1>3, <2>1 DEF DeleteConfig, ConfigPorts
<1> QED
  BY <1>1, <1>2, <1>3, FormsPorts, NewPorts, EditPorts DEF ConfigsNext

(* The service's row and the forms keep their types: a port of the row is  *)
(* one that was typed in or the default of a type, never what a form has   *)
(* for no port (ServiceCreateSchema, getServiceDefaults).                  *)
THEOREM ConfigsTypeCorrect == ConfigsSpec => []ConfigsTypeOK
<1>1. ConfigsInv /\ ConfigPorts => ConfigsTypeOK
  <2> SUFFICES ASSUME ConfigsInv, ConfigPorts  PROVE ConfigsTypeOK
    OBVIOUS
  <2>1. /\ config \in ConfigRow /\ listed \in [Editors -> ConfigRow]
        /\ form \in [Editors -> FormRow] /\ saves \in 0 .. MaxSaves
    BY ConfigsAssumption DEF ConfigsInv, ConfigPorts
  <2> DEFINE rows == [live : BOOLEAN, type : Sorts, port : PortsAsked, image : BOOLEAN]
             forms == [at : {"page", "wizard", "edit"}, source : Origins, type : Sorts,
                       port : PortsAsked \cup {Unset, Unread}, from : PortsAsked \cup {Unset}]
  <2>2. config \in rows
    BY <2>1 DEF ConfigPorts, ConfigRow
  <2>3. listed \in [Editors -> rows]
    BY <2>1 DEF ConfigPorts, ConfigRow
  <2>4. form \in [Editors -> forms]
    BY <2>1 DEF ConfigPorts, FormRow
  <2>5. /\ {lastShown, lastWanted} \subseteq PortsAsked \cup {Unset, ComposeShows}
        /\ writtenBack \in BOOLEAN
    BY DEF ConfigPorts
  <2>6. PortsAsked = Typed \cup {DefaultPorts[t] : t \in Chosen \cup Engines}
    BY DEF PortsAsked, Sorts
  <2> QED
    BY <2>1, <2>2, <2>3, <2>4, <2>5, <2>6 DEF ConfigsTypeOK, Sorts
<1> QED
  BY <1>1, ConfigsBegin, ConfigsKept, ConfigPortsBegin, ConfigPortsKept, PTL DEF ConfigsSpec

-------------------------------------------------------------------------------
(***************************************************************************)
(* Wizard: a list put together page by page misses nothing that was left   *)
(* alone. What is updated goes to the front, so what is left alone only    *)
(* moves to later pages: of it, a fetch has got what it has not still      *)
(* ahead. The last page is not full, so nothing is behind it.              *)
(***************************************************************************)

FetchRow ==
  [at : {"idle", "asked"}, owner : HubOwners, page : Nat \ {0}, got : SUBSET Repos,
   calm : SUBSET Repos, shrunk : BOOLEAN]

HubTyped ==
  /\ DOMAIN hub \subseteq Repos /\ IsInjective(hub) /\ changes \in Nat
  /\ \A x \in DOMAIN hub : hub[x] \in Int /\ hub[x] <= changes

(* The repository is got, or on the next page or behind it.                *)
Reachable(l, x) ==
  x \in l.got \/ (l.page - 1) * PageSize <= Cardinality(Ahead(Listing(l.owner), x))

SoundFetch(l) ==
  /\ l \in FetchRow
  /\ l.at = "asked" => /\ l.calm \subseteq Listing(l.owner)
                       /\ ~l.shrunk => \A x \in l.calm : Reachable(l, x)

WizardInv ==
  /\ HubTyped
  /\ loop \in [Loops -> FetchRow] /\ \A f \in Loops : SoundFetch(loop[f])
  /\ offered \in FetchRow
  /\ NoneMissed

-------------------------------------------------------------------------------
(* Listings are finite, and the place of a repository is a number.         *)
LEMMA Placed ==
  ASSUME NEW S \in SUBSET Repos, NEW x
  PROVE  /\ IsFiniteSet(S) /\ IsFiniteSet(Ahead(S, x))
         /\ Cardinality(Ahead(S, x)) \in Nat
  <1>1. IsFiniteSet(S)
    BY FS_Subset, WizardAssumption DEF WizardAssumption
  <1>2. Ahead(S, x) \in SUBSET S
    BY DEF Ahead
  <1>3. IsFiniteSet(Ahead(S, x))
    BY ONLY <1>1, <1>2, FS_Subset
  <1> QED
    BY <1>1, <1>3, FS_CardinalityType

(* Of two repositories the older one has more ahead.                       *)
LEMMA OlderIsBehind ==
  ASSUME HubTyped, NEW S \in SUBSET (DOMAIN hub), NEW y \in S, NEW z \in S, hub[y] > hub[z]
  PROVE  Cardinality(Ahead(S, y)) < Cardinality(Ahead(S, z))
  <1>1. /\ Ahead(S, y) \in SUBSET Ahead(S, z) /\ Ahead(S, y) # Ahead(S, z)
    BY DEF Ahead, HubTyped
  <1>2. S \in SUBSET Repos
    BY DEF HubTyped
  <1>3. /\ IsFiniteSet(Ahead(S, z)) /\ Cardinality(Ahead(S, y)) \in Nat
        /\ Cardinality(Ahead(S, z)) \in Nat
    BY <1>2, Placed
  <1>4. /\ Cardinality(Ahead(S, y)) <= Cardinality(Ahead(S, z))
        /\ Cardinality(Ahead(S, y)) # Cardinality(Ahead(S, z))
    BY ONLY <1>1, <1>3, FS_Subset
  <1> QED
    BY <1>3, <1>4

(* What is ahead of a repository has the places before it, each one taken. *)
LEMMA PlacesTaken ==
  ASSUME HubTyped, NEW S \in SUBSET (DOMAIN hub), NEW x \in S,
         NEW i \in Nat, i < Cardinality(Ahead(S, x))
  PROVE  \E y \in Ahead(S, x) : Cardinality(Ahead(S, y)) = i
  <1> DEFINE A == Ahead(S, x)
             r == Cardinality(A)
             place == [y \in A |-> Cardinality(Ahead(S, y))]
  <1>1. S \in SUBSET Repos /\ A \subseteq S /\ \A y \in A : hub[y] > hub[x]
    BY DEF HubTyped, Ahead
  <1>2. r \in Nat /\ IsFiniteSet(A)
    BY <1>1, Placed
  <1>3. \A y \in A : place[y] \in Nat /\ place[y] < r
    <2> SUFFICES ASSUME NEW y \in A PROVE place[y] \in Nat /\ place[y] < r
      OBVIOUS
    <2>1. Cardinality(Ahead(S, y)) \in Nat
      BY <1>1, Placed
    <2>2. Cardinality(Ahead(S, y)) < Cardinality(Ahead(S, x))
      BY <1>1, OlderIsBehind
    <2> QED
      BY <2>1, <2>2
  <1>4. place \in [A -> 0 .. (r - 1)]
    BY <1>2, <1>3
  <1>5. IsInjective(place)
    <2> SUFFICES ASSUME NEW y \in A, NEW z \in A, y # z PROVE place[y] # place[z]
      BY DEF IsInjective
    <2>1. hub[y] > hub[z] \/ hub[z] > hub[y]
      BY <1>1 DEF HubTyped, IsInjective
    <2>2. Cardinality(Ahead(S, y)) < Cardinality(Ahead(S, z))
          \/ Cardinality(Ahead(S, z)) < Cardinality(Ahead(S, y))
      BY <1>1, <2>1, OlderIsBehind
    <2> QED
      BY <1>3, <2>2
  <1>6. place \in Injection(A, 0 .. (r - 1))
    BY <1>4, <1>5 DEF Injection
  <1>7. IsFiniteSet(0 .. (r - 1)) /\ Cardinality(0 .. (r - 1)) = r
    <2> HIDE DEF A, r
    <2>1. 0 \in Int /\ r - 1 \in Int /\ (IF 0 > r - 1 THEN 0 ELSE (r - 1) - 0 + 1) = r
      BY <1>2
    <2> QED
      BY <2>1, FS_Interval
  <1>8. place \in Surjection(A, 0 .. (r - 1))
    BY ONLY <1>6, <1>7, FS_Injection
  <1>9. \E y \in A : place[y] = i
    <2>1. i \in 0 .. (r - 1)
      <3>1. i < r /\ r \in Nat
        BY <1>2
      <3> HIDE DEF A, r
      <3> QED
        BY <3>1
    <2> HIDE DEF A, r, place
    <2> QED
      BY <1>8, <2>1 DEF Surjection
  <1> QED
    BY <1>9

(* A page before a repository is full.                                     *)
LEMMA FullSlice ==
  ASSUME HubTyped, NEW S \in SUBSET (DOMAIN hub), NEW x \in S,
         NEW n \in Nat \ {0}, NEW size \in Nat \ {0},
         n * size <= Cardinality(Ahead(S, x))
  PROVE  Cardinality(Slice(S, n, size)) >= size
  <1> DEFINE Q == Slice(S, n, size)
             lo == (n - 1) * size
             hi == n * size
             place == [y \in Q |-> Cardinality(Ahead(S, y))]
  <1>1. S \in SUBSET Repos /\ Q \in SUBSET S
    BY DEF HubTyped, Slice
  <1>2. lo \in Nat /\ hi \in Nat /\ hi = lo + size
    <2>1. hi = lo + size
      BY SMT
    <2>2. (n - 1) \in Nat /\ lo \in Nat
      BY SMT
    <2> QED
      BY <2>1, <2>2
  <1>3. IsFiniteSet(Q)
    BY <1>1, Placed
  <1>4. place \in [Q -> lo .. (hi - 1)]
    <2> SUFFICES ASSUME NEW y \in Q PROVE Cardinality(Ahead(S, y)) \in lo .. (hi - 1)
      OBVIOUS
    <2>1. Cardinality(Ahead(S, y)) \in Nat
      BY <1>1, Placed
    <2>2. lo <= Cardinality(Ahead(S, y)) /\ Cardinality(Ahead(S, y)) < hi
      BY DEF Slice
    <2> HIDE DEF lo, hi
    <2> QED
      BY <1>2, <2>1, <2>2
  <1>5. ASSUME NEW i \in lo .. (hi - 1) PROVE \E y \in Q : place[y] = i
    <2>1. i \in Nat /\ lo <= i /\ i < hi /\ i < Cardinality(Ahead(S, x))
      <3>1. Cardinality(Ahead(S, x)) \in Nat /\ hi <= Cardinality(Ahead(S, x))
        BY <1>1, Placed
      <3> HIDE DEF lo, hi
      <3> QED
        BY <1>2, <3>1
    <2>2. PICK y \in Ahead(S, x) : Cardinality(Ahead(S, y)) = i
      BY <2>1, PlacesTaken
    <2>3. y \in S
      BY DEF Ahead
    <2>4. y \in Q
      BY <2>1, <2>2, <2>3 DEF Slice
    <2> QED
      BY <2>2, <2>4
  <1>6. place \in Surjection(Q, lo .. (hi - 1))
    BY <1>4, <1>5 DEF Surjection
  <1>7. Cardinality(lo .. (hi - 1)) <= Cardinality(Q)
    BY ONLY <1>3, <1>6, FS_Surjection
  <1>8. Cardinality(lo .. (hi - 1)) = size
    <2> HIDE DEF lo, hi
    <2>1. lo \in Int /\ hi - 1 \in Int /\ ~(lo > hi - 1) /\ (hi - 1) - lo + 1 = size
      BY <1>2
    <2> QED
      BY <2>1, FS_Interval
  <1>9. Cardinality(Q) \in Nat
    BY <1>3, FS_CardinalityType
  <1> QED
    BY <1>7, <1>8, <1>9

-------------------------------------------------------------------------------
(* A fetch that begins has everything ahead of it.                         *)
LEMMA FetchBegins ==
  ASSUME HubTyped, NEW o \in HubOwners
  PROVE  /\ Beginning(o) \in FetchRow /\ SoundFetch(Beginning(o))
         /\ NoLoop \in FetchRow /\ SoundFetch(NoLoop) /\ NoLoop.calm = {}
  <1>1. Listing(o) \subseteq Repos
    BY DEF HubTyped, Listing
  <1>2. NoLoop \in FetchRow /\ NoLoop.at = "idle" /\ NoLoop.page = 1 /\ NoLoop.calm = {}
        /\ NoLoop.shrunk = FALSE
    BY DEF NoLoop, FetchRow, HubOwners
  <1>3. /\ Beginning(o) \in FetchRow /\ Beginning(o).at = "asked" /\ Beginning(o).owner = o
        /\ Beginning(o).page = 1 /\ Beginning(o).calm = Listing(o)
    BY <1>1, <1>2 DEF Beginning, FetchRow
  <1>4. ASSUME NEW x \in Listing(o)
        PROVE  (1 - 1) * PageSize <= Cardinality(Ahead(Listing(o), x))
    <2>1. Cardinality(Ahead(Listing(o), x)) \in Nat
      BY <1>1, Placed
    <2>2. (1 - 1) * PageSize = 0
      BY WizardAssumption DEF WizardAssumption
    <2> QED
      BY <2>1, <2>2
  <1> QED
    BY <1>2, <1>3, <1>4 DEF SoundFetch, Reachable

(* Nothing changes at GitHub: what a fetch has and lacks stays.            *)
LEMMA SoundLasts ==
  ASSUME UNCHANGED <<hub, changes>>
  PROVE  /\ HubTyped => HubTyped'
         /\ \A l : SoundFetch(l) => SoundFetch(l)'
  BY DEF HubTyped, SoundFetch, Reachable, Ahead, Listing

LEMMA WizardBegins == WizardInit => WizardInv
  <1> SUFFICES ASSUME WizardInit PROVE WizardInv
    OBVIOUS
  <1>1. HubTyped
    <2>1. Cardinality(Repos) \in Nat
      BY WizardAssumption, FS_CardinalityType DEF WizardAssumption
    <2> QED
      BY <2>1 DEF WizardInit, HubTyped
  <1>2. NoLoop \in FetchRow /\ SoundFetch(NoLoop) /\ NoLoop.calm = {}
    BY <1>1, FetchBegins DEF HubOwners
  <1>3. NoneMissed
    BY <1>2 DEF WizardInit, NoneMissed
  <1> QED
    BY <1>1, <1>2, <1>3 DEF WizardInit, WizardInv

(* Whatever touches neither fetches nor lists.                             *)
LEMMA QuietKeeps ==
  WizardInv /\ UNCHANGED <<hub, changes, source, loop, offered>> => WizardInv'
  BY SoundLasts DEF WizardInv, NoneMissed

(* A picker shows or goes: the fetches are new, and so is the list.        *)
LEMMA ShowsKeepsInv == \A n, s : WizardInv /\ Shows(n, s) /\ OnlyWizard => WizardInv'
  <1> SUFFICES ASSUME NEW n, NEW s, WizardInv, Shows(n, s), OnlyWizard PROVE WizardInv'
    OBVIOUS
  <1>1. HubTyped /\ HubTyped'
    BY SoundLasts DEF WizardInv, OnlyWizard
  <1>2. /\ Beginning("user") \in FetchRow /\ SoundFetch(Beginning("user"))
        /\ NoLoop \in FetchRow /\ SoundFetch(NoLoop) /\ NoLoop.calm = {}
    BY <1>1, FetchBegins DEF HubOwners
  <1>3. \A f \in Loops : loop'[f] \in {Beginning("user"), NoLoop}
    BY DEF Shows
  <1>4. loop' \in [Loops -> FetchRow]
    BY <1>2 DEF Shows
  <1>5. \A f \in Loops : SoundFetch(loop[f])'
    <2> SUFFICES ASSUME NEW f \in Loops PROVE SoundFetch(loop[f])'
      OBVIOUS
    <2>1. SoundFetch(loop'[f])
      BY <1>2, <1>3
    <2> QED
      BY <2>1 DEF OnlyWizard, SoundFetch, Reachable, Ahead, Listing
  <1>6. offered' = NoLoop
    BY DEF Shows
  <1>7. NoneMissed'
    BY <1>2, <1>6 DEF NoneMissed
  <1> QED
    BY <1>1, <1>2, <1>4, <1>5, <1>6, <1>7 DEF WizardInv

(* One fetch becomes another sound one, or none; the list stays.           *)
LEMMA OneFetchKeeps ==
  ASSUME WizardInv, OnlyWizard, NEW f \in Loops, NEW l, SoundFetch(l),
         loop' = [loop EXCEPT ![f] = l]
  PROVE  /\ HubTyped' /\ loop' \in [Loops -> FetchRow]
         /\ \A g \in Loops : SoundFetch(loop[g])'
  <1>1. HubTyped'
    BY SoundLasts DEF WizardInv, OnlyWizard
  <1>2. l \in FetchRow
    BY DEF SoundFetch
  <1>3. loop' \in [Loops -> FetchRow]
    BY <1>2 DEF WizardInv
  <1>4. ASSUME NEW g \in Loops PROVE SoundFetch(loop[g])'
    <2>1. SoundFetch(loop'[g])
      BY DEF WizardInv
    <2> QED
      BY <2>1 DEF OnlyWizard, SoundFetch, Reachable, Ahead, Listing
  <1> QED
    BY <1>1, <1>3, <1>4

LEMMA OwnerKeeps == \A o \in HubOwners : WizardInv /\ ChooseOwner(o) => WizardInv'
  <1> SUFFICES ASSUME NEW o \in HubOwners, WizardInv, ChooseOwner(o) PROVE WizardInv'
    OBVIOUS
  <1>1. PICK f \in Loops : loop' = [loop EXCEPT ![f] = Beginning(o)]
    BY DEF ChooseOwner
  <1>2. SoundFetch(Beginning(o))
    BY FetchBegins DEF WizardInv
  <1>3. OnlyWizard /\ UNCHANGED <<source, offered>>
    BY DEF ChooseOwner
  <1>4. /\ HubTyped' /\ loop' \in [Loops -> FetchRow]
        /\ \A g \in Loops : SoundFetch(loop[g])'
    BY <1>1, <1>2, <1>3, OneFetchKeeps
  <1> QED
    BY <1>3, <1>4 DEF WizardInv, NoneMissed

LEMMA FailureKeeps == \A f \in Loops : WizardInv /\ FetchFails(f) => WizardInv'
  <1> SUFFICES ASSUME NEW f \in Loops, WizardInv, FetchFails(f) PROVE WizardInv'
    OBVIOUS
  <1>1. SoundFetch(NoLoop)
    BY FetchBegins DEF WizardInv, HubOwners
  <1>2. OnlyWizard /\ UNCHANGED <<source, offered>> /\ loop' = [loop EXCEPT ![f] = NoLoop]
    BY DEF FetchFails
  <1>3. /\ HubTyped' /\ loop' \in [Loops -> FetchRow]
        /\ \A g \in Loops : SoundFetch(loop[g])'
    BY <1>1, <1>2, OneFetchKeeps
  <1> QED
    BY <1>2, <1>3 DEF WizardInv, NoneMissed

(* Images come all at once; the property is not about them.                *)
LEMMA ImagesKeep == \A f \in Loops : WizardInv /\ ImagesCome(f) => WizardInv'
  <1> SUFFICES ASSUME NEW f \in Loops, WizardInv, ImagesCome(f) PROVE WizardInv'
    OBVIOUS
  <1>1. SoundFetch(NoLoop)
    BY FetchBegins DEF WizardInv, HubOwners
  <1>2. /\ OnlyWizard /\ source = "github-image" /\ source' = source
        /\ loop' = [loop EXCEPT ![f] = NoLoop]
    BY DEF ImagesCome
  <1>3. /\ HubTyped' /\ loop' \in [Loops -> FetchRow]
        /\ \A g \in Loops : SoundFetch(loop[g])'
    BY <1>1, <1>2, OneFetchKeeps
  <1>4. \A owners : Images(owners) \in SUBSET Repos
    BY DEF WizardInv, HubTyped, Images, Slice
  <1>5. loop[f] \in FetchRow
    BY DEF WizardInv
  <1>6. offered' \in FetchRow
    <2>1. PICK owners \in Answering(loop[f].owner) :
            offered' = [loop[f] EXCEPT !.at = "idle", !.got = Images(owners)]
      BY DEF ImagesCome
    <2>2. Images(owners) \in SUBSET Repos
      BY <1>4
    <2> QED
      BY <1>5, <2>1, <2>2 DEF FetchRow
  <1> QED
    BY <1>2, <1>3, <1>6 DEF WizardInv, NoneMissed

-------------------------------------------------------------------------------
(* After a page everything left alone is got, or on a later page.          *)
LEMMA PageMoves ==
  ASSUME HubTyped, NEW l, SoundFetch(l), l.at = "asked", ~l.shrunk, NEW x \in l.calm
  PROVE  LET page == Slice(Listing(l.owner), l.page, PageSize) IN
         /\ \/ x \in l.got \cup page
            \/ l.page * PageSize <= Cardinality(Ahead(Listing(l.owner), x))
         /\ LastPage(page) => x \in l.got \cup page
  <1> DEFINE S == Listing(l.owner)
             page == Slice(S, l.page, PageSize)
             place == Cardinality(Ahead(S, x))
  <1>1. l.page \in Nat \ {0} /\ PageSize \in Nat \ {0}
    BY WizardAssumption DEF SoundFetch, FetchRow, WizardAssumption
  <1>2. S \in SUBSET (DOMAIN hub) /\ S \in SUBSET Repos /\ x \in S
    BY DEF SoundFetch, HubTyped, Listing
  <1>3. place \in Nat /\ l.page * PageSize \in Nat
    <2>1. \A a, b \in Nat : a * b \in Nat
      OBVIOUS
    <2> QED
      BY <1>1, <1>2, <2>1, Placed
  <1>4. x \in l.got \/ (l.page - 1) * PageSize <= place
    BY DEF SoundFetch, Reachable
  <1>5. place < l.page * PageSize => x \in l.got \cup page
    BY <1>2, <1>4 DEF Slice
  <1>6. ASSUME l.page * PageSize <= place PROVE ~LastPage(page)
    <2>1. Cardinality(page) >= PageSize
      BY <1>1, <1>2, <1>6, FullSlice
    <2>2. IsFiniteSet(page)
      <3>1. page \in SUBSET Repos
        BY <1>2 DEF Slice
      <3> QED
        BY <3>1, Placed
    <2>3. Cardinality(page) \in Nat
      BY <2>2, FS_CardinalityType
    <2> QED
      BY <1>1, <2>1, <2>3 DEF LastPage
  <1> HIDE DEF page, place
  <1>7. place < l.page * PageSize \/ l.page * PageSize <= place
    BY <1>3
  <1> QED
    BY <1>5, <1>6, <1>7 DEF page, place

(* A list that is complete has what the last page made of it.              *)
LEMMA ListEnds ==
  ASSUME NEW l \in FetchRow
  PROVE  LET whole == [l EXCEPT !.at = "idle", !.page = 1] IN
         /\ whole \in FetchRow
         /\ whole.got = l.got /\ whole.calm = l.calm /\ whole.shrunk = l.shrunk
  <1>1. ASSUME NEW p \in Nat \ {0}, NEW a \in {"idle", "asked"}
        PROVE  LET whole == [l EXCEPT !.at = a, !.page = p] IN
               /\ whole \in FetchRow
               /\ whole.got = l.got /\ whole.calm = l.calm /\ whole.shrunk = l.shrunk
    BY DEF FetchRow
  <1>2. 1 \in Nat \ {0} /\ "idle" \in {"idle", "asked"}
    OBVIOUS
  <1> QED
    BY <1>1, <1>2

LEMMA PageKeeps == \A f \in Loops : WizardInv /\ PageComes(f) => WizardInv'
  <1> SUFFICES ASSUME NEW f \in Loops, WizardInv, PageComes(f) PROVE WizardInv'
    OBVIOUS
  <1> DEFINE l == loop[f]
             page == Slice(Listing(l.owner), l.page, PageSize)
             next == [l EXCEPT !.got = @ \cup page, !.page = @ + 1]
             whole == [next EXCEPT !.at = "idle", !.page = 1]
  <1>1. /\ HubTyped /\ SoundFetch(l) /\ l \in FetchRow /\ l.at = "asked" /\ SoundFetch(NoLoop)
        /\ OnlyWizard /\ source' = source
    BY FetchBegins DEF WizardInv, HubOwners, PageComes
  <1>2. page \in SUBSET Repos
    BY <1>1 DEF HubTyped, Listing, Slice
  <1>3. /\ next \in FetchRow /\ whole \in FetchRow
        /\ next.at = "asked" /\ next.owner = l.owner /\ next.page = l.page + 1
        /\ {next.calm, whole.calm} = {l.calm} /\ {next.got, whole.got} = {l.got \cup page}
        /\ {next.shrunk, whole.shrunk} = {l.shrunk}
    <2> HIDE DEF page
    <2>1. /\ l.page \in Nat \ {0} /\ l.got \in SUBSET Repos /\ l.calm \in SUBSET Repos
          /\ l.owner \in HubOwners /\ l.shrunk \in BOOLEAN
          /\ l.page + 1 \in Nat \ {0} /\ l.got \cup page \in SUBSET Repos
      BY <1>1, <1>2 DEF FetchRow
    <2>2. /\ next \in FetchRow /\ next.at = "asked" /\ next.owner = l.owner
          /\ next.page = l.page + 1 /\ next.got = l.got \cup page
          /\ next.calm = l.calm /\ next.shrunk = l.shrunk
      BY <1>1, <2>1 DEF FetchRow
    <2>3. /\ whole \in FetchRow /\ whole.got = l.got \cup page
          /\ whole.calm = l.calm /\ whole.shrunk = l.shrunk
      BY <2>2, ListEnds
    <2> HIDE DEF next, whole
    <2> QED
      BY <2>2, <2>3
  <1>4. ASSUME ~l.shrunk, NEW x \in l.calm
        PROVE  /\ x \in l.got \cup page
                  \/ l.page * PageSize <= Cardinality(Ahead(Listing(l.owner), x))
               /\ LastPage(page) => x \in l.got \cup page
    BY <1>1, <1>4, PageMoves
  <1> HIDE DEF page
  <1>5. SoundFetch(next)
    <2>1. next.calm \subseteq Listing(next.owner)
      BY <1>1, <1>3 DEF SoundFetch
    <2>2. ASSUME ~next.shrunk, NEW x \in next.calm PROVE Reachable(next, x)
      <3>1. (next.page - 1) * PageSize = l.page * PageSize
        <4>1. l.page \in Nat
          BY <1>1 DEF FetchRow
        <4>2. next.page - 1 = l.page
          BY <1>3, <4>1
        <4> QED
          BY <4>2
      <3> HIDE DEF next
      <3> QED
        BY <1>3, <1>4, <2>2, <3>1 DEF Reachable
    <2> HIDE DEF next
    <2> QED
      BY <1>3, <2>1, <2>2 DEF SoundFetch
  <1>6. CASE LastPage(page)
    <2>1. loop' = [loop EXCEPT ![f] = NoLoop] /\ offered' = whole
      BY <1>6 DEF PageComes, page
    <2>2. /\ HubTyped' /\ loop' \in [Loops -> FetchRow]
          /\ \A g \in Loops : SoundFetch(loop[g])'
      BY <1>1, <2>1, OneFetchKeeps
    <2>3. ~whole.shrunk => whole.calm \subseteq whole.got
      BY <1>3, <1>4, <1>6
    <2> HIDE DEF whole
    <2> QED
      BY <1>3, <2>1, <2>2, <2>3 DEF WizardInv, NoneMissed
  <1>7. CASE ~LastPage(page)
    <2>1. loop' = [loop EXCEPT ![f] = next] /\ offered' = offered
      BY <1>7 DEF PageComes, page
    <2> HIDE DEF next
    <2>2. /\ HubTyped' /\ loop' \in [Loops -> FetchRow]
          /\ \A g \in Loops : SoundFetch(loop[g])'
      BY <1>1, <1>5, <2>1, OneFetchKeeps
    <2> QED
      BY <1>1, <2>1, <2>2 DEF WizardInv, NoneMissed
  <1> QED
    BY <1>6, <1>7

-------------------------------------------------------------------------------
(* An update goes to the front: what is left alone keeps its place or      *)
(* moves back.                                                             *)
LEMMA PushKeeps == \A x \in Repos : WizardInv /\ Pushed(x) => WizardInv'
  <1> SUFFICES ASSUME NEW x \in Repos, WizardInv, Pushed(x) PROVE WizardInv'
    OBVIOUS
  <1>1. /\ x \in DOMAIN hub /\ hub' = [hub EXCEPT ![x] = changes + 1] /\ changes' = changes + 1
        /\ loop' = [f \in Loops |-> [loop[f] EXCEPT !.calm = @ \ {x}]]
        /\ UNCHANGED <<source, offered>> /\ HubTyped
    BY DEF WizardInv, Pushed, HubChanges
  <1>2. HubTyped'
    BY <1>1 DEF HubTyped, IsInjective
  <1>3. DOMAIN hub' = DOMAIN hub
    BY <1>1
  <1>4. ASSUME NEW o, NEW y \in Listing(o), y # x
        PROVE  LET after == {z \in Listing(o) : hub'[z] > hub'[y]} IN
               /\ Cardinality(Ahead(Listing(o), y)) \in Nat /\ Cardinality(after) \in Nat
               /\ Cardinality(Ahead(Listing(o), y)) <= Cardinality(after)
    <2> DEFINE S == Listing(o)
               before == Ahead(S, y)
               after == {z \in S : hub'[z] > hub'[y]}
    <2>1. S \in SUBSET Repos /\ S \in SUBSET (DOMAIN hub)
      BY <1>1 DEF HubTyped, Listing
    <2>2. ASSUME NEW z \in S
          PROVE  /\ hub'[z] \in Int /\ hub[z] \in Int /\ hub'[z] >= hub[z]
                 /\ z # x => hub'[z] = hub[z]
      <3>1. hub[z] \in Int /\ changes + 1 \in Int /\ changes + 1 >= hub[z]
        BY <1>1, <2>1 DEF HubTyped
      <3>2. hub'[z] = IF z = x THEN changes + 1 ELSE hub[z]
        BY <1>1, <2>1
      <3> QED
        BY <3>1, <3>2
    <2>3. hub'[y] = hub[y] /\ hub[y] \in Int
      BY <1>4, <2>2
    <2>4. before \in SUBSET after /\ after \in SUBSET S
      <3> HIDE DEF S
      <3> QED
        BY <2>2, <2>3 DEF Ahead
    <2>5. IsFiniteSet(S) /\ Cardinality(before) \in Nat
      BY <2>1, Placed
    <2>6. IsFiniteSet(after) /\ Cardinality(after) \in Nat
      BY ONLY <2>4, <2>5, FS_Subset, FS_CardinalityType
    <2>7. Cardinality(before) <= Cardinality(after)
      BY ONLY <2>4, <2>6, FS_Subset
    <2> QED
      BY <2>5, <2>6, <2>7
  <1>5. ASSUME NEW f \in Loops PROVE loop'[f] \in FetchRow /\ SoundFetch(loop[f])'
    <2> DEFINE l == loop[f]
               m == loop'[f]
    <2>1. l \in FetchRow /\ SoundFetch(l)
      BY DEF WizardInv
    <2>2. /\ m \in FetchRow /\ m.at = l.at /\ m.owner = l.owner /\ m.page = l.page
          /\ m.got = l.got /\ m.shrunk = l.shrunk /\ m.calm = l.calm \ {x}
      BY <1>1, <2>1 DEF FetchRow
    <2>3. Listing(loop[f].owner)' = Listing(l.owner)
      BY <1>3, <2>2 DEF Listing
    <2>4. m.at = "asked" => m.calm \subseteq Listing(l.owner)
      BY <2>1, <2>2 DEF SoundFetch
    <2>5. ASSUME m.at = "asked", ~m.shrunk, NEW y \in m.calm PROVE Reachable(loop[f], y)'
      <3>1. y \in Listing(l.owner) /\ y # x /\ Reachable(l, y)
        BY <2>1, <2>2, <2>5 DEF SoundFetch
      <3> DEFINE after == {z \in Listing(l.owner) : hub'[z] > hub'[y]}
                 before == Ahead(Listing(l.owner), y)
      <3>2. /\ Cardinality(before) \in Nat /\ Cardinality(after) \in Nat
            /\ Cardinality(before) <= Cardinality(after)
        BY <1>4, <3>1
      <3>3. y \in l.got \/ (l.page - 1) * PageSize <= Cardinality(before)
        BY <3>1 DEF Reachable
      <3>4. (l.page - 1) * PageSize \in Int
        <4>1. \A a, b \in Int : a * b \in Int
          OBVIOUS
        <4>2. l.page - 1 \in Int /\ PageSize \in Int
          BY <2>1, WizardAssumption DEF FetchRow, WizardAssumption
        <4> QED
          BY <4>1, <4>2
      <3>5. Ahead(Listing(loop[f].owner), y)' = after
        BY <2>3 DEF Ahead
      <3> HIDE DEF before, after
      <3>6. y \in m.got \/ (m.page - 1) * PageSize <= Cardinality(after)
        BY <2>2, <3>2, <3>3, <3>4
      <3> QED
        BY <3>5, <3>6 DEF Reachable
    <2> QED
      BY <2>2, <2>3, <2>4, <2>5 DEF SoundFetch
  <1>6. loop' \in [Loops -> FetchRow]
    BY <1>1, <1>5
  <1> QED
    BY <1>1, <1>2, <1>5, <1>6 DEF WizardInv, NoneMissed

(* Of a list of which something is deleted nothing is promised.            *)
LEMMA WithdrawalKeeps == \A x \in Repos : WizardInv /\ Withdrawn(x) => WizardInv'
  <1> SUFFICES ASSUME NEW x \in Repos, WizardInv, Withdrawn(x) PROVE WizardInv'
    OBVIOUS
  <1>1. /\ hub' = [y \in DOMAIN hub \ {x} |-> hub[y]] /\ changes' = changes + 1
        /\ loop' = [f \in Loops |-> [loop[f] EXCEPT !.calm = @ \ {x}, !.shrunk = loop[f].at # "idle"]]
        /\ UNCHANGED <<source, offered>> /\ HubTyped
    BY DEF WizardInv, Withdrawn, HubChanges, Restrict
  <1>2. HubTyped'
    <2>1. DOMAIN hub' = DOMAIN hub \ {x} /\ \A y \in DOMAIN hub' : hub'[y] = hub[y]
      BY <1>1
    <2>2. changes \in Nat /\ \A y \in DOMAIN hub : hub[y] \in Int /\ hub[y] <= changes + 1
      <3>1. changes \in Nat /\ \A y \in DOMAIN hub : hub[y] \in Int /\ hub[y] <= changes
        BY <1>1 DEF HubTyped
      <3> QED
        BY <3>1
    <2>3. IsInjective(hub')
      BY <1>1, <2>1 DEF HubTyped, IsInjective
    <2>4. \A y \in DOMAIN hub' : hub'[y] \in Int /\ hub'[y] <= changes'
      BY <1>1, <2>1, <2>2
    <2>5. DOMAIN hub' \subseteq Repos /\ changes' \in Nat
      <3>1. changes' = changes + 1 /\ DOMAIN hub \subseteq Repos
        BY <1>1 DEF HubTyped
      <3> QED
        BY <2>1, <2>2, <3>1
    <2> QED
      BY <2>3, <2>4, <2>5 DEF HubTyped
  <1>3. DOMAIN hub' = DOMAIN hub \ {x}
    BY <1>1
  <1>4. ASSUME NEW f \in Loops PROVE loop'[f] \in FetchRow /\ SoundFetch(loop[f])'
    <2> DEFINE l == loop[f]
               m == loop'[f]
    <2>1. l \in FetchRow /\ SoundFetch(l)
      BY DEF WizardInv
    <2>2. /\ m \in FetchRow /\ m.at = l.at /\ m.owner = l.owner
          /\ m.shrunk = (l.at # "idle") /\ m.calm = l.calm \ {x}
      BY <1>1, <2>1 DEF FetchRow
    <2>3. Listing(loop[f].owner)' = Listing(l.owner) \ {x}
      BY <1>3, <2>2 DEF Listing
    <2>4. m.at = "asked" => m.shrunk /\ m.calm \subseteq Listing(l.owner) \ {x}
      BY <2>1, <2>2 DEF SoundFetch
    <2> QED
      BY <2>2, <2>3, <2>4 DEF SoundFetch
  <1>5. loop' \in [Loops -> FetchRow]
    BY <1>1, <1>4
  <1> QED
    BY <1>1, <1>2, <1>4, <1>5 DEF WizardInv, NoneMissed

-------------------------------------------------------------------------------
LEMMA WizardKept == WizardInv /\ [WizardNext]_wizardVars => WizardInv'
  <1> SUFFICES ASSUME WizardInv, [WizardNext]_wizardVars PROVE WizardInv'
    OBVIOUS
  <1>1. ASSUME NEW n \in 1 .. 3, ClickStep(n) PROVE WizardInv'
    BY <1>1, ShowsKeepsInv DEF ClickStep
  <1>2. ASSUME ProjectChosen PROVE WizardInv'
    BY <1>2, ShowsKeepsInv DEF ProjectChosen
  <1>3. ASSUME NEW s \in ImportTypes, ChooseSource(s) PROVE WizardInv'
    BY <1>3, ShowsKeepsInv DEF ChooseSource
  <1>4. ASSUME NEW o \in HubOwners, ChooseOwner(o) PROVE WizardInv'
    BY <1>4, OwnerKeeps
  <1>5. ASSUME NEW f \in Loops, PageComes(f) \/ ImagesCome(f) \/ FetchFails(f) PROVE WizardInv'
    BY <1>5, PageKeeps, ImagesKeep, FailureKeeps
  <1>6. ASSUME NEW x \in Repos, PickRepo(x) \/ PickImage(x) PROVE WizardInv'
    BY <1>6, ShowsKeepsInv DEF PickRepo, PickImage
  <1>7. ASSUME NEW x \in Repos, Pushed(x) \/ Withdrawn(x) PROVE WizardInv'
    BY <1>7, PushKeeps, WithdrawalKeeps
  <1>8. ASSUME TypeIn PROVE WizardInv'
    BY <1>8, ShowsKeepsInv DEF TypeIn
  <1>9. ASSUME Submit PROVE WizardInv'
    BY <1>9, QuietKeeps DEF Submit, OnlyWizard
  <1>10. ASSUME CreateAnswered PROVE WizardInv'
    <2>1. OnlyWizard /\ (UNCHANGED <<source, loop, offered>> \/ Shows(3, source))
      BY <1>10 DEF CreateAnswered
    <2> QED
      BY <2>1, QuietKeeps, ShowsKeepsInv DEF OnlyWizard
  <1>11. ASSUME DeployAnswered PROVE WizardInv'
    BY <1>11, ShowsKeepsInv DEF DeployAnswered
  <1>12. ASSUME UNCHANGED wizardVars PROVE WizardInv'
    BY <1>12, QuietKeeps DEF wizardVars
  <1> QED
    BY <1>1, <1>2, <1>3, <1>4, <1>5, <1>6, <1>7, <1>8, <1>9, <1>10, <1>11, <1>12
    DEF WizardNext

(* The list of repositories that the picker shows misses none that was at  *)
(* GitHub, and was left alone, from the first page to the last, unless one *)
(* was deleted meanwhile: for any number of repositories, of pages, of     *)
(* fetches at once and of updates between two pages (fetchRepos).          *)
THEOREM NothingIsMissed == WizardSpec => []NoneMissed
  <1>1. WizardInv => NoneMissed
    BY DEF WizardInv
  <1> QED
    BY WizardBegins, WizardKept, <1>1, PTL DEF WizardSpec

-------------------------------------------------------------------------------
(* What the invariant leaves open of the types: where the wizard stands.   *)
WizardStands ==
  /\ changes <= MaxChanges
  /\ step \in 0 .. 3 /\ source \in ImportTypes /\ wanted \in HubOwners
  /\ loading \in BOOLEAN /\ filled \in BOOLEAN /\ submit \in {"idle", "create", "deploy"}

LEMMA ShowsStands ==
  ASSUME NEW n \in 0 .. 3, NEW s \in ImportTypes, Shows(n, s)
  PROVE  /\ step' \in 0 .. 3 /\ source' \in ImportTypes /\ wanted' \in HubOwners
         /\ loading' \in BOOLEAN
BY DEF Shows, HubOwners

LEMMA StandsKept == HubTyped /\ WizardStands /\ [WizardNext]_wizardVars => WizardStands'
<1> SUFFICES ASSUME HubTyped, WizardStands, [WizardNext]_wizardVars  PROVE WizardStands'
  OBVIOUS
<1>1. CASE UNCHANGED wizardVars
  BY <1>1 DEF wizardVars, WizardStands
<1>2. ASSUME NEW n \in 0 .. 3, NEW s \in ImportTypes, Shows(n, s), OnlyWizard,
             filled' \in BOOLEAN, submit' \in {"idle", "create", "deploy"}
      PROVE  WizardStands'
  BY <1>2, ShowsStands DEF WizardStands, OnlyWizard
<1>3. ASSUME NEW n \in 1 .. 3, ClickStep(n)  PROVE WizardStands'
  BY <1>2, <1>3 DEF ClickStep, WizardStands
<1>4. ASSUME ProjectChosen \/ TypeIn
             \/ (\E s \in ImportTypes : ChooseSource(s))
             \/ (\E x \in Repos : PickRepo(x) \/ PickImage(x))
      PROVE  WizardStands'
  <2>1. PICK n \in {2, 3}, s \in ImportTypes : Shows(n, s)
    BY <1>4 DEF ProjectChosen, TypeIn, ChooseSource, PickRepo, PickImage, WizardStands
  <2>2. OnlyWizard /\ filled' \in BOOLEAN /\ submit' \in {"idle", "create", "deploy"}
    BY <1>4 DEF ProjectChosen, TypeIn, ChooseSource, PickRepo, PickImage, WizardStands
  <2> QED
    BY <1>2, <2>1, <2>2
<1>5. ASSUME NEW o \in HubOwners, ChooseOwner(o)  PROVE WizardStands'
  BY <1>5 DEF ChooseOwner, OnlyWizard, WizardStands
<1>6. ASSUME NEW f \in Loops, PageComes(f) \/ ImagesCome(f) \/ FetchFails(f)
      PROVE  WizardStands'
  BY <1>6 DEF PageComes, ImagesCome, FetchFails, OnlyWizard, WizardStands
<1>7. ASSUME NEW x \in Repos, Pushed(x) \/ Withdrawn(x)  PROVE WizardStands'
  <2>1. changes \in Nat /\ MaxChanges \in Nat
    BY WizardAssumption DEF HubTyped
  <2>2. changes < MaxChanges /\ changes' = changes + 1
    BY <1>7 DEF Pushed, Withdrawn, HubChanges
  <2>3. changes' <= MaxChanges
    BY <2>1, <2>2
  <2> QED
    BY <1>7, <2>3 DEF Pushed, Withdrawn, HubChanges, WizardStands
<1>8. CASE Submit
  BY <1>8 DEF Submit, OnlyWizard, WizardStands
<1>9. CASE CreateAnswered
  <2>1. CASE submit' = "deploy" /\ UNCHANGED <<step, source, wanted, loop, offered, loading>>
    BY <1>9, <2>1 DEF CreateAnswered, OnlyWizard, WizardStands
  <2>2. CASE submit' = "idle" /\ Shows(3, source)
    BY <1>2, <1>9, <2>2 DEF CreateAnswered, WizardStands
  <2> QED
    BY <1>9, <2>1, <2>2 DEF CreateAnswered
<1>10. CASE DeployAnswered
  BY <1>2, <1>10 DEF DeployAnswered, WizardStands
<1> QED
  BY <1>1, <1>3, <1>4, <1>5, <1>6, <1>7, <1>8, <1>9, <1>10, Zenon DEF WizardNext

(* The wizard stands at one of its steps, and its fetches keep their types *)
(* (new/page.tsx, fetchRepos).                                             *)
THEOREM WizardTypeCorrect == WizardSpec => []WizardTypeOK
<1>1. WizardInit => WizardStands
  <2> SUFFICES ASSUME WizardInit  PROVE WizardStands
    OBVIOUS
  <2>1. /\ changes = 0 /\ step = 1 /\ source = "github" /\ wanted = "user"
        /\ loading = FALSE /\ filled = FALSE /\ submit = "idle"
    BY DEF WizardInit
  <2>2. MaxChanges \in Nat
    BY WizardAssumption
  <2>3. changes <= MaxChanges /\ step \in 0 .. 3
    BY ONLY <2>1, <2>2
  <2>4. /\ source \in ImportTypes /\ wanted \in HubOwners /\ loading \in BOOLEAN
        /\ filled \in BOOLEAN /\ submit \in {"idle", "create", "deploy"}
    BY ONLY <2>1 DEF ImportTypes, HubOwners
  <2> QED
    BY <2>3, <2>4 DEF WizardStands
<1>2. WizardInv /\ WizardStands => WizardTypeOK
  <2> SUFFICES ASSUME WizardInv, WizardStands  PROVE WizardTypeOK
    OBVIOUS
  <2>1. changes \in 0 .. MaxChanges
    BY WizardAssumption DEF WizardInv, HubTyped, WizardStands
  <2> QED
    BY <2>1 DEF WizardInv, HubTyped, WizardStands, WizardTypeOK, FetchRow
<1>3. WizardInv => HubTyped
  BY DEF WizardInv
<1> QED
  BY <1>1, <1>2, <1>3, WizardBegins, WizardKept, StandsKept, PTL DEF WizardSpec
===============================================================================
