--------------------------------- MODULE Flags ----------------------------------
(***************************************************************************)
(* Feature flags: the flags the administrators create, edit, toggle and    *)
(* delete (FeatureFlagController, FeatureFlagService), the list a page of  *)
(* the admin application holds of them, and a page of the dashboard that   *)
(* asks for them through FeatureFlagClient's cache.                        *)
(***************************************************************************)
EXTENDS Integers, Sequences

CONSTANTS
  Keys,        \* keys of flags
  Admins,      \* pages of the admin application
  Checks,      \* checks a dashboard page has under way at once
  CacheTtl,    \* how long a cached answer is used
  MaxCache,    \* MAX_CACHE_SIZE
  Delay,       \* bound: the longest a check takes
  Until,       \* bound: the end of time
  MaxEdits     \* bound: changes of flags

ASSUME FlagsAssumption ==
  /\ CacheTtl \in Nat /\ Delay \in Nat /\ Until \in Nat /\ MaxEdits \in Nat
  /\ MaxCache \in Nat \ {0}

VARIABLES
  flag,       \* flag[k]: absent, off or on
  edits,      \* changes so far
  admin,      \* admin[a]: where the page's request stands and what it has read
  clock,
  wasLast,    \* history: wasLast[k][b]: the last time a check of k gave b, -1 for never
  cache,      \* the dashboard's Map: a sequence, the oldest insertion first
  check,      \* check[c]: a check under way
  shown       \* shown[k]: the last answer the page was given, and when

flagsVars == <<flag, edits, admin, clock, wasLast, cache, check, shown>>

FlagStates == {"absent", "off", "on"}
Enabled(k) == flag[k] = "on"            \* isEnabled, without segments
Entry(k, value, at) == [key |-> k, value |-> value, at |-> at]
Cached(k) == {i \in DOMAIN cache : cache[i].key = k}
NoKey == "no-key"
NoCheck == [at |-> "idle", key |-> NoKey, since |-> 0, value |-> FALSE]
NoEdit == [at |-> "idle", key |-> NoKey, on |-> FALSE]
Instants == -1 .. Until

FlagsInit ==
  /\ flag = [k \in Keys |-> "absent"] /\ edits = 0
  /\ admin = [a \in Admins |-> NoEdit]
  /\ clock = 0
  /\ wasLast = [k \in Keys |-> [b \in BOOLEAN |-> IF b THEN -1 ELSE 0]]
  /\ cache = << >>
  /\ check = [c \in Checks |-> NoCheck]
  /\ shown = [k \in Keys |-> Entry(k, FALSE, -1)]

FlagsTypeOK ==
  /\ flag \in [Keys -> FlagStates] /\ edits \in 0 .. MaxEdits
  /\ admin \in [Admins -> [at : {"idle", "write"}, key : Keys \cup {NoKey}, on : BOOLEAN]]
  /\ clock \in 0 .. Until
  /\ wasLast \in [Keys -> [BOOLEAN -> Instants]]
  /\ cache \in Seq([key : Keys, value : BOOLEAN, at : Instants])
  /\ Len(cache) <= MaxCache + 1   \* eviction comes before insertion
  /\ check \in [Checks -> [at : {"idle", "asked", "read"}, key : Keys \cup {NoKey},
                           since : Instants, value : BOOLEAN]]
  /\ shown \in [Keys -> [key : Keys, value : BOOLEAN, at : Instants]]

-------------------------------------------------------------------------------
OnlyFlags == UNCHANGED <<clock, cache, check, shown>>
Sets(k, state) ==
  /\ flag' = [flag EXCEPT ![k] = state]
  /\ wasLast' = [wasLast EXCEPT ![k][state = "on"] = clock]

(* What FeatureFlagService looks up before it creates, updates or deletes. *)
FlagExists(k) == flag[k] # "absent"

(* POST, PATCH /feature-flags: the page sends the whole form, enabled with *)
(* it; a key is created once.  DELETE: whatever is there.                  *)
CreateFlag(k, on) ==
  /\ ~FlagExists(k) /\ edits < MaxEdits /\ edits' = edits + 1
  /\ Sets(k, IF on THEN "on" ELSE "off")
  /\ UNCHANGED admin /\ OnlyFlags

DeleteFlag(k) ==
  /\ FlagExists(k) /\ edits < MaxEdits /\ edits' = edits + 1
  /\ Sets(k, "absent")
  /\ UNCHANGED admin /\ OnlyFlags

(* openEditModal copies the flag, as the list shows it, into the form.     *)
OpenForm(a, k) ==
  /\ admin[a].at = "idle" /\ FlagExists(k) /\ edits < MaxEdits
  /\ admin' = [admin EXCEPT ![a] = [at |-> "write", key |-> k, on |-> Enabled(k)]]
  /\ UNCHANGED <<flag, edits, wasLast>> /\ OnlyFlags

(* toggleFlag reads the flag and then writes the opposite.                 *)
ReadToggle(a, k) ==
  /\ admin[a].at = "idle" /\ FlagExists(k) /\ edits < MaxEdits
  /\ admin' = [admin EXCEPT ![a] = [at |-> "write", key |-> k, on |-> ~Enabled(k)]]
  /\ UNCHANGED <<flag, edits, wasLast>> /\ OnlyFlags

(* updateFlag of a flag that is gone fails.                                *)
WriteFlag(a) ==
  /\ admin[a].at = "write"
  /\ LET k == admin[a].key IN
       IF ~FlagExists(k) \/ edits = MaxEdits THEN UNCHANGED <<flag, edits, wasLast>>
       ELSE Sets(k, IF admin[a].on THEN "on" ELSE "off") /\ edits' = edits + 1
  /\ admin' = [admin EXCEPT ![a] = NoEdit]
  /\ OnlyFlags

-------------------------------------------------------------------------------
OnlyPage == UNCHANGED <<flag, edits, admin, clock, wasLast>>

(* Mutant: an answer is used as long as it is in the cache.                *)
Fresh_Always(i) == TRUE

Fresh(i) == clock - cache[i].at < CacheTtl

(* useFeatureFlag: the page shows what it is answered.                     *)
ShowsFlag(k, e) == shown' = [shown EXCEPT ![k] = e]

(* isEnabled: a fresh answer of the cache, or a question to the API.       *)
AskFlag(c, k) ==
  /\ check[c].at = "idle"
  /\ \/ \E i \in Cached(k) :
          /\ Fresh(i)
          /\ ShowsFlag(k, Entry(k, cache[i].value, clock))
          /\ UNCHANGED check
     \/ /\ \A i \in Cached(k) : ~Fresh(i)
        /\ check' = [check EXCEPT ![c] =
             [at |-> "asked", key |-> k, since |-> clock, value |-> FALSE]]
        /\ UNCHANGED shown
  /\ UNCHANGED cache /\ OnlyPage

ReadFlag(c) ==
  /\ check[c].at = "asked"
  /\ check' = [check EXCEPT ![c].at = "read", ![c].value = Enabled(check[c].key)]
  /\ UNCHANGED <<cache, shown>> /\ OnlyPage

(* evictOldestCacheEntries, before the new entry is added: what exceeds    *)
(* the limit goes, the oldest insertion first.                             *)
Evicted == IF Len(cache) <= MaxCache THEN cache
           ELSE SubSeq(cache, Len(cache) - MaxCache + 1, Len(cache))

(* Map.set: a key that is there keeps its place.                           *)
Put(entries, e) ==
  IF \E i \in DOMAIN entries : entries[i].key = e.key
  THEN [i \in DOMAIN entries |-> IF entries[i].key = e.key THEN e ELSE entries[i]]
  ELSE Append(entries, e)

AnswerComes(c) ==
  /\ check[c].at = "read"
  /\ LET e == Entry(check[c].key, check[c].value, clock) IN
       /\ cache' = Put(Evicted, e)
       /\ ShowsFlag(e.key, e)
  /\ check' = [check EXCEPT ![c] = NoCheck]
  /\ OnlyPage

(* An error is answered FALSE and not cached.                              *)
CheckFails(c) ==
  /\ check[c].at \in {"asked", "read"}
  /\ ShowsFlag(check[c].key, Entry(check[c].key, FALSE, -1))
  /\ check' = [check EXCEPT ![c] = NoCheck]
  /\ UNCHANGED cache /\ OnlyPage

(* Time passes, no check takes longer than Delay.                          *)
TimePasses ==
  /\ clock < Until /\ clock' = clock + 1
  /\ \A c \in Checks : check[c].at # "idle" => clock - check[c].since < Delay
  /\ wasLast' = [k \in Keys |-> [wasLast[k] EXCEPT ![Enabled(k)] = clock + 1]]
  /\ UNCHANGED <<flag, edits, admin, cache, check, shown>>

FlagsNext ==
  \/ \E k \in Keys, on \in BOOLEAN : CreateFlag(k, on)
  \/ \E k \in Keys : DeleteFlag(k)
  \/ \E a \in Admins, k \in Keys : OpenForm(a, k) \/ ReadToggle(a, k)
  \/ \E a \in Admins : WriteFlag(a)
  \/ \E c \in Checks, k \in Keys : AskFlag(c, k)
  \/ \E c \in Checks : ReadFlag(c) \/ AnswerComes(c) \/ CheckFails(c)
  \/ TimePasses

FlagsSpec == FlagsInit /\ [][FlagsNext]_flagsVars

-------------------------------------------------------------------------------
(* The answer a page is given was true of the flag not longer ago than the *)
(* time an answer is cached and the time a check takes, although answers   *)
(* come in any order and each restarts the clock of its key.               *)
AnswersRecent ==
  \A k \in Keys :
    shown[k].at >= 0 => LET seen == wasLast[k][shown[k].value] IN
                        seen >= 0 /\ shown[k].at - seen < CacheTtl + Delay + 1
===============================================================================
