------------------------------- MODULE Dashboard --------------------------------
(***************************************************************************)
(* A project page of the dashboard: the cached list of services, the      *)
(* mutations that guess the outcome of a request and take the guess back   *)
(* (useServices), the refetches they start and cancel, and the metrics     *)
(* that are streamed into the same list.  What a row says is abstracted to *)
(* its version at the API.                                                 *)
(***************************************************************************)
EXTENDS Naturals

CONSTANTS
  Cards,        \* services of the project
  Clicks,       \* mutations under way at once
  MaxClicks,    \* bound: mutations
  Changes       \* bound: changes of a service's row

ASSUME DashboardAssumption == MaxClicks \in Nat /\ Changes \in Nat

VARIABLES
  version,      \* version[s]: of the row, 0 once it is deleted
  list,         \* list[s]: what the page shows of s and how it came by it
  fetching,     \* the request for the list
  answered,     \* the last one succeeded
  click,        \* click[m]: a mutation, and the list before it
  clicks,       \* mutations so far
  reported,     \* reported[s]: newest version a settled mutation of s ended with
  removed,      \* services this page deleted
  overtaken,    \* history: services updated since the list on its way was read
  crossed       \* history: services that an update or a deletion answered for,
                \* and then a list that was read before it

dashboardVars == <<version, list, fetching, answered, click, clicks, reported, removed,
                   overtaken, crossed>>

Versions == 0 .. Changes + 1
Guessed == {"deploy", "restart", "stop"}      \* mutations with onMutate
Absent == [from |-> "nowhere", ver |-> 0]
Nowhere == [s \in Cards |-> Absent]
Card == [from : {"nowhere", "list", "guess", "answer", "metrics"}, ver : Versions]
NoList == [s \in Cards |-> 0]
NoClick == [op |-> "none", card |-> "none", at |-> "idle", ver |-> 0, before |-> Nowhere]
Rest == [at |-> "idle", data |-> NoList]
Sources(data) == [s \in Cards |-> IF data[s] = 0 THEN Absent
                                  ELSE [from |-> "list", ver |-> data[s]]]

DashboardInit ==
  /\ version = [s \in Cards |-> 1]
  /\ list = Sources(version)
  /\ fetching = Rest /\ answered = TRUE
  /\ click = [m \in Clicks |-> NoClick]
  /\ clicks = 0
  /\ reported = NoList /\ removed = {}
  /\ overtaken = {} /\ crossed = {}

DashboardTypeOK ==
  /\ version \in [Cards -> Versions]
  /\ list \in [Cards -> Card]
  /\ fetching \in [at : {"idle", "asked", "read"}, data : [Cards -> Versions]]
  /\ answered \in BOOLEAN
  /\ click \in [Clicks -> [op : Guessed \cup {"update", "delete", "none"},
                           card : Cards \cup {"none"},
                           at : {"idle", "sent", "done", "failed"}, ver : Versions,
                           before : [Cards -> Card]]]
  /\ clicks \in 0 .. MaxClicks
  /\ reported \in [Cards -> Versions]
  /\ removed \subseteq Cards /\ overtaken \subseteq Cards /\ crossed \subseteq Cards

-------------------------------------------------------------------------------
Changed(s) == version[s] # 0 /\ version[s] <= Changes
Fetches == fetching' = [Rest EXCEPT !.at = "asked"]
Back(m) == click' = [click EXCEPT ![m] = NoClick]
OnlyClient == UNCHANGED <<version, answered, crossed>>

(* handleDeploy, handleRestart, handleStop: a refetch under way is given    *)
(* up, the list is kept aside and the outcome guessed.  handleUpdate-      *)
(* Service, handleDelete: nothing of the kind.                             *)
Begin(m, s, op) ==
  /\ click[m].at = "idle" /\ list[s].from # "nowhere"
  /\ clicks < MaxClicks /\ clicks' = clicks + 1
  /\ click' = [click EXCEPT ![m] =
       [op |-> op, card |-> s, at |-> "sent", ver |-> 0,
        before |-> IF op \in Guessed THEN list ELSE Nowhere]]
  /\ IF op \in Guessed
     THEN /\ fetching' = Rest /\ overtaken' = {}
          /\ list' = [list EXCEPT ![s] = [from |-> "guess", ver |-> 0]]
     ELSE UNCHANGED <<fetching, list, overtaken>>
  /\ UNCHANGED <<reported, removed>> /\ OnlyClient

(* The API carries the request out, or fails, before or after the change.  *)
Carry(m) ==
  /\ click[m].at = "sent"
  /\ LET s == click[m].card
         after == IF click[m].op = "delete" THEN 0 ELSE version[s] + 1 IN
       \/ /\ Changed(s) /\ version' = [version EXCEPT ![s] = after]
          /\ \E end \in {"done", "failed"} :
               click' = [click EXCEPT ![m].at = end, ![m].ver = after]
       \/ /\ click' = [click EXCEPT ![m].at = "failed", ![m].ver = version[s]]
          /\ UNCHANGED version
  /\ UNCHANGED <<list, fetching, answered, clicks, reported, removed, overtaken, crossed>>

(* onSuccess and onError: what the hooks do to the list.                   *)
Patched(m) ==
  LET s == click[m].card
      shown == list[s].from # "nowhere" IN
  CASE click[m].at = "failed" /\ click[m].op \in Guessed -> click[m].before
    [] click[m].at = "done" /\ click[m].op \in {"restart", "update"} /\ shown ->
         [list EXCEPT ![s] = [from |-> "answer", ver |-> click[m].ver]]
    [] click[m].at = "done" /\ click[m].op = "delete" -> [list EXCEPT ![s] = Absent]
    [] OTHER -> list

(* An update, whose answer is the row itself.                              *)
Updated(m) == click[m].at = "done" /\ click[m].op = "update"

Reports(m) ==
  /\ list' = Patched(m)
  /\ reported' = IF click[m].op \in Guessed \/ Updated(m)
                 THEN [reported EXCEPT ![click[m].card] = IF click[m].ver > @ THEN click[m].ver ELSE @]
                 ELSE reported
  /\ removed' = IF click[m].at = "done" /\ click[m].op = "delete"
                THEN removed \cup {click[m].card} ELSE removed

Overtakes(m) ==
  overtaken' = IF click[m].op \in Guessed THEN {}
               ELSE IF Updated(m) /\ fetching.at = "read" THEN overtaken \cup {click[m].card}
               ELSE overtaken

(* Mutant: the list is fetched again only when no request for it is under  *)
(* way.                                                                    *)
Answered_KeepFetch(m) ==
  /\ click[m].at \in {"done", "failed"}
  /\ Reports(m) /\ Back(m) /\ UNCHANGED clicks
  /\ IF click[m].op \in Guessed /\ fetching.at = "idle" THEN Fetches ELSE UNCHANGED fetching
  /\ Overtakes(m)
  /\ OnlyClient

(* onSettled: a mutation that guessed has the list fetched, from the start *)
(* when a request for it was under way.  After an update or a deletion     *)
(* nothing is fetched, and a request under way is left to come.            *)
Answered(m) ==
  /\ click[m].at \in {"done", "failed"}
  /\ Reports(m) /\ Back(m) /\ UNCHANGED clicks
  /\ IF click[m].op \in Guessed THEN Fetches ELSE UNCHANGED fetching
  /\ Overtakes(m)
  /\ OnlyClient

-------------------------------------------------------------------------------
OnlyFetch == UNCHANGED <<version, click, clicks, reported, removed>>

(* useServices: the page is opened again, or the network is back.          *)
Refetch ==
  /\ fetching.at = "idle" /\ Fetches
  /\ UNCHANGED <<list, answered, overtaken, crossed>> /\ OnlyFetch

ListServices ==
  /\ fetching.at = "asked"
  /\ fetching' = [at |-> "read", data |-> version]
  /\ UNCHANGED <<list, answered, overtaken, crossed>> /\ OnlyFetch

ListComes ==
  /\ fetching.at = "read"
  /\ list' = Sources(fetching.data)
  /\ fetching' = Rest /\ answered' = TRUE
  /\ crossed' = overtaken \cup {s \in removed : fetching.data[s] # 0} /\ overtaken' = {}
  /\ OnlyFetch

ListFails ==
  /\ fetching.at # "idle"
  /\ fetching' = Rest /\ answered' = FALSE
  /\ overtaken' = {} /\ UNCHANGED <<list, crossed>> /\ OnlyFetch

-------------------------------------------------------------------------------
OnlyServer ==
  UNCHANGED <<fetching, answered, click, clicks, reported, removed, overtaken,
              crossed>>

(* A worker or another page changes the row.                               *)
RowChanges(s) ==
  /\ Changed(s) /\ version' = [version EXCEPT ![s] = @ + 1]
  /\ UNCHANGED list /\ OnlyServer

(* createUpdateServiceMetrics: a message has the status of the containers, *)
(* not of the rows, and sets that of every service that is shown.          *)
MetricsCome ==
  /\ list' = [s \in Cards |-> IF list[s].from = "nowhere" \/ version[s] = 0 THEN list[s]
                              ELSE [from |-> "metrics", ver |-> 0]]
  /\ UNCHANGED version /\ OnlyServer

DashboardNext ==
  \/ \E m \in Clicks, s \in Cards, op \in Guessed \cup {"update", "delete"} : Begin(m, s, op)
  \/ \E m \in Clicks : Carry(m) \/ Answered(m)
  \/ Refetch \/ ListServices \/ ListComes \/ ListFails
  \/ \E s \in Cards : RowChanges(s)
  \/ MetricsCome

DashboardSpec == DashboardInit /\ [][DashboardNext]_dashboardVars

-------------------------------------------------------------------------------
(* When nothing is under way and the last request for the list succeeded,  *)
(* no guess is left, although rollbacks restore lists in which another     *)
(* mutation's guess stands; a row that came with the list is not older     *)
(* than what a guessed mutation of it, or an update that was answered,     *)
(* ended with; and no service that was deleted here is shown.  The last    *)
(* two fail, and nothing corrects it, when a list that was read before an   *)
(* update or a deletion comes after its answer: the hooks neither cancel   *)
(* that request nor fetch again.                                           *)
GuessesEnd ==
  (\A m \in Clicks : click[m].at = "idle") /\ fetching.at = "idle" /\ answered =>
    \A s \in Cards :
      /\ list[s].from # "guess"
      /\ list[s].from = "list" => list[s].ver >= reported[s] \/ s \in crossed
      /\ s \in removed => list[s].from = "nowhere" \/ s \in crossed
===============================================================================
