-------------------------- MODULE SubscriptionRecord --------------------------
(***************************************************************************)
(* What the webhooks promise about the subscription rows, whatever becomes *)
(* of the events: a row is about a subscription that Stripe has, with the  *)
(* customer it belongs to, and no two rows share a customer; it turns to   *)
(* another subscription as a whole or keeps both; it says ACTIVE only of a *)
(* subscription that was; and it is never taken back.                      *)
(***************************************************************************)
CONSTANTS Ids, Subs, Customers, Statuses

VARIABLES
  owner,   \* owner[s]: customer of subscription s, 0 before it exists
  paid,    \* subscriptions that were active at some time
  book     \* book[i]: what row i says, Blank before it is created

recordVars == <<owner, paid, book>>

Blank == [sub |-> 0, cust |-> 0, status |-> "CANCELED"]

Init ==
  /\ owner = [s \in Subs |-> 0]
  /\ paid = {}
  /\ book = [i \in Ids |-> Blank]

(* A subscription begins, paid at once or not, and belongs to its customer *)
(* for good.                                                               *)
Open(s, c) ==
  /\ owner[s] = 0
  /\ owner' = [owner EXCEPT ![s] = c]
  /\ paid' \in {paid, paid \cup {s}}
  /\ UNCHANGED book

Pay(s) ==
  /\ owner[s] # 0
  /\ paid' = paid \cup {s}
  /\ UNCHANGED <<owner, book>>

(* A row is created for a subscription, or turns to it.                    *)
Adopt(i, s, status) ==
  /\ owner[s] # 0
  /\ status = "ACTIVE" => s \in paid
  /\ \A j \in Ids \ {i} : book[j] # Blank => book[j].cust # owner[s] /\ book[j].sub # s
  /\ book' = [book EXCEPT ![i] = [sub |-> s, cust |-> owner[s], status |-> status]]
  /\ UNCHANGED <<owner, paid>>

(* A row says something else of its subscription.                          *)
Restate(i, status) ==
  /\ book[i] # Blank
  /\ status = "ACTIVE" => book[i].sub \in paid
  /\ book' = [book EXCEPT ![i].status = status]
  /\ UNCHANGED <<owner, paid>>

Next ==
  \/ \E s \in Subs : Pay(s) \/ \E c \in Customers : Open(s, c)
  \/ \E i \in Ids, status \in Statuses :
       Restate(i, status) \/ \E s \in Subs : Adopt(i, s, status)

Spec == Init /\ [][Next]_recordVars
===============================================================================
