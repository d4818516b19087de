---------------------------- MODULE Subscriptions -----------------------------
(***************************************************************************)
(* The subscription rows of one user: the checkout that leads to a Stripe  *)
(* subscription (BillingController, BillingService.getOrCreateCustomer)    *)
(* and the webhook that mirrors Stripe's events                            *)
(* (StripeWebhookController, SubscriptionService).  Stripe sends an event  *)
(* until it is answered with 200, and may send it again after that; several*)
(* deliveries may be handled at once, in any order.                        *)
(***************************************************************************)
EXTENDS Stripe

CONSTANTS
  Hooks,       \* deliveries that may be handled at once
  Checkouts,   \* bound: the checkout requests that may ever be made
  RowIds       \* bound: ids of subscription rows, numbered in order from 1

PlanSet == {"FREE", "STARTER", "PRO", "ENTERPRISE"}
StatusSet == {"ACTIVE", "PAST_DUE", "CANCELED", "UNPAID"}
PriceSet == {"price_starter", "price_pro", "price_enterprise", "price_unknown"}

ASSUME SubscriptionAssumption ==
  Prices \subseteq PriceSet /\ RowIds \subseteq Nat \ {0}

VARIABLES
  rows,       \* rows[i]: subscription row i, NoRow before it is created
  hook,       \* hook[h]: the handler of a delivery
  checkout,   \* checkout[q]: the handler of a checkout request, and its session
  acked,      \* events answered with 200
  inOrder     \* so far each event was handled alone, after all before it

apiVars == <<rows, hook, checkout, acked, inOrder>>
vars == <<stripeVars, apiVars>>

Row == [sub : Subs, cust : Customers, plan : PlanSet, status : StatusSet, period : Nat]
NoRow == [sub |-> 0, cust |-> 0, plan |-> "FREE", status |-> "CANCELED", period |-> 0]
Exists(i) == rows[i] # NoRow

Hook(at, n, found) == [at |-> at, n |-> n, found |-> found]
Idle == Hook("idle", 0, 0)
Checkout(at, cust) == [at |-> at, cust |-> cust]

Init ==
  /\ StripeInit
  /\ rows = [i \in RowIds |-> NoRow]
  /\ hook = [h \in Hooks |-> Idle]
  /\ checkout = [q \in Checkouts |-> Checkout("new", 0)]
  /\ acked = {}
  /\ inOrder = TRUE

HookStates == {"idle", "customer", "find", "save", "fetch", "write", "reply"}

TypeOK ==
  /\ StripeTypeOK
  /\ rows \in [RowIds -> Row \cup {NoRow}]
  /\ hook \in [Hooks -> [at : HookStates, n : Nat, found : RowIds \cup {0}]]
  /\ checkout \in [Checkouts ->
       [at : {"new", "customer", "session", "done"}, cust : Customers \cup {0}]]
  /\ acked \subseteq Nat
  /\ inOrder \in BOOLEAN

-------------------------------------------------------------------------------
(* Mutant: a state without a case of its own is stored as it is.           *)
StatusOf_Default(state) ==
  CASE state \in {"active", "trialing"} -> "ACTIVE"
    [] state = "past_due" -> "PAST_DUE"
    [] state \in {"canceled", "incomplete_expired"} -> "CANCELED"
    [] OTHER -> state

(* Mutant: an incomplete subscription counts as a trial.                   *)
StatusOf_Incomplete(state) ==
  CASE state \in {"active", "trialing", "incomplete"} -> "ACTIVE"
    [] state = "past_due" -> "PAST_DUE"
    [] state \in {"canceled", "incomplete_expired"} -> "CANCELED"
    [] OTHER -> "UNPAID"

(* mapStripeStatus                                                         *)
StatusOf(state) ==
  CASE state \in {"active", "trialing"} -> "ACTIVE"
    [] state = "past_due" -> "PAST_DUE"
    [] state \in {"canceled", "incomplete_expired"} -> "CANCELED"
    [] OTHER -> "UNPAID"

(* mapStripePlanToSubscriptionPlan                                         *)
PlanOf(price) ==
  CASE price = "price_starter" -> "STARTER"
    [] price = "price_pro" -> "PRO"
    [] price = "price_enterprise" -> "ENTERPRISE"
    [] OTHER -> "FREE"

(* stripeCustomerId and stripeSubscriptionId are unique: a write that would *)
(* repeat one throws.                                                      *)
Unique(i, c, s) ==
  \A j \in RowIds \ {i} : Exists(j) => rows[j].cust # c /\ rows[j].sub # s

-------------------------------------------------------------------------------
(* POST /billing/checkout.  getOrCreateCustomer takes the customer of a row *)
(* of the user, any of them, and otherwise creates a customer.             *)
FindCustomer(q) ==
  /\ checkout[q].at = "new"
  /\ \/ \E i \in RowIds :
          /\ Exists(i)
          /\ checkout' = [checkout EXCEPT ![q] = Checkout("session", rows[i].cust)]
     \/ /\ \A i \in RowIds : ~Exists(i)
        /\ checkout' = [checkout EXCEPT ![q] = Checkout("customer", 0)]
  /\ UNCHANGED <<rows, hook, acked, inOrder, stripeVars>>

CreateCustomer(q) ==
  /\ checkout[q].at = "customer"
  /\ NewCustomer
  /\ checkout' = [checkout EXCEPT ![q] = Checkout("session", customers')]
  /\ UNCHANGED <<rows, hook, acked, inOrder>>

(* The user goes through with the session, at Stripe.                      *)
CompleteSession(q) ==
  /\ checkout[q].at = "session"
  /\ \E p \in Prices, state \in {"incomplete", "active"} : Subscribe(checkout[q].cust, p, state)
  /\ checkout' = [checkout EXCEPT ![q] = Checkout("done", 0)]
  /\ UNCHANGED <<rows, hook, acked, inOrder>>

-------------------------------------------------------------------------------
Of(h) == events[hook[h].n]
GoTo(h, there) == hook' = [hook EXCEPT ![h] = Hook(there, hook[h].n, 0)]
Stop(h) == hook' = [hook EXCEPT ![h] = Idle]
InHook(h, here) == hook[h].at = here

(* Where the handler of an event awaits first.  An invoice that does not   *)
(* name its subscription is answered at once.                              *)
FirstAwait(kind) ==
  CASE kind = "created" -> {"customer"}
    [] kind = "paid" -> {"fetch", "reply"}
    [] kind = "payment_failed" -> {"write", "reply"}
    [] OTHER -> {"write"}

(* POST /webhooks/stripe with a valid signature.                           *)
Deliver(h, n) ==
  /\ InHook(h, "idle")
  /\ n \in 1 .. Len(events)
  /\ \E at \in FirstAwait(events[n].kind) : hook' = [hook EXCEPT ![h] = Hook(at, n, 0)]
  /\ inOrder' = (inOrder /\ acked = 1 .. (n - 1) /\ \A g \in Hooks : InHook(g, "idle"))
  /\ UNCHANGED <<rows, checkout, acked, stripeVars>>

(* handleSubscriptionCreated: customers.retrieve, then upsertSubscription, *)
(* which looks for a row of the user and updates it or creates one.        *)
RetrieveCustomer(h) ==
  /\ InHook(h, "customer")
  /\ GoTo(h, "find")
  /\ UNCHANGED <<rows, checkout, acked, inOrder, stripeVars>>

FindRow(h) ==
  /\ InHook(h, "find")
  /\ \/ \E i \in RowIds :
          /\ Exists(i)
          /\ hook' = [hook EXCEPT ![h] = Hook("save", hook[h].n, i)]
     \/ /\ \A i \in RowIds : ~Exists(i)
        /\ GoTo(h, "save")
  /\ UNCHANGED <<rows, checkout, acked, inOrder, stripeVars>>

RowOf(e) ==
  [sub |-> e.sub, cust |-> e.of.cust, plan |-> PlanOf(e.of.price),
   status |-> StatusOf(e.of.state), period |-> e.of.period]

(* Mutant: an update keeps the customer of the row.                        *)
SaveRow_KeepCustomer(h) ==
  /\ InHook(h, "save")
  /\ \E i \in RowIds :
       /\ IF hook[h].found # 0 THEN i = hook[h].found
          ELSE ~Exists(i) /\ \A j \in RowIds : j < i => Exists(j)
       /\ Unique(i, Of(h).of.cust, Of(h).sub)
       /\ rows' = [rows EXCEPT ![i] =
                     IF Exists(i) THEN [RowOf(Of(h)) EXCEPT !.cust = rows[i].cust]
                     ELSE RowOf(Of(h))]
  /\ GoTo(h, "reply")
  /\ UNCHANGED <<checkout, acked, inOrder, stripeVars>>

(* Mutant: the columns are not unique in the schema.                       *)
SaveRow_NotUnique(h) ==
  /\ InHook(h, "save")
  /\ \E i \in RowIds :
       /\ IF hook[h].found # 0 THEN i = hook[h].found
          ELSE ~Exists(i) /\ \A j \in RowIds : j < i => Exists(j)
       /\ rows' = [rows EXCEPT ![i] = RowOf(Of(h))]
  /\ GoTo(h, "reply")
  /\ UNCHANGED <<checkout, acked, inOrder, stripeVars>>

SaveRow(h) ==
  /\ InHook(h, "save")
  /\ \E i \in RowIds :
       /\ IF hook[h].found # 0 THEN i = hook[h].found
          ELSE ~Exists(i) /\ \A j \in RowIds : j < i => Exists(j)
       /\ Unique(i, Of(h).of.cust, Of(h).sub)
       /\ rows' = [rows EXCEPT ![i] = RowOf(Of(h))]
  /\ GoTo(h, "reply")
  /\ UNCHANGED <<checkout, acked, inOrder, stripeVars>>

(* handleInvoicePaid: only a subscription Stripe calls active now is set.  *)
FetchSubscription(h) ==
  /\ InHook(h, "fetch")
  /\ GoTo(h, IF sub[Of(h).sub].state = "active" THEN "write" ELSE "reply")
  /\ UNCHANGED <<rows, checkout, acked, inOrder, stripeVars>>

(* Mutant: the end of a subscription leaves its row as it is.              *)
Updated_KeepDeleted(row, e) ==
  CASE e.kind = "updated" ->
         [row EXCEPT !.status = StatusOf(e.of.state), !.period = e.of.period]
    [] e.kind = "paid" -> [row EXCEPT !.status = "ACTIVE"]
    [] e.kind = "payment_failed" -> [row EXCEPT !.status = "PAST_DUE"]
    [] OTHER -> row

(* What the handlers of the other events write.                            *)
Updated(row, e) ==
  CASE e.kind = "updated" ->
         [row EXCEPT !.status = StatusOf(e.of.state), !.period = e.of.period]
    [] e.kind = "deleted" -> [row EXCEPT !.status = "CANCELED"]
    [] e.kind = "paid" -> [row EXCEPT !.status = "ACTIVE"]
    [] e.kind = "payment_failed" -> [row EXCEPT !.status = "PAST_DUE"]
    [] OTHER -> row

(* updateSubscriptionStatus, by stripeSubscriptionId.                      *)
WriteStatus(h) ==
  /\ InHook(h, "write")
  /\ \E i \in RowIds :
       /\ Exists(i)
       /\ rows[i].sub = Of(h).sub
       /\ rows' = [rows EXCEPT ![i] = Updated(@, Of(h))]
  /\ GoTo(h, "reply")
  /\ UNCHANGED <<checkout, acked, inOrder, stripeVars>>

Reply200(h) ==
  /\ InHook(h, "reply")
  /\ acked' = acked \cup {hook[h].n}
  /\ Stop(h)
  /\ UNCHANGED <<rows, checkout, inOrder, stripeVars>>

(* Something threw (no such row, a value that is not unique, a call that   *)
(* failed): 500.  Or the process died.  Stripe will send the event again.  *)
Fail(h) ==
  /\ ~InHook(h, "idle")
  /\ Stop(h)
  /\ UNCHANGED <<rows, checkout, acked, inOrder, stripeVars>>

HookStep(h) ==
  \/ \E n \in 1 .. MaxEvents : Deliver(h, n)
  \/ RetrieveCustomer(h) \/ FindRow(h) \/ SaveRow(h)
  \/ FetchSubscription(h) \/ WriteStatus(h)
  \/ Reply200(h) \/ Fail(h)

Next ==
  \/ StripeNext /\ UNCHANGED apiVars
  \/ \E q \in Checkouts : FindCustomer(q) \/ CreateCustomer(q) \/ CompleteSession(q)
  \/ \E h \in Hooks : HookStep(h)

Spec == Init /\ [][Next]_vars

-------------------------------------------------------------------------------
(* No row says ACTIVE for a subscription that Stripe never called active,  *)
(* however its events are delayed, repeated, reordered and interleaved.    *)
ActiveWasPaid ==
  \A i \in RowIds : Exists(i) /\ rows[i].status = "ACTIVE" => EverActive(rows[i].sub)

OwnerOf == [s \in Subs |-> IF s <= Len(sub) THEN sub[s].cust ELSE 0]
Paid == {s \in Subs : EverActive(s)}
Said == [i \in RowIds |-> [sub |-> rows[i].sub, cust |-> rows[i].cust, status |-> rows[i].status]]

Record == INSTANCE SubscriptionRecord
  WITH Ids <- RowIds, Statuses <- StatusSet, owner <- OwnerOf, paid <- Paid, book <- Said

(* The rows behave as module SubscriptionRecord promises, though every      *)
(* handler writes what it read before its last await                       *)
(* (upsertSubscription, updateSubscriptionStatus).                         *)
RowsKept == Record!Spec

(* A row never pairs a subscription with another customer's id: the portal *)
(* and the next checkout would act for a stranger.                         *)
RowIdentity ==
  \A i \in RowIds : Exists(i) =>
    rows[i].sub \in 1 .. Len(sub) /\ rows[i].cust = sub[rows[i].sub].cust

(* Two rows of the user come from two customers: as long as one customer   *)
(* was created, deliveries of 'created' that both found no row leave one.  *)
OneRowPerCustomer ==
  customers <= 1 => \A i, j \in RowIds : Exists(i) /\ Exists(j) => i = j

(* Every event has been handled.                                           *)
Settled == acked = 1 .. Len(events) /\ \A h \in Hooks : InHook(h, "idle")

(* Events that were handled one by one in the order Stripe sent them leave *)
(* one row, with the state of the newest subscription, however often an    *)
(* event had to be sent.  A first payment that failed is the exception:    *)
(* the row says PAST_DUE of a subscription that is incomplete.  Nothing is  *)
(* said of the plan: 'updated' does not write it, so that it stays the old  *)
(* one after a change of price, although docs/BILLING.md:63 has it synced. *)
MirrorsStripe ==
  inOrder /\ Settled /\ Len(sub) > 0 =>
    \E i \in RowIds :
      LET t == sub[Len(sub)] IN
      /\ \A j \in RowIds : Exists(j) <=> j = i
      /\ rows[i].sub = Len(sub)
      /\ rows[i].period = t.period
      /\ \/ rows[i].status = StatusOf(t.state)
         \/ rows[i].status = "PAST_DUE" /\ t.state = "incomplete"
===============================================================================
