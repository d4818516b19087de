---------------------------- MODULE BillingProofs -----------------------------
(***************************************************************************)
(* What holds of the subscription rows for any number of customers,        *)
(* checkouts, subscriptions, events and deliveries, and that they          *)
(* implement the abstract specification of what a row may say.             *)
(*                                                                         *)
(* Whatever happens to Stripe's events, their log only grows and a         *)
(* subscription never changes hands: what a handler took from an event     *)
(* stays true across its awaits, and so does what was written to a row. In *)
(* order, the rows are what the events answered so far leave.              *)
(***************************************************************************)
EXTENDS Subscriptions, SequenceTheorems, TLAPS

(* What is always true at Stripe.                                          *)
SubsInv ==
  \A s \in 1 .. Len(sub) : sub[s].state # "trialing" /\ sub[s].cust \in 1 .. customers

EventsInv ==
  \A n \in 1 .. Len(events) :
    /\ events[n].sub \in 1 .. Len(sub)
    /\ events[n].of.cust = sub[events[n].sub].cust
    /\ events[n].of.state # "trialing"
    /\ events[n].kind = "paid" => events[n].of.state = "active"

StripeInv == StripeTypeOK /\ SubsInv /\ EventsInv

(* How Stripe's state may change.                                          *)
Grows ==
  /\ customers <= customers'
  /\ Len(sub) <= Len(sub')
  /\ \A s \in 1 .. Len(sub) : sub'[s].cust = sub[s].cust
  /\ Len(events) <= Len(events')
  /\ \A n \in 1 .. Len(events) : events'[n] = events[n]

(* What the API's state must be for the properties to last.                *)
RowsInv ==
  \A i \in RowIds : Exists(i) =>
    /\ rows[i].sub \in 1 .. Len(sub)
    /\ rows[i].cust = sub[rows[i].sub].cust
    /\ rows[i].status = "ACTIVE" => EverActive(rows[i].sub)

OwnCustomer ==
  \A i, j \in RowIds : Exists(i) /\ Exists(j) /\ i # j => rows[i].cust # rows[j].cust

HooksInv == \A h \in Hooks : hook[h].at # "idle" => hook[h].n \in 1 .. Len(events)

CheckoutsInv ==
  \A q \in Checkouts : checkout[q].at = "session" => checkout[q].cust \in 1 .. customers

IInv ==
  TypeOK /\ SubsInv /\ EventsInv /\ RowsInv /\ OwnCustomer /\ HooksInv /\ CheckoutsInv

-------------------------------------------------------------------------------
(* The two mappings stay in their enums, and ACTIVE stands for two states. *)
LEMMA Mappings ==
  /\ \A state : StatusOf(state) \in StatusSet
  /\ \A state : StatusOf(state) = "ACTIVE" => state \in {"active", "trialing"}
  /\ \A price : PlanOf(price) \in PlanSet
BY DEF StatusOf, StatusSet, PlanOf, PlanSet

(* What one change of a subscription appends to the log.                   *)
LEMMA BecomeAppends ==
  ASSUME StripeInv,
         NEW s \in 1 .. Len(sub), NEW t \in Subscription, NEW kinds \in Seq(EventKinds),
         Become(s, t, kinds)
  PROVE  /\ sub' \in Seq(Subscription) /\ Len(sub') = Len(sub) /\ customers' = customers
         /\ sub'[s] = t /\ \A r \in 1 .. Len(sub) : r # s => sub'[r] = sub[r]
         /\ events' \in Seq(Event) /\ Len(events') = Len(events) + Len(kinds)
         /\ \A n \in 1 .. Len(events) : events'[n] = events[n]
         /\ \A n \in Len(events) + 1 .. Len(events') :
              /\ n - Len(events) \in 1 .. Len(kinds)
              /\ events'[n] = [kind |-> kinds[n - Len(events)], sub |-> s, of |-> t]
<1> DEFINE new == [k \in 1 .. Len(kinds) |-> [kind |-> kinds[k], sub |-> s, of |-> t]]
<1>1. /\ sub \in Seq(Subscription) /\ Len(sub) <= MaxSubs /\ events \in Seq(Event)
      /\ customers \in 0 .. MaxCustomers /\ MaxSubs \in Nat
  BY StripeAssumption DEF StripeInv, StripeTypeOK
<1>2. /\ sub' \in Seq(Subscription) /\ Len(sub') = Len(sub) /\ customers' = customers
      /\ sub'[s] = t
      /\ \A r \in 1 .. Len(sub) : r # s => sub'[r] = sub[r]
  BY <1>1 DEF Become
<1>3. s \in Subs
  BY <1>1 DEF Subs
<1>4. \A k \in 1 .. Len(kinds) : kinds[k] \in EventKinds
  OBVIOUS
<1>5. new \in Seq(Event) /\ Len(new) = Len(kinds)
  <2>1. \A k \in 1 .. Len(kinds) : new[k] \in Event
    BY <1>3, <1>4 DEF Event
  <2>2. new \in [1 .. Len(kinds) -> Event] /\ Len(kinds) \in Nat
    BY <2>1
  <2> QED
    BY <2>2
<1>6. events' = events \o new
  BY DEF Become
<1> HIDE DEF new
<1>7. Len(events) \in Nat /\ Len(kinds) \in Nat /\ Len(sub) \in Nat
  BY <1>1
<1>8. /\ events' \in Seq(Event) /\ Len(events') = Len(events) + Len(kinds)
      /\ \A n \in 1 .. Len(events) : events'[n] = events[n]
      /\ \A n \in Len(events) + 1 .. Len(events') : events'[n] = new[n - Len(events)]
  <2>1. Len(events \o new) = Len(events) + Len(new) /\ events \o new \in Seq(Event)
    BY <1>1, <1>5, ConcatProperties
  <2>2. ASSUME NEW n \in 1 .. Len(events) + Len(new)
        PROVE  (events \o new)[n] =
                 IF n <= Len(events) THEN events[n] ELSE new[n - Len(events)]
    BY <1>1, <1>5
  <2> QED
    BY <1>5, <1>6, <1>7, <2>1, <2>2
<1>9. \A n \in Len(events) + 1 .. Len(events') :
        /\ n - Len(events) \in 1 .. Len(kinds)
        /\ events'[n] = [kind |-> kinds[n - Len(events)], sub |-> s, of |-> t]
  <2> SUFFICES ASSUME NEW n \in Len(events) + 1 .. Len(events')
               PROVE  /\ n - Len(events) \in 1 .. Len(kinds)
                      /\ new[n - Len(events)] =
                           [kind |-> kinds[n - Len(events)], sub |-> s, of |-> t]
    BY <1>8
  <2>1. n - Len(events) \in 1 .. Len(kinds)
    BY <1>7, <1>8
  <2> QED
    BY <2>1 DEF new
<1> QED
  BY <1>1, <1>2, <1>8, <1>9

(* One change of a subscription that is logged.                            *)
LEMMA BecomeKeeps ==
  ASSUME StripeInv,
         NEW s \in 1 .. Len(sub), NEW t \in Subscription, NEW kinds \in Seq(EventKinds),
         t.cust = sub[s].cust, t.state # "trialing",
         \A k \in 1 .. Len(kinds) : kinds[k] = "paid" => t.state = "active",
         Become(s, t, kinds)
  PROVE  StripeInv' /\ Grows
<1>1. /\ sub \in Seq(Subscription) /\ Len(sub) <= MaxSubs /\ events \in Seq(Event)
      /\ customers \in 0 .. MaxCustomers /\ MaxSubs \in Nat
  BY StripeAssumption DEF StripeInv, StripeTypeOK
<1>2. /\ sub' \in Seq(Subscription) /\ Len(sub') = Len(sub) /\ customers' = customers
      /\ sub'[s] = t
      /\ \A r \in 1 .. Len(sub) : r # s => sub'[r] = sub[r]
  BY BecomeAppends
<1>3. Len(events) \in Nat /\ Len(kinds) \in Nat /\ Len(sub) \in Nat
  BY <1>1
<1>4. /\ events' \in Seq(Event) /\ Len(events') = Len(events) + Len(kinds)
      /\ \A n \in 1 .. Len(events) : events'[n] = events[n]
  BY BecomeAppends
<1>5. \A n \in Len(events) + 1 .. Len(events') :
        /\ n - Len(events) \in 1 .. Len(kinds)
        /\ events'[n] = [kind |-> kinds[n - Len(events)], sub |-> s, of |-> t]
  BY BecomeAppends
<1>6. StripeTypeOK'
  BY <1>1, <1>2, <1>4 DEF StripeTypeOK
<1>7. SubsInv'
  BY <1>1, <1>2 DEF SubsInv, StripeInv
<1>8. EventsInv'
  <2> SUFFICES ASSUME NEW n \in 1 .. Len(events')
               PROVE  /\ events'[n].sub \in 1 .. Len(sub')
                      /\ events'[n].of.cust = sub'[events'[n].sub].cust
                      /\ events'[n].of.state # "trialing"
                      /\ events'[n].kind = "paid" => events'[n].of.state = "active"
    BY DEF EventsInv
  <2>1. CASE n \in 1 .. Len(events)
    <3>1. /\ events'[n] = events[n]
          /\ events[n].sub \in 1 .. Len(sub)
          /\ events[n].of.cust = sub[events[n].sub].cust
          /\ events[n].of.state # "trialing"
          /\ events[n].kind = "paid" => events[n].of.state = "active"
      BY <2>1, <1>4 DEF StripeInv, EventsInv
    <3>2. sub'[events[n].sub].cust = sub[events[n].sub].cust
      BY <3>1, <1>2
    <3> QED
      BY <3>1, <3>2, <1>2
  <2>2. CASE n \in Len(events) + 1 .. Len(events')
    <3> DEFINE k == n - Len(events)
    <3>1. k \in 1 .. Len(kinds) /\ events'[n] = [kind |-> kinds[k], sub |-> s, of |-> t]
      BY <2>2, <1>5
    <3> HIDE DEF k
    <3>2. /\ events'[n].sub = s /\ events'[n].of = t /\ events'[n].kind = kinds[k]
      BY <3>1
    <3> QED
      BY <3>1, <3>2, <1>2
  <2> QED
    BY <2>1, <2>2, <1>3, <1>4
<1>9. Grows
  <2>1. /\ customers <= customers' /\ Len(sub) <= Len(sub') /\ Len(events) <= Len(events')
    BY <1>1, <1>2, <1>3, <1>4
  <2>2. \A r \in 1 .. Len(sub) : sub'[r].cust = sub[r].cust
    BY <1>2
  <2> QED
    BY <1>4, <2>1, <2>2 DEF Grows
<1> QED
  BY <1>6, <1>7, <1>8, <1>9 DEF StripeInv

(* What Stripe sends on its own: an invoice's event comes with the update  *)
(* it causes, except for a first payment that fails and changes nothing;   *)
(* what is canceled keeps its period.                                      *)
Change(s, t, kinds) ==
  /\ t.cust = sub[s].cust /\ t.state # "trialing"
  /\ \/ kinds = <<"paid", "updated">> /\ t.state = "active"
     \/ kinds = <<"payment_failed", "updated">> /\ t.state = "past_due"
     \/ kinds = <<"payment_failed">> /\ t = sub[s] /\ t.state = "incomplete"
     \/ kinds = <<"updated">>
     \/ kinds = <<"deleted">> /\ t.state = "canceled" /\ t.period = sub[s].period

Changes(s, t, kinds) ==
  /\ s \in 1 .. Len(sub) /\ t \in Subscription /\ kinds \in Seq(EventKinds)
  /\ Become(s, t, kinds) /\ Change(s, t, kinds)

(* Every move of Stripe on its own is such a change.                       *)
LEMMA StripeChanges ==
  ASSUME StripeInv, StripeNext
  PROVE  \E s, t, kinds : Changes(s, t, kinds)
<1> PICK s \in Subs : \/ Pays(s) \/ Renews(s) \/ FirstPaymentFails(s) \/ RenewalFails(s)
                      \/ GivesUp(s) \/ Ends(s)
                      \/ \E p \in Prices : ChangesPrice(s, p)
  BY DEF StripeNext
<1>1. /\ s \in 1 .. Len(sub) /\ sub[s] \in Subscription
      /\ sub[s].state # "trialing" /\ sub[s].period \in Nat
  <2>1. s \in 1 .. Len(sub)
    BY DEF Pays, Renews, FirstPaymentFails, RenewalFails, GivesUp, Ends, ChangesPrice, In
  <2>2. sub[s] \in Subscription /\ sub[s].state # "trialing"
    BY <2>1 DEF StripeInv, StripeTypeOK, SubsInv
  <2> QED
    BY <2>1, <2>2 DEF Subscription
<1>2. /\ <<"paid", "updated">> \in Seq(EventKinds) /\ <<"payment_failed", "updated">> \in Seq(EventKinds)
      /\ <<"payment_failed">> \in Seq(EventKinds) /\ <<"updated">> \in Seq(EventKinds)
      /\ <<"deleted">> \in Seq(EventKinds)
  BY DEF EventKinds
<1> USE DEF Subscription, StripeStates, Changes, Change
<1>3. CASE Pays(s)
  <2> DEFINE t == [sub[s] EXCEPT !.state = "active"]
  <2>1. Become(s, t, <<"paid", "updated">>)
    BY <1>3 DEF Pays
  <2>2. t \in Subscription /\ t.cust = sub[s].cust /\ t.state = "active"
    BY <1>1
  <2> HIDE DEF t
  <2> QED
    BY <2>1, <2>2, <1>1, <1>2
<1>4. CASE Renews(s)
  <2> DEFINE t == [sub[s] EXCEPT !.period = @ + 1]
  <2>1. Become(s, t, <<"paid", "updated">>) /\ sub[s].state = "active"
    BY <1>4 DEF Renews, In
  <2>2. t \in Subscription /\ t.cust = sub[s].cust /\ t.state = "active"
    BY <1>1, <2>1
  <2> HIDE DEF t
  <2> QED
    BY <2>1, <2>2, <1>1, <1>2
<1>5. CASE FirstPaymentFails(s)
  <2>1. Become(s, sub[s], <<"payment_failed">>) /\ sub[s].state = "incomplete"
    BY <1>5 DEF FirstPaymentFails, In
  <2> QED
    BY <2>1, <1>1, <1>2
<1>6. CASE RenewalFails(s)
  <2> DEFINE t == [sub[s] EXCEPT !.state = "past_due", !.period = @ + 1]
  <2>1. Become(s, t, <<"payment_failed", "updated">>)
    BY <1>6 DEF RenewalFails
  <2>2. t \in Subscription /\ t.cust = sub[s].cust /\ t.state = "past_due"
    <3> DEFINE u == [sub[s] EXCEPT !.state = "past_due"]
               next == sub[s].period + 1
    <3>1. u \in Subscription /\ u.cust = sub[s].cust /\ u.state = "past_due" /\ next \in Nat
      BY <1>1
    <3>2. t = [u EXCEPT !.period = next]
      OBVIOUS
    <3> HIDE DEF u, next, t
    <3> QED
      BY <3>1, <3>2
  <2> HIDE DEF t
  <2> QED
    BY <2>1, <2>2, <1>1, <1>2
<1>7. CASE GivesUp(s)
  <2> DEFINE t == [sub[s] EXCEPT !.state =
                     IF @ = "incomplete" THEN "incomplete_expired" ELSE "unpaid"]
  <2>1. Become(s, t, <<"updated">>)
    BY <1>7 DEF GivesUp
  <2>2. t \in Subscription /\ t.cust = sub[s].cust /\ t.state # "trialing"
    BY <1>1
  <2> HIDE DEF t
  <2> QED
    BY <2>1, <2>2, <1>1, <1>2
<1>8. CASE Ends(s)
  <2> DEFINE t == [sub[s] EXCEPT !.state = "canceled"]
  <2>1. Become(s, t, <<"deleted">>)
    BY <1>8 DEF Ends
  <2>2. /\ t \in Subscription /\ t.cust = sub[s].cust /\ t.state = "canceled"
        /\ t.period = sub[s].period
    BY <1>1
  <2> HIDE DEF t
  <2> QED
    BY <2>1, <2>2, <1>1, <1>2
<1>9. CASE \E p \in Prices : ChangesPrice(s, p)
  <2> PICK p \in Prices : ChangesPrice(s, p)
    BY <1>9
  <2> DEFINE t == [sub[s] EXCEPT !.price = p]
  <2>1. Become(s, t, <<"updated">>)
    BY DEF ChangesPrice
  <2>2. t \in Subscription /\ t.cust = sub[s].cust /\ t.state = sub[s].state
    BY <1>1
  <2> HIDE DEF t
  <2> QED
    BY <2>1, <2>2, <1>1, <1>2
<1> QED
  BY <1>3, <1>4, <1>5, <1>6, <1>7, <1>8, <1>9

LEMMA StripeKeeps ==
  ASSUME StripeInv, StripeNext
  PROVE  StripeInv' /\ Grows
<1>1. PICK s, t, kinds : Changes(s, t, kinds)
  BY StripeChanges
<1>2. \A k \in 1 .. Len(kinds) : kinds[k] = "paid" => t.state = "active"
  BY <1>1 DEF Changes, Change
<1> QED
  BY <1>1, <1>2, BecomeKeeps DEF Changes, Change

(* A new customer has a number of its own.                                 *)
LEMMA NewCustomerKeeps ==
  ASSUME StripeInv, NewCustomer
  PROVE  StripeInv' /\ Grows /\ customers' \in 1 .. customers' /\ customers' \in Customers
<1>1. customers \in Nat /\ customers' = customers + 1 /\ customers' \in 0 .. MaxCustomers
  BY StripeAssumption DEF StripeInv, StripeTypeOK, NewCustomer
<1>2. sub' = sub /\ events' = events
  BY DEF NewCustomer
<1>3. Len(sub) \in Nat /\ Len(events) \in Nat
  BY DEF StripeInv, StripeTypeOK
<1> QED
  BY <1>1, <1>2, <1>3, StripeAssumption
     DEF StripeInv, StripeTypeOK, SubsInv, EventsInv, Grows, Customers

(* What a subscription that begins appends to the log.                     *)
Begins(c, state, t) ==
  /\ t.cust = c /\ t.state = state /\ customers' = customers
  /\ sub' \in Seq(Subscription) /\ Len(sub') = Len(sub) + 1 /\ Len(sub) < MaxSubs
  /\ sub'[Len(sub) + 1] = t /\ \A r \in 1 .. Len(sub) : sub'[r] = sub[r]
  /\ events' \in Seq(Event) /\ Len(events') = Len(events) + 1
  /\ events'[Len(events) + 1] = [kind |-> "created", sub |-> Len(sub) + 1, of |-> t]
  /\ \A n \in 1 .. Len(events) : events'[n] = events[n]

LEMMA SubscribeAppends ==
  ASSUME StripeInv, NEW c \in 1 .. customers, NEW p \in Prices,
         NEW state \in {"incomplete", "active"}, Subscribe(c, p, state)
  PROVE  \E t \in Subscription : Begins(c, state, t)
<1> DEFINE t == [state |-> state, cust |-> c, price |-> p, period |-> 1]
           s == Len(sub) + 1
           e == [kind |-> "created", sub |-> s, of |-> t]
<1>1. /\ sub \in Seq(Subscription) /\ events \in Seq(Event)
      /\ customers \in 0 .. MaxCustomers /\ MaxSubs \in Nat /\ MaxCustomers \in Nat
      /\ Len(sub) \in Nat /\ Len(events) \in Nat /\ Len(sub) < MaxSubs
  BY StripeAssumption DEF StripeInv, StripeTypeOK, Subscribe
<1>2. t \in Subscription /\ t.cust = c /\ t.state = state
  BY <1>1 DEF Subscription, StripeStates, Customers
<1>3. e \in Event /\ e.sub = s /\ e.of = t /\ e.kind = "created"
  BY <1>1, <1>2 DEF Event, EventKinds, Subs
<1>4. sub' = Append(sub, t) /\ events' = Append(events, e) /\ customers' = customers
  BY DEF Subscribe
<1>7. e = [kind |-> "created", sub |-> Len(sub) + 1, of |-> t]
  OBVIOUS
<1> HIDE DEF t, e
<1>5. /\ sub' \in Seq(Subscription) /\ Len(sub') = s /\ sub'[s] = t
      /\ \A r \in 1 .. Len(sub) : sub'[r] = sub[r]
  BY <1>1, <1>2, <1>4
<1>6. /\ events' \in Seq(Event) /\ Len(events') = Len(events) + 1
      /\ events'[Len(events) + 1] = e
      /\ \A n \in 1 .. Len(events) : events'[n] = events[n]
  BY <1>1, <1>3, <1>4
<1> QED
  BY <1>1, <1>2, <1>4, <1>5, <1>6, <1>7 DEF Begins

(* A subscription that begins is logged as created, never as paid.         *)
LEMMA SubscribeKeeps ==
  ASSUME StripeInv, NEW c \in 1 .. customers, NEW p \in Prices,
         NEW state \in {"incomplete", "active"}, Subscribe(c, p, state)
  PROVE  StripeInv' /\ Grows
<1>1. /\ sub \in Seq(Subscription) /\ events \in Seq(Event)
      /\ customers \in 0 .. MaxCustomers /\ MaxSubs \in Nat /\ MaxCustomers \in Nat
      /\ Len(sub) \in Nat /\ Len(events) \in Nat
  BY StripeAssumption DEF StripeInv, StripeTypeOK
<1>2. PICK t \in Subscription : Begins(c, state, t)
  BY SubscribeAppends
<1> USE DEF Begins
<1> DEFINE s == Len(sub) + 1
<1>3. StripeTypeOK'
  BY <1>1, <1>2 DEF StripeTypeOK
<1>4. SubsInv'
  <2> SUFFICES ASSUME NEW r \in 1 .. Len(sub')
               PROVE  sub'[r].state # "trialing" /\ sub'[r].cust \in 1 .. customers'
    BY DEF SubsInv
  <2>1. CASE r = s
    BY <2>1, <1>1, <1>2
  <2>2. CASE r \in 1 .. Len(sub)
    BY <2>2, <1>2 DEF StripeInv, SubsInv
  <2> QED
    BY <2>1, <2>2, <1>1, <1>2
<1>5. EventsInv'
  <2> SUFFICES ASSUME NEW n \in 1 .. Len(events')
               PROVE  /\ events'[n].sub \in 1 .. Len(sub')
                      /\ events'[n].of.cust = sub'[events'[n].sub].cust
                      /\ events'[n].of.state # "trialing"
                      /\ events'[n].kind = "paid" => events'[n].of.state = "active"
    BY DEF EventsInv
  <2>1. CASE n = Len(events) + 1
    BY <2>1, <1>1, <1>2
  <2>2. CASE n \in 1 .. Len(events)
    <3>1. /\ events'[n] = events[n]
          /\ events[n].sub \in 1 .. Len(sub)
          /\ events[n].of.cust = sub[events[n].sub].cust
          /\ events[n].of.state # "trialing"
          /\ events[n].kind = "paid" => events[n].of.state = "active"
      BY <2>2, <1>2 DEF StripeInv, EventsInv
    <3>2. sub'[events[n].sub] = sub[events[n].sub] /\ events[n].sub \in 1 .. Len(sub')
      BY <3>1, <1>1, <1>2
    <3> QED
      BY <3>1, <3>2
  <2> QED
    BY <2>1, <2>2, <1>1, <1>2
<1>6. Grows
  BY <1>1, <1>2 DEF Grows
<1> QED
  BY <1>3, <1>4, <1>5, <1>6 DEF StripeInv

-------------------------------------------------------------------------------
(* While Stripe's state grows and no row is written, the rows stay right.  *)
LEMMA RowsStay ==
  ASSUME IInv, StripeInv', Grows, UNCHANGED rows
  PROVE  RowsInv' /\ OwnCustomer'
<1>0. /\ Len(sub) \in Nat /\ Len(sub') \in Nat /\ Len(events) \in Nat /\ Len(events') \in Nat
  BY DEF IInv, TypeOK, StripeInv, StripeTypeOK
<1>1. \A s : EverActive(s) => EverActive(s)'
  <2> SUFFICES ASSUME NEW s, NEW n \in 1 .. Len(events),
                      events[n].sub = s, events[n].of.state = "active"
               PROVE  \E m \in 1 .. Len(events') :
                        events'[m].sub = s /\ events'[m].of.state = "active"
    BY DEF EverActive
  <2> QED
    BY <1>0 DEF Grows
<1>2. RowsInv'
  <2> SUFFICES ASSUME NEW i \in RowIds, Exists(i)
               PROVE  /\ rows[i].sub \in 1 .. Len(sub')
                      /\ rows[i].cust = sub'[rows[i].sub].cust
                      /\ rows[i].status = "ACTIVE" => EverActive(rows[i].sub)'
    BY DEF RowsInv, Exists, EverActive
  <2>1. /\ rows[i].sub \in 1 .. Len(sub) /\ rows[i].cust = sub[rows[i].sub].cust
        /\ rows[i].status = "ACTIVE" => EverActive(rows[i].sub)
    BY DEF IInv, RowsInv
  <2>2. rows[i].sub \in 1 .. Len(sub') /\ sub'[rows[i].sub].cust = sub[rows[i].sub].cust
    BY <1>0, <2>1 DEF Grows
  <2>3. rows[i].status = "ACTIVE" => EverActive(rows[i].sub)'
    BY <1>1, <2>1
  <2> QED
    BY <2>1, <2>2, <2>3
<1>3. OwnCustomer'
  BY DEF IInv, OwnCustomer, Exists
<1> QED
  BY <1>2, <1>3

(* Deliveries and checkouts that wait are not disturbed by Stripe.         *)
LEMMA WaitersStay ==
  ASSUME IInv, StripeInv', Grows, UNCHANGED hook,
         \A q \in Checkouts : checkout'[q].at = "session" =>
                                checkout'[q] = checkout[q] \/ checkout'[q].cust \in 1 .. customers'
  PROVE  HooksInv' /\ CheckoutsInv'
<1>0. /\ Len(events) \in Nat /\ Len(events') \in Nat
      /\ customers \in Nat /\ customers' \in Nat
  BY StripeAssumption DEF IInv, TypeOK, StripeInv, StripeTypeOK
<1>1. HooksInv'
  BY <1>0 DEF IInv, HooksInv, Grows
<1>2. CheckoutsInv'
  BY <1>0 DEF IInv, CheckoutsInv, Grows
<1> QED
  BY <1>1, <1>2

(* Stripe's own moves.                                                     *)
LEMMA StripeStep ==
  ASSUME IInv, StripeNext, UNCHANGED apiVars
  PROVE  IInv'
<1>1. StripeInv' /\ Grows
  BY StripeKeeps DEF IInv, TypeOK, StripeInv
<1>2. RowsInv' /\ OwnCustomer'
  BY <1>1, RowsStay DEF apiVars
<1>3. HooksInv' /\ CheckoutsInv'
  BY <1>1, WaitersStay DEF apiVars
<1>4. TypeOK'
  BY <1>1 DEF IInv, TypeOK, StripeInv, apiVars
<1> QED
  BY <1>1, <1>2, <1>3, <1>4 DEF IInv, StripeInv

(* The steps of a checkout.                                                *)
LEMMA CheckoutStep ==
  ASSUME IInv, NEW q \in Checkouts, FindCustomer(q) \/ CreateCustomer(q) \/ CompleteSession(q)
  PROVE  IInv'
<1>0. /\ StripeInv
      /\ checkout \in [Checkouts -> [at : {"new", "customer", "session", "done"},
                                     cust : Customers \cup {0}]]
      /\ customers \in 0 .. MaxCustomers /\ MaxCustomers \in Nat
  BY StripeAssumption DEF IInv, TypeOK, StripeInv, StripeTypeOK
<1>1. /\ StripeInv' /\ Grows /\ UNCHANGED <<rows, hook, acked, inOrder>>
      /\ \E at \in {"new", "customer", "session", "done"}, c \in Customers \cup {0} :
           /\ checkout' = [checkout EXCEPT ![q] = Checkout(at, c)]
           /\ at = "session" => c \in 1 .. customers'
  <2>1. CASE FindCustomer(q)
    <3>1. UNCHANGED stripeVars
      BY <2>1 DEF FindCustomer
    <3>2. StripeInv' /\ Grows
      BY <1>0, <3>1
         DEF StripeInv, StripeTypeOK, SubsInv, EventsInv, Grows, stripeVars
    <3>3. \A i \in RowIds : Exists(i) => rows[i].cust \in 1 .. customers
      BY DEF IInv, RowsInv, SubsInv
    <3>4. 1 .. customers \subseteq Customers
      BY <1>0 DEF Customers
    <3> QED
      BY <2>1, <3>1, <3>2, <3>3, <3>4 DEF FindCustomer, stripeVars
  <2>2. CASE CreateCustomer(q)
    <3>1. StripeInv' /\ Grows /\ customers' \in 1 .. customers' /\ customers' \in Customers
      BY <2>2, <1>0, NewCustomerKeeps DEF CreateCustomer
    <3> QED
      BY <2>2, <3>1 DEF CreateCustomer
  <2>3. CASE CompleteSession(q)
    <3>1. checkout[q].cust \in 1 .. customers
      BY <2>3 DEF CompleteSession, IInv, CheckoutsInv
    <3>2. StripeInv' /\ Grows
      BY <2>3, <1>0, <3>1, SubscribeKeeps DEF CompleteSession
    <3> QED
      BY <2>3, <3>2 DEF CompleteSession
  <2> QED
    BY <2>1, <2>2, <2>3
<1>2. RowsInv' /\ OwnCustomer'
  BY <1>1, RowsStay
<1>3. checkout' \in [Checkouts -> [at : {"new", "customer", "session", "done"},
                                   cust : Customers \cup {0}]]
  BY <1>0, <1>1 DEF Checkout
<1>4. \A p \in Checkouts : checkout'[p].at = "session" =>
        checkout'[p] = checkout[p] \/ checkout'[p].cust \in 1 .. customers'
  BY <1>0, <1>1 DEF Checkout
<1>5. HooksInv' /\ CheckoutsInv'
  BY <1>1, <1>4, WaitersStay
<1>6. TypeOK'
  BY <1>1, <1>3 DEF IInv, TypeOK, StripeInv
<1> QED
  BY <1>1, <1>2, <1>5, <1>6 DEF IInv, StripeInv

-------------------------------------------------------------------------------
(* A handler that goes on to its next await, or stops, and writes no row.  *)
LEMMA HookMoves ==
  ASSUME IInv, UNCHANGED <<checkout, stripeVars>>, acked' \subseteq Nat, inOrder' \in BOOLEAN,
         NEW h \in Hooks, NEW at \in HookStates, NEW n \in Nat, NEW i \in RowIds \cup {0},
         at # "idle" => n \in 1 .. Len(events),
         hook' = [hook EXCEPT ![h] = Hook(at, n, i)]
  PROVE  /\ StripeInv' /\ HooksInv' /\ CheckoutsInv'
         /\ rows' \in [RowIds -> Row \cup {NoRow}] => TypeOK'
<1>1. UNCHANGED <<customers, sub, events>>
  BY DEF stripeVars
<1>2. StripeInv'
  BY <1>1 DEF IInv, TypeOK, StripeInv, StripeTypeOK, SubsInv, EventsInv
<1>3. hook \in [Hooks -> [at : HookStates, n : Nat, found : RowIds \cup {0}]]
  BY DEF IInv, TypeOK
<1>4. hook' \in [Hooks -> [at : HookStates, n : Nat, found : RowIds \cup {0}]]
  BY <1>3 DEF Hook
<1>5. HooksInv'
  BY <1>1, <1>3 DEF IInv, HooksInv, Hook
<1>6. CheckoutsInv'
  BY <1>1 DEF IInv, CheckoutsInv
<1> QED
  BY <1>2, <1>4, <1>5, <1>6 DEF IInv, TypeOK, StripeInv

(* A row that is written with what an event justifies.                     *)
LEMMA RowWritten ==
  ASSUME IInv, UNCHANGED stripeVars, NEW i \in RowIds, NEW r \in Row,
         rows' = [rows EXCEPT ![i] = r],
         r.sub \in 1 .. Len(sub), r.cust = sub[r.sub].cust,
         r.status = "ACTIVE" => EverActive(r.sub),
         \A j \in RowIds \ {i} : Exists(j) => rows[j].cust # r.cust
  PROVE  rows' \in [RowIds -> Row \cup {NoRow}] /\ RowsInv' /\ OwnCustomer'
<1>1. UNCHANGED <<customers, sub, events>>
  BY DEF stripeVars
<1>2. rows \in [RowIds -> Row \cup {NoRow}]
  BY DEF IInv, TypeOK
<1>3. rows'[i] = r /\ \A j \in RowIds : j # i => rows'[j] = rows[j]
  BY <1>2
<1>4. \A s : EverActive(s)' <=> EverActive(s)
  BY <1>1 DEF EverActive
<1>5. RowsInv'
  <2> SUFFICES ASSUME NEW j \in RowIds, Exists(j)'
               PROVE  /\ rows'[j].sub \in 1 .. Len(sub)
                      /\ rows'[j].cust = sub[rows'[j].sub].cust
                      /\ rows'[j].status = "ACTIVE" => EverActive(rows'[j].sub)
    BY <1>1, <1>4 DEF RowsInv, Exists, EverActive
  <2>1. CASE j = i
    BY <2>1, <1>3
  <2>2. CASE j # i
    <3>1. Exists(j) /\ rows'[j] = rows[j]
      BY <2>2, <1>3 DEF Exists
    <3> QED
      BY <3>1 DEF IInv, RowsInv
  <2> QED
    BY <2>1, <2>2
<1>6. OwnCustomer'
  BY <1>3 DEF IInv, OwnCustomer, Exists
<1> QED
  BY <1>2, <1>5, <1>6

(* The row of a new subscription.                                          *)
LEMMA SaveStep ==
  ASSUME IInv, NEW h \in Hooks, SaveRow(h)
  PROVE  IInv'
<1> DEFINE e == events[hook[h].n]
<1>1. /\ hook[h].n \in 1 .. Len(events) /\ hook[h].n \in Nat
      /\ e \in Event
  BY DEF IInv, TypeOK, StripeTypeOK, HooksInv, SaveRow, InHook
<1>2. /\ e.sub \in 1 .. Len(sub) /\ e.of.cust = sub[e.sub].cust /\ e.of.state # "trialing"
      /\ e.of.state = "active" => EverActive(e.sub)
  BY <1>1 DEF IInv, EventsInv, EverActive
<1>3. PICK i \in RowIds : /\ Unique(i, e.of.cust, e.sub)
                          /\ rows' = [rows EXCEPT ![i] = RowOf(e)]
  BY DEF SaveRow, Of
<1> HIDE DEF e
<1>4. /\ RowOf(e) \in Row
      /\ RowOf(e).sub = e.sub /\ RowOf(e).cust = e.of.cust
      /\ RowOf(e).status = "ACTIVE" => e.of.state = "active"
  BY <1>1, <1>2, Mappings DEF RowOf, Row, Event, Subscription
<1>5. /\ UNCHANGED <<checkout, acked, inOrder, stripeVars>>
      /\ hook' = [hook EXCEPT ![h] = Hook("reply", hook[h].n, 0)]
  BY DEF SaveRow, GoTo
<1>6. rows' \in [RowIds -> Row \cup {NoRow}] /\ RowsInv' /\ OwnCustomer'
  <2> DEFINE r == RowOf(e)
  <2>1. /\ r \in Row /\ rows' = [rows EXCEPT ![i] = r]
        /\ r.sub \in 1 .. Len(sub) /\ r.cust = sub[r.sub].cust
        /\ r.status = "ACTIVE" => EverActive(r.sub)
    BY <1>2, <1>3, <1>4
  <2>2. \A j \in RowIds \ {i} : Exists(j) => rows[j].cust # r.cust
    BY <1>3, <1>4 DEF Unique
  <2>3. UNCHANGED stripeVars
    BY <1>5
  <2> HIDE DEF r
  <2> QED
    BY <2>1, <2>2, <2>3, RowWritten
<1>7. acked' \subseteq Nat /\ inOrder' \in BOOLEAN
  BY <1>5 DEF IInv, TypeOK
<1>8. StripeInv' /\ HooksInv' /\ CheckoutsInv' /\ TypeOK'
  BY <1>1, <1>5, <1>6, <1>7, HookMoves DEF HookStates
<1> QED
  BY <1>6, <1>8 DEF IInv, StripeInv

(* An update keeps what a row is about, and makes it ACTIVE only for an    *)
(* event of a subscription that was.                                       *)
LEMMA WriteStep ==
  ASSUME IInv, NEW h \in Hooks, WriteStatus(h)
  PROVE  IInv'
<1> DEFINE e == events[hook[h].n]
<1>1. /\ hook[h].n \in 1 .. Len(events) /\ hook[h].n \in Nat
      /\ e \in Event
  BY DEF IInv, TypeOK, StripeTypeOK, HooksInv, WriteStatus, InHook
<1>2. /\ e.of.state # "trialing"
      /\ e.kind = "paid" => e.of.state = "active"
      /\ e.of.state = "active" => EverActive(e.sub)
  BY <1>1 DEF IInv, EventsInv, EverActive
<1>3. PICK i \in RowIds : /\ Exists(i) /\ rows[i].sub = e.sub
                          /\ rows' = [rows EXCEPT ![i] = Updated(rows[i], e)]
  BY DEF WriteStatus, Of
<1> HIDE DEF e
<1>4. /\ rows[i] \in Row
      /\ rows[i].sub \in 1 .. Len(sub) /\ rows[i].cust = sub[rows[i].sub].cust
      /\ rows[i].status = "ACTIVE" => EverActive(rows[i].sub)
  BY <1>3 DEF IInv, TypeOK, RowsInv, Exists
<1> DEFINE r == Updated(rows[i], e)
<1>5. /\ r \in Row /\ r.sub = rows[i].sub /\ r.cust = rows[i].cust
      /\ r.status = "ACTIVE" => rows[i].status = "ACTIVE" \/ e.of.state = "active"
  <2>1. CASE e.kind = "updated"
    <3>1. r = [[rows[i] EXCEPT !.status = StatusOf(e.of.state)] EXCEPT !.period = e.of.period]
      BY <2>1 DEF Updated
    <3>2. /\ StatusOf(e.of.state) \in StatusSet /\ e.of.period \in Nat
          /\ StatusOf(e.of.state) = "ACTIVE" => e.of.state = "active"
      <4>1. e.of \in Subscription
        BY <1>1 DEF Event
      <4>2. e.of.period \in Nat
        BY <4>1 DEF Subscription
      <4>3. /\ StatusOf(e.of.state) \in StatusSet
            /\ StatusOf(e.of.state) = "ACTIVE" => e.of.state \in {"active", "trialing"}
        BY Mappings
      <4> QED
        BY <1>2, <4>2, <4>3
    <3> QED
      BY <1>4, <3>1, <3>2 DEF Row
  <2>2. CASE e.kind \in {"deleted", "paid", "payment_failed"}
    <3>1. PICK st \in StatusSet : /\ r = [rows[i] EXCEPT !.status = st]
                                  /\ st = "ACTIVE" => e.kind = "paid"
      BY <2>2 DEF Updated, StatusSet
    <3> HIDE DEF r
    <3>2. r \in Row /\ r.sub = rows[i].sub /\ r.cust = rows[i].cust /\ r.status = st
      BY <1>4, <3>1 DEF Row
    <3> QED
      BY <1>2, <3>1, <3>2
  <2>3. CASE e.kind = "created"
    BY <2>3, <1>4 DEF Updated
  <2> QED
    BY <2>1, <2>2, <2>3, <1>1 DEF Event, EventKinds
<1>6. rows' = [rows EXCEPT ![i] = r]
  BY <1>3
<1> HIDE DEF r
<1>7. \A j \in RowIds \ {i} : Exists(j) => rows[j].cust # r.cust
  BY <1>3, <1>5 DEF IInv, OwnCustomer
<1>8. /\ UNCHANGED <<checkout, acked, inOrder, stripeVars>>
      /\ hook' = [hook EXCEPT ![h] = Hook("reply", hook[h].n, 0)]
  BY DEF WriteStatus, GoTo
<1>9. rows' \in [RowIds -> Row \cup {NoRow}] /\ RowsInv' /\ OwnCustomer'
  <2>1. /\ UNCHANGED stripeVars
        /\ r.sub \in 1 .. Len(sub) /\ r.cust = sub[r.sub].cust
        /\ r.status = "ACTIVE" => EverActive(r.sub)
    BY <1>2, <1>3, <1>4, <1>5, <1>8
  <2> QED
    BY <1>5, <1>6, <1>7, <2>1, RowWritten
<1>10. acked' \subseteq Nat /\ inOrder' \in BOOLEAN
  BY <1>8 DEF IInv, TypeOK
<1>11. StripeInv' /\ HooksInv' /\ CheckoutsInv' /\ TypeOK'
  BY <1>1, <1>8, <1>9, <1>10, HookMoves DEF HookStates
<1> QED
  BY <1>9, <1>11 DEF IInv, StripeInv

(* The steps of a delivery.                                                *)
LEMMA HookSteps ==
  ASSUME IInv, NEW h \in Hooks, HookStep(h)
  PROVE  IInv'
<1>0. /\ hook \in [Hooks -> [at : HookStates, n : Nat, found : RowIds \cup {0}]]
      /\ acked \subseteq Nat /\ inOrder \in BOOLEAN
      /\ InHook(h, "idle") \/ hook[h].n \in 1 .. Len(events)
  BY DEF IInv, TypeOK, HooksInv, InHook
<1>1. CASE SaveRow(h)
  BY <1>1, SaveStep
<1>2. CASE WriteStatus(h)
  BY <1>2, WriteStep
<1>3. CASE ~SaveRow(h) /\ ~WriteStatus(h)
  <2>1. /\ UNCHANGED <<rows, checkout, stripeVars>>
        /\ acked' \subseteq Nat /\ inOrder' \in BOOLEAN
        /\ \E at \in HookStates, n \in Nat, i \in RowIds \cup {0} :
             /\ hook' = [hook EXCEPT ![h] = Hook(at, n, i)]
             /\ at # "idle" => n \in 1 .. Len(events)
    <3> USE <1>0 DEF HookStates
    <3>1. CASE \E n \in 1 .. MaxEvents : Deliver(h, n)
      <4>1. PICK n \in 1 .. MaxEvents : Deliver(h, n)
        BY <3>1
      <4>2. \A kind : FirstAwait(kind) \subseteq HookStates
        BY DEF FirstAwait
      <4>3. n \in 1 .. Len(events) /\ n \in Nat /\ inOrder' \in BOOLEAN
        BY <4>1 DEF Deliver
      <4> HIDE DEF HookStates
      <4> QED
        BY <4>1, <4>2, <4>3 DEF Deliver
    <3>2. CASE RetrieveCustomer(h)
      BY <3>2 DEF RetrieveCustomer, GoTo, InHook
    <3>3. CASE FindRow(h)
      BY <3>3 DEF FindRow, GoTo, InHook
    <3>4. CASE FetchSubscription(h)
      BY <3>4 DEF FetchSubscription, GoTo, InHook
    <3>5. CASE Reply200(h)
      BY <3>5 DEF Reply200, Stop, Idle, InHook
    <3>6. CASE Fail(h)
      BY <3>6 DEF Fail, Stop, Idle
    <3> QED
      BY <1>3, <3>1, <3>2, <3>3, <3>4, <3>5, <3>6 DEF HookStep
  <2>2. StripeInv' /\ HooksInv' /\ CheckoutsInv' /\ TypeOK'
    BY <2>1, HookMoves DEF IInv, TypeOK
  <2>3. RowsInv' /\ OwnCustomer'
    BY <2>1 DEF IInv, RowsInv, OwnCustomer, Exists, EverActive, stripeVars
  <2> QED
    BY <2>2, <2>3 DEF IInv, StripeInv
<1> QED
  BY <1>1, <1>2, <1>3

-------------------------------------------------------------------------------
LEMMA IInvInit ==
  ASSUME Init
  PROVE  IInv
<1>1. TypeOK
  BY StripeAssumption
     DEF Init, TypeOK, StripeInit, StripeTypeOK, Idle, Hook, Checkout, HookStates
<1>2. RowsInv /\ OwnCustomer
  BY DEF Init, RowsInv, OwnCustomer, Exists
<1>3. SubsInv /\ EventsInv /\ HooksInv /\ CheckoutsInv
  BY DEF Init, StripeInit, SubsInv, EventsInv, HooksInv, CheckoutsInv, Idle, Hook, Checkout
<1> QED
  BY <1>1, <1>2, <1>3 DEF IInv

LEMMA IInvStep ==
  ASSUME IInv, [Next]_vars
  PROVE  IInv'
<1>1. CASE StripeNext /\ UNCHANGED apiVars
  BY <1>1, StripeStep
<1>2. CASE \E q \in Checkouts : FindCustomer(q) \/ CreateCustomer(q) \/ CompleteSession(q)
  BY <1>2, CheckoutStep
<1>3. CASE \E h \in Hooks : HookStep(h)
  BY <1>3, HookSteps
<1>4. CASE UNCHANGED vars
  BY <1>4
     DEF vars, apiVars, stripeVars, IInv, TypeOK, StripeTypeOK, SubsInv, EventsInv, RowsInv,
         OwnCustomer, HooksInv, CheckoutsInv, Exists, EverActive
<1> QED
  BY <1>1, <1>2, <1>3, <1>4 DEF Next

(* The inductive invariant: where a row, a delivery and a checkout got      *)
(* their ids from, and what the log has said of them.                      *)
THEOREM IInvHolds == Spec => []IInv
BY IInvInit, IInvStep, PTL DEF Spec

(* Every variable stays in its type; a row never holds a status or a plan   *)
(* that is not in the schema's enums (mapStripeStatus and the plan mapping).*)
THEOREM RowsTyped == Spec => []TypeOK
<1>1. IInv => TypeOK
  BY DEF IInv
<1> QED
  BY <1>1, IInvHolds, PTL

(* However events are delayed, repeated, reordered or interleaved by the    *)
(* webhook handlers, a row is ACTIVE only for a subscription Stripe called  *)
(* active at some time.                                                    *)
THEOREM NothingForFree == Spec => []ActiveWasPaid
<1>1. IInv => ActiveWasPaid
  BY DEF IInv, RowsInv, ActiveWasPaid
<1> QED
  BY <1>1, IInvHolds, PTL

(* upsertSubscription and updateSubscriptionStatus keep each row's          *)
(* subscription with the customer it belongs to, also when two checkouts    *)
(* created two customers for the user.                                     *)
THEOREM NeverMixed == Spec => []RowIdentity
<1>1. IInv => RowIdentity
  BY DEF IInv, RowsInv, RowIdentity
<1> QED
  BY <1>1, IInvHolds, PTL

(* A user for whom only one Stripe customer was created has one row, though *)
(* upsertSubscription looks for the row and creates it in two awaits.      *)
THEOREM NeverDoubled == Spec => []OneRowPerCustomer
<1>1. IInv => OneRowPerCustomer
  <2> SUFFICES ASSUME IInv, customers <= 1,
                      NEW i \in RowIds, NEW j \in RowIds, Exists(i), Exists(j)
               PROVE  i = j
    BY DEF OneRowPerCustomer
  <2>1. customers \in Nat
    BY StripeAssumption DEF IInv, TypeOK, StripeTypeOK
  <2>2. rows[i].cust \in 1 .. customers /\ rows[j].cust \in 1 .. customers
    BY DEF IInv, RowsInv, SubsInv
  <2>3. rows[i].cust = rows[j].cust
    BY <2>1, <2>2
  <2> QED
    BY <2>3 DEF IInv, OwnCustomer
<1> QED
  BY <1>1, IInvHolds, PTL

-------------------------------------------------------------------------------
(***************************************************************************)
(* The rows implement module SubscriptionRecord, for any number of         *)
(* customers, subscriptions, rows and deliveries: of Stripe only the owner *)
(* of a subscription and whether it was ever active are seen, and each     *)
(* step changes one of these, one row, or nothing.                         *)
(***************************************************************************)
Allowed == Record!Next \/ UNCHANGED <<OwnerOf, Paid, Said>>

(* What the mapping makes of a subscription that there is and of a row.    *)
LEMMA OwnerKnown ==
  ASSUME StripeInv, NEW s \in 1 .. Len(sub)
  PROVE  s \in Subs /\ OwnerOf[s] = sub[s].cust /\ OwnerOf[s] # 0
<1>1. Len(sub) \in Nat /\ Len(sub) <= MaxSubs /\ MaxSubs \in Nat /\ customers \in Nat
  BY StripeAssumption DEF StripeInv, StripeTypeOK
<1>2. s \in Subs /\ s <= Len(sub) /\ sub[s].cust \in 1 .. customers
  BY <1>1 DEF StripeInv, SubsInv, Subs
<1> QED
  BY <1>1, <1>2 DEF OwnerOf

LEMMA RowSaid ==
  ASSUME IInv, NEW i \in RowIds
  PROVE  /\ Said[i] = [sub |-> rows[i].sub, cust |-> rows[i].cust, status |-> rows[i].status]
         /\ Exists(i) <=> Said[i] # Record!Blank
<1>1. Said[i] = [sub |-> rows[i].sub, cust |-> rows[i].cust, status |-> rows[i].status]
  BY DEF Said
<1>2. CASE Exists(i)
  <2>1. rows[i] \in Row
    BY <1>2 DEF IInv, TypeOK, Exists
  <2>2. rows[i].sub # 0
    BY <2>1, StripeAssumption DEF Row, Subs
  <2> QED
    BY <1>1, <1>2, <2>2 DEF Record!Blank
<1>3. CASE ~Exists(i)
  BY <1>1, <1>3 DEF Exists, NoRow, Record!Blank
<1> QED
  BY <1>1, <1>2, <1>3

(* A row that is written is the only thing that changes.                   *)
LEMMA RowResaid ==
  ASSUME IInv, UNCHANGED stripeVars, NEW i \in RowIds, NEW r \in Row,
         rows' = [rows EXCEPT ![i] = r]
  PROVE  /\ OwnerOf' = OwnerOf /\ Paid' = Paid
         /\ Said' = [Said EXCEPT ![i] = [sub |-> r.sub, cust |-> r.cust, status |-> r.status]]
<1>1. OwnerOf' = OwnerOf /\ Paid' = Paid
  BY DEF stripeVars, OwnerOf, Paid, EverActive
<1>2. rows \in [RowIds -> Row \cup {NoRow}]
  BY DEF IInv, TypeOK
<1>3. rows'[i] = r /\ \A j \in RowIds : j # i => rows'[j] = rows[j]
  BY <1>2
<1>4. Said' = [Said EXCEPT ![i] = [sub |-> r.sub, cust |-> r.cust, status |-> r.status]]
  BY <1>3 DEF Said
<1> QED
  BY <1>1, <1>4

(* A logged change of a subscription is a payment or not seen at all.      *)
LEMMA ChangeSeen ==
  ASSUME IInv, UNCHANGED rows, NEW s, NEW t, NEW kinds, Changes(s, t, kinds)
  PROVE  Allowed
<1>1. /\ StripeInv /\ s \in 1 .. Len(sub) /\ t \in Subscription /\ kinds \in Seq(EventKinds)
      /\ Become(s, t, kinds) /\ t.cust = sub[s].cust
  BY DEF IInv, TypeOK, StripeInv, Changes, Change
<1>2. /\ Len(sub') = Len(sub) /\ sub'[s] = t
      /\ \A r \in 1 .. Len(sub) : r # s => sub'[r] = sub[r]
      /\ Len(events') = Len(events) + Len(kinds)
      /\ \A n \in 1 .. Len(events) : events'[n] = events[n]
      /\ \A n \in Len(events) + 1 .. Len(events') :
           events'[n] = [kind |-> kinds[n - Len(events)], sub |-> s, of |-> t]
  BY <1>1, BecomeAppends
<1>3. Len(sub) \in Nat /\ Len(events) \in Nat /\ Len(kinds) \in Nat
  BY <1>1 DEF StripeInv, StripeTypeOK
<1>4. OwnerOf' = OwnerOf
  <2>1. \A r \in 1 .. Len(sub) : sub'[r].cust = sub[r].cust
    BY <1>1, <1>2
  <2>2. \A r \in Subs : r <= Len(sub) => r \in 1 .. Len(sub)
    BY <1>3, StripeAssumption DEF Subs
  <2> QED
    BY <1>2, <2>1, <2>2 DEF OwnerOf
<1>5. Said' = Said
  BY DEF Said
<1>6. s \in Subs /\ OwnerOf[s] # 0
  BY <1>1, OwnerKnown
<1>7. \A r : EverActive(r)' => EverActive(r) \/ r = s
  <2> SUFFICES ASSUME NEW r, NEW n \in 1 .. Len(events'),
                      events'[n].sub = r, events'[n].of.state = "active", r # s
               PROVE  EverActive(r)
    BY DEF EverActive
  <2>1. CASE n \in Len(events) + 1 .. Len(events')
    <3>1. events'[n] = [kind |-> kinds[n - Len(events)], sub |-> s, of |-> t]
      BY <1>2, <2>1
    <3>2. events'[n].sub = s
      BY <3>1
    <3> QED
      BY <3>2
  <2>2. CASE n \in 1 .. Len(events)
    <3>1. events'[n] = events[n]
      BY <1>2, <2>2
    <3> QED
      BY <2>2, <3>1 DEF EverActive
  <2> QED
    BY <1>2, <1>3, <2>1, <2>2
<1>8. \A r : EverActive(r) => EverActive(r)'
  <2> SUFFICES ASSUME NEW r, NEW n \in 1 .. Len(events),
                      events[n].sub = r, events[n].of.state = "active"
               PROVE  \E m \in 1 .. Len(events') :
                        events'[m].sub = r /\ events'[m].of.state = "active"
    BY DEF EverActive
  <2> QED
    BY <1>2, <1>3
<1>9. CASE EverActive(s)'
  <2>1. Paid' = Paid \cup {s}
    BY <1>6, <1>7, <1>8, <1>9 DEF Paid
  <2>2. Record!Pay(s)
    BY <1>4, <1>5, <1>6, <2>1 DEF Record!Pay
  <2> QED
    BY <1>6, <2>2 DEF Allowed, Record!Next
<1>10. CASE ~EverActive(s)'
  <2>1. Paid' = Paid
    BY <1>7, <1>8, <1>10 DEF Paid
  <2> QED
    BY <1>4, <1>5, <2>1 DEF Allowed
<1> QED
  BY <1>9, <1>10

(* A subscription that begins is opened for the customer of its session.   *)
LEMMA BeginSeen ==
  ASSUME IInv, UNCHANGED rows, NEW c \in 1 .. customers, NEW p \in Prices,
         NEW state \in {"incomplete", "active"}, Subscribe(c, p, state)
  PROVE  Allowed
<1>1. StripeInv
  BY DEF IInv, TypeOK, StripeInv
<1> PICK s : s = Len(sub) + 1
  OBVIOUS
<1>2. PICK t \in Subscription : Begins(c, state, t)
  BY <1>1, SubscribeAppends
<1>3. /\ t.cust = c /\ Len(sub') = s /\ Len(sub) < MaxSubs
      /\ sub'[s] = t /\ \A r \in 1 .. Len(sub) : sub'[r] = sub[r]
      /\ Len(events') = Len(events) + 1
      /\ events'[Len(events) + 1].sub = s
      /\ \A n \in 1 .. Len(events) : events'[n] = events[n]
  BY <1>2 DEF Begins
<1>4. /\ Len(sub) \in Nat /\ Len(events) \in Nat /\ MaxSubs \in Nat
      /\ customers \in 0 .. MaxCustomers /\ MaxCustomers \in Nat
  BY <1>1, StripeAssumption DEF StripeInv, StripeTypeOK
<1>5. s \in Subs /\ c \in Customers
  BY <1>3, <1>4 DEF Subs, Customers
<1>6. OwnerOf[s] = 0
  BY <1>4, <1>5 DEF OwnerOf
<1>7. OwnerOf' = [OwnerOf EXCEPT ![s] = c]
  <2>1. \A r \in Subs : r <= Len(sub') <=> r = s \/ r \in 1 .. Len(sub)
    BY <1>3, <1>4 DEF Subs
  <2>2. \A r \in Subs : r <= Len(sub) <=> r \in 1 .. Len(sub)
    BY <1>4 DEF Subs
  <2>3. s \notin 1 .. Len(sub)
    BY <1>4
  <2> QED
    BY <1>3, <2>1, <2>2, <2>3 DEF OwnerOf
<1>8. Said' = Said
  BY DEF Said
<1>9. \A r : r # s => (EverActive(r)' <=> EverActive(r))
  <2> SUFFICES ASSUME NEW r, r # s  PROVE EverActive(r)' <=> EverActive(r)
    OBVIOUS
  <2>1. \A n \in 1 .. Len(events') : n \in 1 .. Len(events) \/ n = Len(events) + 1
    BY <1>3, <1>4
  <2>2. \A n \in 1 .. Len(events) : n \in 1 .. Len(events')
    BY <1>3, <1>4
  <2> QED
    BY <1>3, <2>1, <2>2 DEF EverActive
<1>10. s \notin Paid
  BY <1>1, <1>4 DEF Paid, EverActive, StripeInv, EventsInv
<1>11. Paid' \in {Paid, Paid \cup {s}}
  <2>1. CASE EverActive(s)'
    BY <1>5, <1>9, <2>1 DEF Paid
  <2>2. CASE ~EverActive(s)'
    BY <1>9, <1>10, <2>2 DEF Paid
  <2> QED
    BY <2>1, <2>2
<1>12. Record!Open(s, c)
  BY <1>6, <1>7, <1>8, <1>11 DEF Record!Open
<1> QED
  BY <1>5, <1>12 DEF Allowed, Record!Next

(* Where neither Stripe's subscriptions nor a row change, nothing is seen. *)
LEMMA NothingSeen ==
  UNCHANGED <<sub, events, rows>> => Allowed
BY DEF Allowed, OwnerOf, Paid, Said, EverActive

(* A row that is saved adopts the event's subscription.                    *)
LEMMA SaveAdopts ==
  ASSUME IInv, NEW h \in Hooks, SaveRow(h)
  PROVE  Allowed
<1> DEFINE e == events[hook[h].n]
<1>1. hook[h].n \in 1 .. Len(events) /\ e \in Event
  BY DEF IInv, TypeOK, StripeTypeOK, HooksInv, SaveRow, InHook
<1>2. /\ e.sub \in 1 .. Len(sub) /\ e.of.cust = sub[e.sub].cust /\ e.of.state # "trialing"
      /\ e.of.state = "active" => EverActive(e.sub)
  BY <1>1 DEF IInv, EventsInv, EverActive
<1>3. PICK i \in RowIds : /\ Unique(i, e.of.cust, e.sub)
                          /\ rows' = [rows EXCEPT ![i] = RowOf(e)]
  BY DEF SaveRow, Of
<1>4. UNCHANGED stripeVars
  BY DEF SaveRow
<1> HIDE DEF e
<1> DEFINE r == RowOf(e)
<1>5. /\ r \in Row /\ r.sub = e.sub /\ r.cust = e.of.cust /\ r.status \in StatusSet
      /\ r.status = "ACTIVE" => e.of.state = "active"
  BY <1>1, <1>2, Mappings DEF RowOf, Row, Event, Subscription
<1>6. rows' = [rows EXCEPT ![i] = r]
  BY <1>3
<1> HIDE DEF r
<1>7. e.sub \in Subs /\ OwnerOf[e.sub] = r.cust /\ OwnerOf[e.sub] # 0
  BY <1>2, <1>5, OwnerKnown DEF IInv, TypeOK, StripeInv
<1>8. r.status = "ACTIVE" => e.sub \in Paid
  BY <1>2, <1>5, <1>7 DEF Paid
<1>9. ASSUME NEW j \in RowIds \ {i}, Said[j] # Record!Blank
      PROVE  Said[j].cust # OwnerOf[e.sub] /\ Said[j].sub # e.sub
  <2>1. Exists(j) /\ Said[j].cust = rows[j].cust /\ Said[j].sub = rows[j].sub
    <3>1. j \in RowIds
      OBVIOUS
    <3>2. /\ Said[j] = [sub |-> rows[j].sub, cust |-> rows[j].cust, status |-> rows[j].status]
          /\ Exists(j) <=> Said[j] # Record!Blank
      BY <3>1, RowSaid
    <3> QED
      BY <1>9, <3>2
  <2>2. rows[j].cust # e.of.cust /\ rows[j].sub # e.sub
    BY <1>3, <2>1 DEF Unique
  <2> QED
    BY <1>5, <1>7, <2>1, <2>2
<1>10. /\ OwnerOf' = OwnerOf /\ Paid' = Paid
       /\ Said' = [Said EXCEPT ![i] = [sub |-> e.sub, cust |-> OwnerOf[e.sub],
                                       status |-> r.status]]
  BY <1>4, <1>5, <1>6, <1>7, RowResaid
<1>11. Record!Adopt(i, e.sub, r.status)
  BY <1>7, <1>8, <1>9, <1>10 DEF Record!Adopt
<1> QED
  BY <1>5, <1>7, <1>11 DEF Allowed, Record!Next

(* A row that is updated restates its own subscription.                    *)
LEMMA WriteRestates ==
  ASSUME IInv, NEW h \in Hooks, WriteStatus(h)
  PROVE  Allowed
<1> PICK i \in RowIds : Exists(i) /\ rows' = [rows EXCEPT ![i] = Updated(rows[i], Of(h))]
  BY DEF WriteStatus
<1> PICK r : r = Updated(rows[i], Of(h))
  OBVIOUS
<1>1. Exists(i) /\ rows' = [rows EXCEPT ![i] = r]
  OBVIOUS
<1>2. UNCHANGED stripeVars
  BY DEF WriteStatus
<1>3. rows[i] \in Row /\ rows \in [RowIds -> Row \cup {NoRow}]
  BY <1>1 DEF IInv, TypeOK, Exists
<1>4. IInv'
  BY WriteStep
<1>5. r.sub = rows[i].sub /\ r.cust = rows[i].cust
  BY <1>1, <1>3 DEF Updated, Row
<1>6. rows'[i] = r /\ r # NoRow
  <2>1. rows[i].sub # 0
    BY <1>3, StripeAssumption DEF Row, Subs
  <2> QED
    BY <1>1, <1>3, <1>5, <2>1 DEF NoRow
<1>7. r \in Row /\ r.status \in StatusSet
  BY <1>4, <1>6 DEF IInv, TypeOK, Row
<1>8. r.status = "ACTIVE" => rows[i].sub \in Paid
  <2>1. r.status = "ACTIVE" => EverActive(r.sub)'
    BY <1>4, <1>6 DEF IInv, RowsInv, Exists
  <2>2. EverActive(r.sub)' <=> EverActive(r.sub)
    BY <1>2 DEF EverActive, stripeVars
  <2>3. rows[i].sub \in Subs
    BY <1>3 DEF Row
  <2> QED
    BY <1>5, <2>1, <2>2, <2>3 DEF Paid
<1>9. /\ OwnerOf' = OwnerOf /\ Paid' = Paid
      /\ Said' = [Said EXCEPT ![i] = [sub |-> r.sub, cust |-> r.cust, status |-> r.status]]
  BY <1>1, <1>2, <1>7, RowResaid
<1>10. /\ Said[i] = [sub |-> r.sub, cust |-> r.cust, status |-> rows[i].status]
       /\ Said[i] # Record!Blank
  BY <1>1, <1>5, RowSaid
<1>11. Said' = [Said EXCEPT ![i].status = r.status]
  <2>1. [Said[i] EXCEPT !.status = r.status] =
          [sub |-> r.sub, cust |-> r.cust, status |-> r.status]
    BY <1>10
  <2> QED
    BY <1>9, <2>1
<1>12. Record!Restate(i, r.status)
  <2>1. Said[i].sub = rows[i].sub
    BY <1>5, <1>10
  <2> QED
    BY <1>8, <1>9, <1>10, <1>11, <2>1 DEF Record!Restate
<1> QED
  BY <1>7, <1>12 DEF Allowed, Record!Next

LEMMA RecordInit ==
  ASSUME Init
  PROVE  Record!Init
<1>1. OwnerOf = [s \in Subs |-> 0]
  <2>1. Len(sub) = 0
    BY DEF Init, StripeInit
  <2>2. \A s \in Subs : ~(s <= Len(sub))
    BY <2>1, StripeAssumption DEF Subs
  <2> QED
    BY <2>2 DEF OwnerOf
<1>2. Paid = {}
  BY DEF Init, StripeInit, Paid, EverActive
<1>3. Said = [i \in RowIds |-> Record!Blank]
  BY DEF Init, Said, NoRow, Record!Blank
<1> QED
  BY <1>1, <1>2, <1>3 DEF Record!Init

LEMMA RecordStep ==
  ASSUME IInv, [Next]_vars
  PROVE  Allowed
<1>1. CASE StripeNext /\ UNCHANGED apiVars
  <2>1. StripeInv
    BY DEF IInv, TypeOK, StripeInv
  <2>2. PICK s, t, kinds : Changes(s, t, kinds)
    BY <1>1, <2>1, StripeChanges
  <2> QED
    BY <1>1, <2>2, ChangeSeen DEF apiVars
<1>2. ASSUME NEW q \in Checkouts, FindCustomer(q) \/ CreateCustomer(q)
      PROVE  Allowed
  BY <1>2, NothingSeen DEF FindCustomer, CreateCustomer, NewCustomer, stripeVars
<1>3. ASSUME NEW q \in Checkouts, CompleteSession(q)
      PROVE  Allowed
  <2>1. checkout[q].cust \in 1 .. customers
    BY <1>3 DEF CompleteSession, IInv, CheckoutsInv
  <2> QED
    BY <1>3, <2>1, BeginSeen DEF CompleteSession
<1>4. ASSUME NEW h \in Hooks, HookStep(h)
      PROVE  Allowed
  <2>1. CASE SaveRow(h)
    BY <2>1, SaveAdopts
  <2>2. CASE WriteStatus(h)
    BY <2>2, WriteRestates
  <2>3. CASE ~SaveRow(h) /\ ~WriteStatus(h)
    <3>1. UNCHANGED <<sub, events, rows>>
      BY <1>4, <2>3
         DEF HookStep, Deliver, RetrieveCustomer, FindRow, FetchSubscription, Reply200, Fail,
             stripeVars
    <3> QED
      BY <3>1, NothingSeen
  <2> QED
    BY <2>1, <2>2, <2>3
<1>5. CASE UNCHANGED vars
  BY <1>5, NothingSeen DEF vars, apiVars, stripeVars
<1> QED
  BY <1>1, <1>2, <1>3, <1>4, <1>5 DEF Next

(* The rows implement module SubscriptionRecord, though a handler looks for *)
(* a row, or reads a subscription, awaits, and writes then                  *)
(* (upsertSubscription, updateSubscriptionStatus, handleInvoicePaid).       *)
THEOREM RowsImplement == Spec => RowsKept
<1>1. Init => Record!Init
  BY RecordInit
<1>2. IInv /\ [Next]_vars => [Record!Next]_<<OwnerOf, Paid, Said>>
  BY RecordStep DEF Allowed
<1> QED
  BY <1>1, <1>2, IInvHolds, PTL DEF Spec, RowsKept, Record!Spec, Record!recordVars

-------------------------------------------------------------------------------
(* The mirror: what deliveries in order make of the log.                   *)

(* The last event of s among the first m, and the last that created one.   *)
Latest(s, k, m) ==
  k \in 1 .. m /\ events[k].sub = s /\ \A j \in k + 1 .. m : events[j].sub # s
Newest(k, m) ==
  k \in 1 .. m /\ events[k].kind = "created" /\ \A j \in k + 1 .. m : events[j].kind # "created"

(* An event after which no update of the same change is due.               *)
Firm(e) == e.kind \in {"created", "updated", "deleted"} \/ e.of.state = "incomplete"

(* The last event of a subscription carries it as it is; the last that     *)
(* created one is of the newest.  An event that moves no period repeats    *)
(* the one before.                                                         *)
TailInv ==
  \A s \in 1 .. Len(sub) : \E k \in 1 .. Len(events) :
    Latest(s, k, Len(events)) /\ events[k].of = sub[s] /\ Firm(events[k])
NewestInv ==
  Len(sub) > 0 => \E k \in 1 .. Len(events) : Newest(k, Len(events)) /\ events[k].sub = Len(sub)
Follows(n) ==
  /\ events[n].kind = "deleted" => events[n].of.state = "canceled"
  /\ events[n].kind \in {"deleted", "payment_failed"} /\ Firm(events[n]) =>
       \E p \in 1 .. n - 1 :
         /\ Latest(events[n].sub, p, n - 1) /\ Firm(events[p])
         /\ events[p].of.period = events[n].of.period
         /\ events[n].kind = "payment_failed" => events[p].of.state = "incomplete"
LogInv == TailInv /\ NewestInv /\ \A n \in 1 .. Len(events) : Follows(n)

(* The rows are what handling the first m events in their order leaves.    *)
Agrees(r, e) ==
  /\ r.period = e.of.period
  /\ r.status = StatusOf(e.of.state) \/ (r.status = "PAST_DUE" /\ e.of.state = "incomplete")
RowAt(r, m) ==
  /\ \E k \in 1 .. m : Newest(k, m) /\ events[k].sub = r.sub
  /\ \A k \in 1 .. m : Latest(r.sub, k, m) /\ Firm(events[k]) => Agrees(r, events[k])
RowsAt(m) ==
  /\ \A i, j \in RowIds : Exists(i) /\ Exists(j) => i = j
  /\ (\A i \in RowIds : ~Exists(i)) => \A k \in 1 .. m : events[k].kind # "created"
  /\ \A i \in RowIds : Exists(i) => RowAt(rows[i], m)

(* Where a handler stands says what its event is.                          *)
PlaceInv == \A h \in Hooks :
  /\ hook[h].at \in {"customer", "find", "save"} => Of(h).kind = "created"
  /\ hook[h].at = "fetch" => Of(h).kind = "paid"
  /\ hook[h].at = "write" => Of(h).kind # "created"

(* In order, one handler is at the event after the first m, which are      *)
(* answered; the rows are what those leave, or that one too.               *)
Turn(m) ==
  /\ acked = 1 .. m
  /\ \A h \in Hooks : ~InHook(h, "idle") => hook[h].n = m + 1
  /\ RowsAt(m) \/ (m < Len(events) /\ RowsAt(m + 1))
  /\ \A h \in Hooks : InHook(h, "reply") => RowsAt(m + 1)
TurnInv == inOrder =>
  /\ \A g, h \in Hooks : ~InHook(g, "idle") /\ ~InHook(h, "idle") => g = h
  /\ \A h \in Hooks : InHook(h, "save") =>
       IF hook[h].found = 0 THEN \A i \in RowIds : ~Exists(i)
       ELSE hook[h].found \in RowIds /\ Exists(hook[h].found)
  /\ \E m \in 0 .. Len(events) : Turn(m)

MirrorInv == IInv /\ LogInv /\ PlaceInv /\ TurnInv

-------------------------------------------------------------------------------
(* What was logged stays.                                                  *)
Lengths == Len(sub) \in Nat /\ Len(events) \in Nat

LEMMA PrefixStays ==
  ASSUME Lengths, Lengths', Len(events) <= Len(events'),
         \A n \in 1 .. Len(events) : events'[n] = events[n],
         NEW m \in 0 .. Len(events)
  PROVE  /\ \A s, k : Latest(s, k, m)' <=> Latest(s, k, m)
         /\ \A k : Newest(k, m)' <=> Newest(k, m)
         /\ \A n \in 1 .. m : Follows(n)' <=> Follows(n)
<1>1. ASSUME NEW l \in 0 .. Len(events)
      PROVE  \A s, k : Latest(s, k, l)' <=> Latest(s, k, l)
  <2>1. \A k \in 1 .. l : events'[k] = events[k] /\ \A j \in k + 1 .. l : events'[j] = events[j]
    BY DEF Lengths
  <2> QED
    BY <2>1 DEF Latest
<1>2. \A k : Newest(k, m)' <=> Newest(k, m)
  <2>1. \A k \in 1 .. m : events'[k] = events[k] /\ \A j \in k + 1 .. m : events'[j] = events[j]
    BY DEF Lengths
  <2> QED
    BY <2>1 DEF Newest
<1>3. ASSUME NEW n \in 1 .. m  PROVE Follows(n)' <=> Follows(n)
  <2>1. /\ n \in 1 .. Len(events) /\ n - 1 \in 0 .. Len(events)
        /\ \A p \in 1 .. n - 1 : p \in 1 .. Len(events)
    BY DEF Lengths
  <2>2. events'[n] = events[n] /\ \A p \in 1 .. n - 1 : events'[p] = events[p]
    BY <2>1
  <2>3. \A s, k : Latest(s, k, n - 1)' <=> Latest(s, k, n - 1)
    BY <1>1, <2>1
  <2> QED
    BY <2>2, <2>3 DEF Follows, Firm
<1> QED
  BY <1>1, <1>2, <1>3

(* A change of a subscription leaves the log right.                        *)
LEMMA ChangeLogs ==
  ASSUME StripeInv, LogInv, NEW s, NEW t, NEW kinds, Changes(s, t, kinds)
  PROVE  LogInv'
<1>0. PICK l, last : l = Len(events) /\ last = Len(events')
  OBVIOUS
<1>1. /\ l \in Nat /\ Len(sub) \in Nat /\ s \in 1 .. Len(sub)
  BY <1>0 DEF StripeInv, StripeTypeOK, Changes
<1>2. /\ Len(sub') = Len(sub) /\ sub'[s] = t
      /\ \A r \in 1 .. Len(sub) : r # s => sub'[r] = sub[r]
      /\ last = l + Len(kinds)
      /\ \A n \in 1 .. l : events'[n] = events[n]
      /\ \A n \in l + 1 .. last : events'[n] = [kind |-> kinds[n - l], sub |-> s, of |-> t]
  BY <1>0, BecomeAppends DEF Changes
<1>3. /\ \A n \in l + 1 .. last : events'[n].sub = s /\ events'[n].of = t
      /\ last > l /\ last \in Nat
      /\ \A n \in l + 1 .. last : events'[n].kind # "created"
      /\ Firm(events'[last])
      /\ \/ /\ last = l + 2 /\ ~Firm(events'[l + 1]) /\ events'[l + 1].kind # "deleted"
            /\ events'[l + 2].kind = "updated"
         \/ last = l + 1 /\ events'[l + 1].kind = "updated"
         \/ /\ last = l + 1 /\ events'[l + 1].kind = "deleted"
            /\ t.state = "canceled" /\ t.period = sub[s].period
         \/ /\ last = l + 1 /\ events'[l + 1].kind = "payment_failed"
            /\ t = sub[s] /\ t.state = "incomplete"
  <2>1. CASE kinds = <<"paid", "updated">> /\ t.state = "active"
    <3>1. last = l + 2 /\ kinds[1] = "paid" /\ kinds[2] = "updated"
      BY <2>1, <1>2
    <3>2. /\ events'[l + 1] = [kind |-> "paid", sub |-> s, of |-> t]
          /\ events'[l + 2] = [kind |-> "updated", sub |-> s, of |-> t]
          /\ \A n \in l + 1 .. last : n = l + 1 \/ n = l + 2
      BY <1>1, <1>2, <3>1
    <3> QED
      BY <1>1, <2>1, <3>1, <3>2 DEF Firm
  <2>2. CASE kinds = <<"payment_failed", "updated">> /\ t.state = "past_due"
    <3>1. last = l + 2 /\ kinds[1] = "payment_failed" /\ kinds[2] = "updated"
      BY <2>2, <1>2
    <3>2. /\ events'[l + 1] = [kind |-> "payment_failed", sub |-> s, of |-> t]
          /\ events'[l + 2] = [kind |-> "updated", sub |-> s, of |-> t]
          /\ \A n \in l + 1 .. last : n = l + 1 \/ n = l + 2
      BY <1>1, <1>2, <3>1
    <3> QED
      BY <1>1, <2>2, <3>1, <3>2 DEF Firm
  <2>3. CASE Len(kinds) = 1 /\ Change(s, t, kinds)
    <3>1. /\ kinds[1] \in {"payment_failed", "updated", "deleted"}
          /\ kinds[1] = "payment_failed" => t = sub[s] /\ t.state = "incomplete"
          /\ kinds[1] = "deleted" => t.state = "canceled" /\ t.period = sub[s].period
      BY <2>3 DEF Change
    <3>2. last = l + 1
      BY <2>3, <1>2
    <3>3. /\ events'[l + 1] = [kind |-> kinds[1], sub |-> s, of |-> t]
          /\ \A n \in l + 1 .. last : n = l + 1
      BY <1>1, <1>2, <3>2
    <3> QED
      BY <1>1, <3>1, <3>2, <3>3 DEF Firm
  <2>4. Len(<<"payment_failed">>) = 1 /\ Len(<<"updated">>) = 1 /\ Len(<<"deleted">>) = 1
    OBVIOUS
  <2> QED
    BY <2>1, <2>2, <2>3, <2>4 DEF Changes, Change
<1>4. l = Len(events) /\ last = Len(events')
  BY <1>0
<1>5. Lengths /\ Lengths' /\ Len(events) <= Len(events')
  BY <1>1, <1>2, <1>3, <1>4 DEF Lengths
<1>6. PICK k \in 1 .. l : Latest(s, k, l) /\ events[k].of = sub[s] /\ Firm(events[k])
  BY <1>1, <1>4 DEF LogInv, TailInv
<1>7. TailInv'
  <2> SUFFICES ASSUME NEW r \in 1 .. Len(sub)
               PROVE  \E j \in 1 .. last :
                        Latest(r, j, last)' /\ events'[j].of = sub'[r] /\ Firm(events'[j])
    BY <1>2, <1>4 DEF TailInv, Firm
  <2>1. CASE r = s
    BY <2>1, <1>1, <1>2, <1>3, <1>4 DEF Latest
  <2>2. CASE r # s
    <3>1. PICK j \in 1 .. l : Latest(r, j, l) /\ events[j].of = sub[r] /\ Firm(events[j])
      BY <1>4 DEF LogInv, TailInv
    <3>2. j \in 1 .. last /\ events'[j] = events[j] /\ sub'[r] = sub[r]
      BY <2>2, <3>1, <1>1, <1>2, <1>3
    <3>3. \A n \in j + 1 .. last : events'[n].sub # r
      <4> SUFFICES ASSUME NEW n \in j + 1 .. last  PROVE events'[n].sub # r
        OBVIOUS
      <4>1. CASE n <= l
        BY <4>1, <3>1, <1>1, <1>2 DEF Latest
      <4>2. CASE n > l
        BY <4>2, <2>2, <1>1, <1>3
      <4> QED
        BY <4>1, <4>2, <1>1, <1>3
    <3> QED
      BY <3>1, <3>2, <3>3 DEF Latest
  <2> QED
    BY <2>1, <2>2
<1>8. NewestInv'
  <2>1. PICK j \in 1 .. l : Newest(j, l) /\ events[j].sub = Len(sub)
    BY <1>1, <1>4 DEF LogInv, NewestInv
  <2>2. j \in 1 .. last /\ events'[j] = events[j]
    BY <2>1, <1>1, <1>2, <1>3
  <2>3. \A n \in j + 1 .. last : events'[n].kind # "created"
    <3> SUFFICES ASSUME NEW n \in j + 1 .. last  PROVE events'[n].kind # "created"
      OBVIOUS
    <3>1. CASE n <= l
      BY <3>1, <2>1, <1>1, <1>2 DEF Newest
    <3>2. CASE n > l
      BY <3>2, <1>1, <1>3
    <3> QED
      BY <3>1, <3>2, <1>1, <1>3
  <2> QED
    BY <2>1, <2>2, <2>3, <1>2, <1>4 DEF Newest, NewestInv
<1>9. \A n \in 1 .. l : Follows(n)'
  BY <1>1, <1>2, <1>4, <1>5, PrefixStays DEF LogInv
<1>10. Follows(l + 1)'
  <2>1. /\ events'[l + 1].sub = s /\ events'[l + 1].of = t /\ l + 1 - 1 = l
    BY <1>1, <1>3
  <2>2. Latest(s, k, l)' /\ events'[k] = events[k]
    BY <1>1, <1>2, <1>4, <1>5, <1>6, PrefixStays
  <2> QED
    BY <1>1, <1>3, <1>6, <2>1, <2>2 DEF Follows, Firm
<1>11. last = l + 2 => Follows(l + 2)'
  BY <1>1, <1>3 DEF Follows
<1> QED
  BY <1>1, <1>3, <1>4, <1>7, <1>8, <1>9, <1>10, <1>11 DEF LogInv

(* A new subscription does.                                                *)
LEMMA BeginLogs ==
  ASSUME StripeInv, LogInv, NEW c, NEW state, NEW t, Begins(c, state, t)
  PROVE  LogInv'
<1>0. PICK l, s : l = Len(events) /\ s = Len(sub) + 1
  OBVIOUS
<1> DEFINE e == [kind |-> "created", sub |-> s, of |-> t]
<1>1. /\ l \in Nat /\ Len(sub) \in Nat
      /\ \A n \in 1 .. l : events[n].sub \in 1 .. Len(sub)
  BY <1>0 DEF StripeInv, StripeTypeOK, EventsInv
<1>2. /\ Len(sub') = s /\ sub'[s] = t /\ \A r \in 1 .. Len(sub) : sub'[r] = sub[r]
      /\ Len(events') = l + 1 /\ events'[l + 1] = e
      /\ \A n \in 1 .. l : events'[n] = events[n]
  BY <1>0 DEF Begins
<1>3. e.kind = "created" /\ e.sub = s /\ e.of = t
  OBVIOUS
<1> HIDE DEF e
<1>4. l = Len(events) /\ Lengths /\ Lengths' /\ Len(events) <= Len(events')
  BY <1>0, <1>1, <1>2 DEF Lengths
<1>5. TailInv'
  <2> SUFFICES ASSUME NEW r \in 1 .. s
               PROVE  \E j \in 1 .. l + 1 :
                        Latest(r, j, l + 1)' /\ events'[j].of = sub'[r] /\ Firm(events'[j])
    <3>1. Len(sub') = s /\ Len(events') = l + 1
      BY <1>2, <1>4
    <3> QED
      BY <3>1 DEF TailInv, Firm
  <2>1. CASE r = s
    BY <2>1, <1>1, <1>2, <1>3 DEF Latest, Firm
  <2>2. CASE r # s
    <3>0. r \in 1 .. Len(sub)
      BY <2>2, <1>0, <1>1
    <3>1. PICK j \in 1 .. l : Latest(r, j, l) /\ events[j].of = sub[r] /\ Firm(events[j])
      BY <3>0, <1>4 DEF LogInv, TailInv
    <3>2. j \in 1 .. l + 1 /\ events'[j] = events[j] /\ sub'[r] = sub[r]
      BY <3>0, <3>1, <1>1, <1>2
    <3>3. \A n \in j + 1 .. l + 1 : events'[n].sub # r
      <4> SUFFICES ASSUME NEW n \in j + 1 .. l + 1  PROVE events'[n].sub # r
        OBVIOUS
      <4>1. CASE n <= l
        BY <4>1, <3>1, <1>1, <1>2 DEF Latest
      <4>2. CASE n = l + 1
        BY <4>2, <2>2, <1>2, <1>3
      <4> QED
        BY <4>1, <4>2, <1>1
    <3> QED
      BY <3>1, <3>2, <3>3 DEF Latest
  <2> QED
    BY <2>1, <2>2
<1>6. NewestInv'
  BY <1>1, <1>2, <1>3, <1>4 DEF Newest, NewestInv
<1>7. \A n \in 1 .. l : Follows(n)'
  BY <1>1, <1>2, <1>4, PrefixStays DEF LogInv
<1>8. Follows(l + 1)'
  BY <1>2, <1>3 DEF Follows
<1> QED
  BY <1>1, <1>2, <1>5, <1>6, <1>7, <1>8 DEF LogInv

(* So the log is right whatever happens at Stripe.                         *)
LEMMA LogSame ==
  ASSUME LogInv, UNCHANGED <<sub, events>>
  PROVE  LogInv'
BY DEF LogInv, TailInv, NewestInv, Follows, Latest, Newest, Firm

-------------------------------------------------------------------------------
(* Rows and handlers are not disturbed by what Stripe adds.                *)
RowsSame == rows' = rows

LEMMA RowsAtStays ==
  ASSUME Lengths, Lengths', Grows, RowsSame, NEW m \in 0 .. Len(events)
  PROVE  RowsAt(m)' <=> RowsAt(m)
<1>1. \A k \in 1 .. m : events'[k] = events[k]
  BY DEF Lengths, Grows
<1>2. /\ \A s, k : Latest(s, k, m)' <=> Latest(s, k, m)
      /\ \A k : Newest(k, m)' <=> Newest(k, m)
  BY PrefixStays DEF Grows
<1>3. \A r : RowAt(r, m)' <=> RowAt(r, m)
  BY <1>1, <1>2 DEF RowAt
<1> QED
  BY <1>1, <1>3 DEF RowsAt, RowsSame, Exists

LEMMA TurnStays ==
  ASSUME Lengths, Lengths', HooksInv, Grows, RowsSame, UNCHANGED <<hook, acked, inOrder>>,
         PlaceInv, TurnInv
  PROVE  PlaceInv' /\ TurnInv'
<1>1. PlaceInv'
  <2>1. \A h \in Hooks : hook[h].at # "idle" => events'[hook[h].n] = events[hook[h].n]
    BY DEF HooksInv, Grows
  <2> QED
    BY <2>1 DEF PlaceInv, Of
<1>2. TurnInv'
  <2> SUFFICES ASSUME inOrder  PROVE TurnInv'
    BY DEF TurnInv
  <2>1. PICK m \in 0 .. Len(events) : Turn(m)
    BY DEF TurnInv
  <2>2. RowsAt(m)' <=> RowsAt(m)
    BY RowsAtStays
  <2>3. m < Len(events) => (RowsAt(m + 1)' <=> RowsAt(m + 1))
    <3> SUFFICES ASSUME m < Len(events)  PROVE RowsAt(m + 1)' <=> RowsAt(m + 1)
      OBVIOUS
    <3>1. PICK n \in 0 .. Len(events) : n = m + 1
      BY DEF Lengths
    <3>2. RowsAt(n)' <=> RowsAt(n)
      BY RowsAtStays
    <3> QED
      BY <3>1, <3>2
  <2>4. \A h \in Hooks : ~InHook(h, "idle") => m < Len(events)
    BY <2>1 DEF Turn, HooksInv, InHook, Lengths
  <2>5. m \in 0 .. Len(events') /\ (m < Len(events) => m < Len(events'))
    BY DEF Grows, Lengths
  <2>6. Turn(m)'
    BY <2>1, <2>2, <2>3, <2>4, <2>5 DEF Turn, InHook
  <2> QED
    BY <2>5, <2>6 DEF TurnInv, InHook, RowsSame, Exists
<1> QED
  BY <1>1, <1>2

-------------------------------------------------------------------------------
(* How the rows come to be what the next event leaves.                     *)
EventTyped == rows \in [RowIds -> Row \cup {NoRow}] /\ Lengths /\ events \in Seq(Event)

LEMMA RowsExist ==
  /\ NoRow \notin Row
  /\ \A e \in Event : RowOf(e) \in Row
<1>1. \A r \in Row : r.sub \in Subs
  BY DEF Row
<1>2. 0 \notin Subs /\ NoRow.sub = 0
  BY DEF Subs, NoRow
<1>3. ASSUME NEW e \in Event  PROVE RowOf(e) \in Row
  BY Mappings DEF Event, Subscription, RowOf, Row
<1> QED
  BY <1>1, <1>2, <1>3

(* A row that is saved for a subscription that was created.                *)
LEMMA SaveAt ==
  ASSUME EventTyped, UNCHANGED events, NEW m \in Nat, m + 1 \in 1 .. Len(events),
         RowsAt(m) \/ RowsAt(m + 1), events[m + 1].kind = "created",
         NEW i \in RowIds, rows' = [rows EXCEPT ![i] = RowOf(events[m + 1])],
         Exists(i) \/ \A j \in RowIds : ~Exists(j)
  PROVE  RowsAt(m + 1)'
<1>1. PICK e \in Event : e = events[m + 1]
  BY DEF EventTyped
<1>2. PICK r : r = RowOf(e)
  OBVIOUS
<1>3. r # NoRow /\ rows'[i] = r /\ \A j \in RowIds : j # i => rows'[j] = rows[j]
  BY <1>1, <1>2, RowsExist DEF EventTyped
<1>4. \A j \in RowIds : j # i => ~Exists(j)
  BY DEF RowsAt
<1>5. Exists(i)' /\ \A j \in RowIds : Exists(j)' => j = i
  BY <1>3, <1>4 DEF Exists
<1>6. r.sub = e.sub /\ r.period = e.of.period /\ r.status = StatusOf(e.of.state)
  BY <1>2 DEF RowOf
<1>7. Newest(m + 1, m + 1)' /\ \A k : Latest(e.sub, k, m + 1)' => k = m + 1
  BY <1>1 DEF Newest, Latest
<1>8. RowAt(r, m + 1)'
  BY <1>1, <1>6, <1>7 DEF RowAt, Agrees
<1> QED
  BY <1>3, <1>5, <1>8 DEF RowsAt

(* What is known of the one row carries over an event, if the row agrees   *)
(* with that event where it is about the row's subscription.               *)
LEMMA RowCarries ==
  ASSUME EventTyped, UNCHANGED events, NEW m \in Nat, m + 1 \in 1 .. Len(events),
         events[m + 1].kind # "created", NEW r, NEW q, q.sub = r.sub, RowAt(r, m),
         events[m + 1].sub # r.sub => q = r,
         events[m + 1].sub = r.sub /\ Firm(events[m + 1]) => Agrees(q, events[m + 1])
  PROVE  RowAt(q, m + 1)
<1>1. PICK k \in 1 .. m : Newest(k, m) /\ events[k].sub = r.sub
  BY DEF RowAt
<1>2. Newest(k, m + 1) /\ k \in 1 .. m + 1
  <2>1. \A j \in k + 1 .. m + 1 : j \in k + 1 .. m \/ j = m + 1
    OBVIOUS
  <2> QED
    BY <1>1, <2>1 DEF Newest
<1>3. ASSUME NEW n \in 1 .. m + 1, Latest(q.sub, n, m + 1), Firm(events[n])
      PROVE  Agrees(q, events[n])
  <2>1. CASE n = m + 1
    BY <2>1, <1>3 DEF Latest
  <2>2. CASE n # m + 1
    <3>1. n \in 1 .. m /\ Latest(r.sub, n, m)
      BY <2>2, <1>3 DEF Latest
    <3>2. events[m + 1].sub # r.sub
      BY <2>2, <1>3 DEF Latest
    <3> QED
      BY <1>3, <3>1, <3>2 DEF RowAt
  <2> QED
    BY <2>1, <2>2
<1> QED
  BY <1>1, <1>2, <1>3 DEF RowAt

(* What an event that moves no period repeats, the row had already.        *)
LEMMA RowRepeats ==
  ASSUME LogInv, NEW m \in Nat, m + 1 \in 1 .. Len(events), NEW r, RowAt(r, m),
         events[m + 1].sub = r.sub, Firm(events[m + 1]),
         events[m + 1].kind \in {"deleted", "payment_failed"}
  PROVE  /\ r.period = events[m + 1].of.period
         /\ events[m + 1].kind = "payment_failed" =>
              r.status \in {StatusOf("incomplete"), "PAST_DUE"}
<1>1. Follows(m + 1) /\ m + 1 - 1 = m
  BY DEF LogInv
<1>2. PICK p \in 1 .. m :
        /\ Latest(r.sub, p, m) /\ Firm(events[p])
        /\ events[p].of.period = events[m + 1].of.period
        /\ events[m + 1].kind = "payment_failed" => events[p].of.state = "incomplete"
  BY <1>1 DEF Follows
<1>3. Agrees(r, events[p])
  BY <1>2 DEF RowAt
<1> QED
  BY <1>2, <1>3 DEF Agrees

(* A row that is updated.                                                  *)
LEMMA WriteAt ==
  ASSUME EventTyped, LogInv, EventsInv, UNCHANGED events,
         NEW m \in Nat, m + 1 \in 1 .. Len(events),
         RowsAt(m) \/ RowsAt(m + 1), events[m + 1].kind # "created",
         NEW i \in RowIds, Exists(i), rows[i].sub = events[m + 1].sub,
         rows' = [rows EXCEPT ![i] = Updated(rows[i], events[m + 1])]
  PROVE  RowsAt(m + 1)'
<1>1. PICK e \in Event : e = events[m + 1]
  BY DEF EventTyped
<1>2. PICK r \in Row : r = rows[i]
  BY DEF EventTyped, Exists
<1>3. PICK q : q = Updated(r, e)
  OBVIOUS
<1>4. rows'[i] = q /\ \A j \in RowIds : j # i => rows'[j] = rows[j]
  BY <1>1, <1>2, <1>3 DEF EventTyped
<1>5. /\ e.kind \in EventKinds /\ e.kind # "created" /\ (e.kind = "paid" => e.of.state = "active")
      /\ Follows(m + 1)
  BY <1>1 DEF EventsInv, Event, LogInv
<1>6. /\ q.sub = r.sub
      /\ e.kind = "updated" => q.status = StatusOf(e.of.state) /\ q.period = e.of.period
      /\ e.kind = "deleted" => q.status = "CANCELED" /\ q.period = r.period
      /\ e.kind = "payment_failed" => q.status = "PAST_DUE" /\ q.period = r.period
  <2>1. CASE e.kind = "updated"
    <3>1. q = [[r EXCEPT !.status = StatusOf(e.of.state)] EXCEPT !.period = e.of.period]
      BY <1>3, <2>1 DEF Updated
    <3> QED
      BY <3>1, <2>1 DEF Row
  <2>2. CASE e.kind # "updated"
    BY <1>3, <1>5, <2>2 DEF Updated, Row, EventKinds
  <2> QED
    BY <2>1, <2>2
<1>7. r.sub = e.sub /\ (RowAt(r, m) \/ RowAt(r, m + 1))
  BY <1>1, <1>2 DEF RowsAt
<1>8. Firm(e) => Agrees(q, e)
  <2> SUFFICES ASSUME Firm(e), e.kind # "updated"  PROVE Agrees(q, e)
    BY <1>6 DEF Agrees
  <2>1. e.kind = "deleted" \/ (e.kind = "payment_failed" /\ e.of.state = "incomplete")
    BY <1>5 DEF Firm, EventKinds
  <2>2. r.period = e.of.period
    <3>1. CASE RowAt(r, m)
      BY <3>1, <2>1, <1>1, <1>7, RowRepeats
    <3>2. CASE RowAt(r, m + 1)
      <4>1. Latest(r.sub, m + 1, m + 1)
        BY <1>1, <1>7 DEF Latest
      <4> QED
        BY <3>2, <4>1, <1>1 DEF RowAt, Agrees
    <3> QED
      BY <3>1, <3>2, <1>7
  <2>3. e.kind = "deleted" => StatusOf(e.of.state) = "CANCELED"
    BY <1>1, <1>5 DEF Follows, StatusOf
  <2> QED
    BY <2>1, <2>2, <2>3, <1>6 DEF Agrees
<1>9. RowAt(q, m + 1)
  <2>1. CASE RowAt(r, m)
    BY <2>1, <1>1, <1>5, <1>6, <1>7, <1>8, RowCarries
  <2>2. CASE RowAt(r, m + 1)
    <3>1. \A k \in 1 .. m + 1 : Latest(q.sub, k, m + 1) => k = m + 1
      BY <1>1, <1>6, <1>7 DEF Latest
    <3> QED
      BY <2>2, <3>1, <1>1, <1>6, <1>8 DEF RowAt
  <2> QED
    BY <2>1, <2>2, <1>7
<1>10. RowAt(q, m + 1)'
  BY <1>9 DEF RowAt, Newest, Latest
<1>11. q # NoRow /\ \A j \in RowIds : j # i => ~Exists(j)
  <2>1. q.sub \in Subs
    BY <1>2, <1>6 DEF Row
  <2> QED
    BY <2>1 DEF RowsAt, NoRow, Subs
<1>12. Exists(i)' /\ \A j \in RowIds : Exists(j)' => j = i
  BY <1>4, <1>11 DEF Exists
<1> QED
  BY <1>4, <1>10, <1>12 DEF RowsAt

(* An invoice's event that is answered without a write.                    *)
LEMMA SkipAt ==
  ASSUME EventTyped, LogInv, EventsInv, UNCHANGED <<events, rows>>,
         NEW m \in Nat, m + 1 \in 1 .. Len(events),
         RowsAt(m) \/ RowsAt(m + 1), events[m + 1].kind \in {"paid", "payment_failed"}
  PROVE  RowsAt(m + 1)'
<1>1. RowsAt(m + 1)' <=> RowsAt(m + 1)
  BY DEF RowsAt, RowAt, Newest, Latest, Exists
<1>2. SUFFICES ASSUME RowsAt(m)  PROVE RowsAt(m + 1)
  BY <1>1
<1>3. ASSUME NEW i \in RowIds, Exists(i)  PROVE RowAt(rows[i], m + 1)
  <2>1. PICK r : r = rows[i]
    OBVIOUS
  <2>2. RowAt(r, m)
    BY <1>2, <1>3, <2>1 DEF RowsAt
  <2>3. ASSUME events[m + 1].sub = r.sub, Firm(events[m + 1])  PROVE Agrees(r, events[m + 1])
    <3>1. /\ events[m + 1].kind = "payment_failed" /\ events[m + 1].of.state = "incomplete"
      BY <2>3 DEF Firm, EventsInv
    <3> QED
      BY <2>2, <2>3, <3>1, RowRepeats DEF Agrees
  <2>4. RowAt(r, m + 1)
    BY <2>2, <2>3, RowCarries
  <2> QED
    BY <2>1, <2>4
<1>4. (\A i \in RowIds : ~Exists(i)) => \A k \in 1 .. m + 1 : events[k].kind # "created"
  <2>1. \A k \in 1 .. m + 1 : k \in 1 .. m \/ k = m + 1
    OBVIOUS
  <2> QED
    BY <1>2, <2>1 DEF RowsAt
<1> QED
  BY <1>2, <1>3, <1>4 DEF RowsAt

-------------------------------------------------------------------------------
(* The steps of a delivery in order.                                       *)
HookTyped == hook \in [Hooks -> [at : HookStates, n : Nat, found : RowIds \cup {0}]]

LEMMA OneTurn ==
  ASSUME MirrorInv, inOrder, NEW h \in Hooks, ~InHook(h, "idle")
  PROVE  \E m \in Nat :
           /\ m + 1 \in 1 .. Len(events) /\ acked = 1 .. m /\ hook[h].n = m + 1
           /\ \A g \in Hooks \ {h} : InHook(g, "idle")
           /\ RowsAt(m) \/ RowsAt(m + 1)
           /\ InHook(h, "reply") => RowsAt(m + 1)
<1>1. PICK m \in 0 .. Len(events) : Turn(m)
  BY DEF MirrorInv, TurnInv
<1>2. m \in Nat /\ hook[h].n \in 1 .. Len(events)
  BY DEF MirrorInv, IInv, TypeOK, StripeTypeOK, HooksInv, InHook
<1> QED
  BY <1>1, <1>2 DEF MirrorInv, TurnInv, Turn

LEMMA TurnGoesOn ==
  ASSUME HookTyped, Lengths, UNCHANGED <<events, acked>>, NEW h \in Hooks, NEW m \in Nat,
         m + 1 \in 1 .. Len(events), acked = 1 .. m,
         \A g \in Hooks \ {h} : InHook(g, "idle"),
         NEW at, NEW found \in RowIds \cup {0}, NEW n, at # "idle" => n = m + 1,
         hook' = [hook EXCEPT ![h] = Hook(at, n, found)],
         RowsAt(m)' \/ RowsAt(m + 1)', at = "reply" => RowsAt(m + 1)',
         at = "save" => IF found = 0 THEN \A i \in RowIds : rows'[i] = NoRow
                        ELSE rows'[found] # NoRow
  PROVE  TurnInv'
<1>1. /\ hook'[h].at = at /\ hook'[h].n = n /\ hook'[h].found = found
      /\ \A g \in Hooks \ {h} : hook'[g] = hook[g] /\ hook'[g].at = "idle"
  BY DEF HookTyped, Hook, InHook
<1>2. /\ \A g, k \in Hooks : ~InHook(g, "idle")' /\ ~InHook(k, "idle")' => g = k
      /\ \A g \in Hooks : ~InHook(g, "idle")' => g = h
      /\ \A g \in Hooks : InHook(g, "save")' \/ InHook(g, "reply")' => g = h
  BY <1>1 DEF InHook
<1>3. m \in 0 .. Len(events') /\ m < Len(events')
  BY DEF Lengths
<1>4. Turn(m)'
  BY <1>1, <1>2, <1>3 DEF Turn, InHook
<1>5. \A g \in Hooks : InHook(g, "save")' =>
        IF hook'[g].found = 0 THEN \A i \in RowIds : rows'[i] = NoRow
        ELSE hook'[g].found \in RowIds /\ rows'[hook'[g].found] # NoRow
  BY <1>1, <1>2 DEF InHook
<1> QED
  BY <1>2, <1>3, <1>4, <1>5 DEF TurnInv, Exists

LEMMA PlacesKept ==
  ASSUME HookTyped, PlaceInv, UNCHANGED events, NEW h \in Hooks, NEW at, NEW n, NEW found,
         hook' = [hook EXCEPT ![h] = Hook(at, n, found)],
         at \in {"customer", "find", "save"} => events[n].kind = "created",
         at = "fetch" => events[n].kind = "paid",
         at = "write" => events[n].kind # "created"
  PROVE  PlaceInv'
<1>1. hook'[h] = Hook(at, n, found) /\ \A g \in Hooks \ {h} : hook'[g] = hook[g]
  BY DEF HookTyped
<1> QED
  BY <1>1 DEF PlaceInv, Of, Hook

-------------------------------------------------------------------------------
(* What happens at Stripe, and what a checkout does.                       *)
LEMMA MirrorWhileStripe ==
  ASSUME MirrorInv, IInv', LogInv', Grows, UNCHANGED <<rows, hook, acked, inOrder>>
  PROVE  MirrorInv'
<1>1. Lengths /\ Lengths' /\ HooksInv /\ PlaceInv /\ TurnInv
  BY DEF MirrorInv, IInv, TypeOK, StripeTypeOK, Lengths
<1>2. PlaceInv' /\ TurnInv'
  BY <1>1, TurnStays DEF RowsSame
<1> QED
  BY <1>2 DEF MirrorInv

LEMMA MirrorStripeStep ==
  ASSUME MirrorInv, StripeNext, UNCHANGED apiVars
  PROVE  MirrorInv'
<1>1. StripeInv /\ LogInv /\ IInv
  BY DEF MirrorInv, IInv, TypeOK, StripeInv
<1>2. IInv' /\ Grows
  BY <1>1, StripeStep, StripeKeeps
<1>3. LogInv'
  BY <1>1, StripeChanges, ChangeLogs
<1> QED
  BY <1>2, <1>3, MirrorWhileStripe DEF apiVars

LEMMA MirrorCheckoutStep ==
  ASSUME MirrorInv, NEW q \in Checkouts,
         FindCustomer(q) \/ CreateCustomer(q) \/ CompleteSession(q)
  PROVE  MirrorInv'
<1>1. StripeInv /\ LogInv /\ IInv /\ IInv'
  BY CheckoutStep DEF MirrorInv, IInv, TypeOK, StripeInv
<1>2. UNCHANGED <<rows, hook, acked, inOrder>>
  BY DEF FindCustomer, CreateCustomer, CompleteSession
<1>3. Grows /\ LogInv'
  <2>1. CASE FindCustomer(q)
    <3>1. UNCHANGED <<customers, sub, events>>
      BY <2>1 DEF FindCustomer, stripeVars
    <3>2. Grows
      BY <3>1, <1>1 DEF Grows, StripeInv, StripeTypeOK
    <3> QED
      BY <3>1, <3>2, <1>1, LogSame
  <2>2. CASE CreateCustomer(q)
    <3>1. Grows /\ sub' = sub /\ events' = events
      BY <2>2, <1>1, NewCustomerKeeps DEF CreateCustomer, NewCustomer
    <3>2. LogInv'
      BY <3>1, <1>1, LogSame
    <3> QED
      BY <3>1, <3>2
  <2>3. CASE CompleteSession(q)
    <3>1. checkout[q].cust \in 1 .. customers
      BY <2>3, <1>1 DEF CompleteSession, IInv, CheckoutsInv
    <3>2. PICK p \in Prices, state \in {"incomplete", "active"} :
            Subscribe(checkout[q].cust, p, state)
      BY <2>3 DEF CompleteSession
    <3>3. Grows
      BY <1>1, <3>1, <3>2, SubscribeKeeps
    <3>4. \E t \in Subscription : Begins(checkout[q].cust, state, t)
      BY <1>1, <3>1, <3>2, SubscribeAppends
    <3> QED
      BY <1>1, <3>3, <3>4, BeginLogs
  <2> QED
    BY <2>1, <2>2, <2>3
<1> QED
  BY <1>1, <1>2, <1>3, MirrorWhileStripe

-------------------------------------------------------------------------------
(* What a handler does.                                                    *)
Quiet == IInv' /\ UNCHANGED stripeVars

LEMMA MirrorQuiet ==
  ASSUME MirrorInv, Quiet
  PROVE  /\ LogInv' /\ HookTyped /\ EventTyped /\ Lengths /\ UNCHANGED events
         /\ EventsInv /\ LogInv /\ PlaceInv /\ TurnInv
         /\ UNCHANGED rows => \A l : RowsAt(l)' <=> RowsAt(l)
<1>1. LogInv'
  BY LogSame DEF MirrorInv, Quiet, stripeVars
<1>2. UNCHANGED events
  BY DEF Quiet, stripeVars
<1>3. UNCHANGED rows => \A l : RowsAt(l)' <=> RowsAt(l)
  BY <1>2 DEF RowsAt, RowAt, Newest, Latest, Exists
<1> QED
  BY <1>1, <1>2, <1>3 DEF MirrorInv, IInv, TypeOK, StripeTypeOK, HookTyped, EventTyped, Lengths

(* In order, the rows stay what they must be for a handler that goes on.   *)
Keeps(h, at) ==
  \A m \in Nat :
    (/\ inOrder /\ m + 1 \in 1 .. Len(events) /\ hook[h].n = m + 1
     /\ RowsAt(m) \/ RowsAt(m + 1)
     /\ InHook(h, "reply") => RowsAt(m + 1))
    => /\ RowsAt(m)' \/ RowsAt(m + 1)'
       /\ at = "reply" => RowsAt(m + 1)'

(* A handler that goes on, or stops, before its event is answered.         *)
LEMMA MirrorMoves ==
  ASSUME MirrorInv, Quiet, UNCHANGED <<acked, inOrder>>,
         NEW h \in Hooks, ~InHook(h, "idle"),
         NEW at, NEW n, NEW found \in RowIds \cup {0}, at # "idle" => n = hook[h].n,
         hook' = [hook EXCEPT ![h] = Hook(at, n, found)],
         at \in {"customer", "find", "save"} => events[n].kind = "created",
         at = "fetch" => events[n].kind = "paid",
         at = "write" => events[n].kind # "created",
         inOrder /\ at = "save" => IF found = 0 THEN \A i \in RowIds : rows'[i] = NoRow
                                   ELSE rows'[found] # NoRow,
         Keeps(h, at)
  PROVE  MirrorInv'
<1>1. LogInv' /\ HookTyped /\ Lengths /\ PlaceInv /\ UNCHANGED events
  BY MirrorQuiet
<1>2. PlaceInv'
  BY <1>1, PlacesKept
<1>3. TurnInv'
  <2> SUFFICES ASSUME inOrder  PROVE TurnInv'
    BY DEF TurnInv
  <2>1. PICK m \in Nat :
          /\ m + 1 \in 1 .. Len(events) /\ acked = 1 .. m /\ hook[h].n = m + 1
          /\ \A g \in Hooks \ {h} : InHook(g, "idle")
          /\ RowsAt(m) \/ RowsAt(m + 1)
          /\ InHook(h, "reply") => RowsAt(m + 1)
    BY OneTurn
  <2>2. (RowsAt(m)' \/ RowsAt(m + 1)') /\ (at = "reply" => RowsAt(m + 1)')
    BY <2>1 DEF Keeps
  <2>3. at # "idle" => n = m + 1
    BY <2>1
  <2> QED
    BY <1>1, <2>1, <2>2, <2>3, TurnGoesOn
<1> QED
  BY <1>1, <1>2, <1>3 DEF MirrorInv, Quiet

LEMMA MirrorSaveRow ==
  ASSUME MirrorInv, Quiet, NEW h \in Hooks, SaveRow(h)
  PROVE  MirrorInv'
<1>0. EventTyped /\ UNCHANGED events /\ PlaceInv /\ TurnInv
  BY MirrorQuiet
<1>1. PICK i \in RowIds :
        /\ IF hook[h].found # 0 THEN i = hook[h].found ELSE ~Exists(i)
        /\ rows' = [rows EXCEPT ![i] = RowOf(events[hook[h].n])]
  BY DEF SaveRow, Of
<1>2. /\ InHook(h, "save") /\ ~InHook(h, "idle") /\ UNCHANGED <<acked, inOrder>>
      /\ hook' = [hook EXCEPT ![h] = Hook("reply", hook[h].n, 0)]
  BY DEF SaveRow, GoTo, InHook
<1>3. events[hook[h].n].kind = "created"
  BY <1>0, <1>2 DEF PlaceInv, InHook, Of
<1>4. ASSUME NEW m \in Nat, inOrder, m + 1 \in 1 .. Len(events), hook[h].n = m + 1,
             RowsAt(m) \/ RowsAt(m + 1)
      PROVE  RowsAt(m + 1)'
  <2>1. Exists(i) \/ \A j \in RowIds : ~Exists(j)
    BY <1>0, <1>1, <1>2, <1>4 DEF TurnInv
  <2>2. events[m + 1].kind = "created" /\ rows' = [rows EXCEPT ![i] = RowOf(events[m + 1])]
    BY <1>1, <1>3, <1>4
  <2> QED
    BY <1>0, <1>4, <2>1, <2>2, SaveAt
<1>5. Keeps(h, "reply")
  BY <1>4 DEF Keeps
<1> QED
  BY <1>2, <1>5, MirrorMoves

LEMMA MirrorWriteStatus ==
  ASSUME MirrorInv, Quiet, NEW h \in Hooks, WriteStatus(h)
  PROVE  MirrorInv'
<1>0. EventTyped /\ UNCHANGED events /\ PlaceInv /\ LogInv /\ EventsInv
  BY MirrorQuiet
<1>1. PICK i \in RowIds :
        /\ Exists(i) /\ rows[i].sub = events[hook[h].n].sub
        /\ rows' = [rows EXCEPT ![i] = Updated(rows[i], events[hook[h].n])]
  BY DEF WriteStatus, Of
<1>2. /\ InHook(h, "write") /\ ~InHook(h, "idle") /\ UNCHANGED <<acked, inOrder>>
      /\ hook' = [hook EXCEPT ![h] = Hook("reply", hook[h].n, 0)]
  BY DEF WriteStatus, GoTo, InHook
<1>3. events[hook[h].n].kind # "created"
  BY <1>0, <1>2 DEF PlaceInv, InHook, Of
<1>4. ASSUME NEW m \in Nat, inOrder, m + 1 \in 1 .. Len(events), hook[h].n = m + 1,
             RowsAt(m) \/ RowsAt(m + 1)
      PROVE  RowsAt(m + 1)'
  <2>1. /\ events[m + 1].kind # "created" /\ rows[i].sub = events[m + 1].sub
        /\ rows' = [rows EXCEPT ![i] = Updated(rows[i], events[m + 1])]
    BY <1>1, <1>3, <1>4
  <2> QED
    BY <1>0, <1>1, <1>4, <2>1, WriteAt
<1>5. Keeps(h, "reply")
  BY <1>4 DEF Keeps
<1> QED
  BY <1>2, <1>5, MirrorMoves

LEMMA MirrorFetch ==
  ASSUME MirrorInv, Quiet, NEW h \in Hooks, FetchSubscription(h)
  PROVE  MirrorInv'
<1>0. /\ EventTyped /\ UNCHANGED events /\ PlaceInv /\ LogInv /\ EventsInv
      /\ UNCHANGED rows => \A l : RowsAt(l)' <=> RowsAt(l)
  BY MirrorQuiet
<1>1. /\ InHook(h, "fetch") /\ ~InHook(h, "idle") /\ UNCHANGED <<rows, acked, inOrder>>
      /\ \E at \in {"write", "reply"} : hook' = [hook EXCEPT ![h] = Hook(at, hook[h].n, 0)]
  BY DEF FetchSubscription, GoTo, InHook
<1>2. events[hook[h].n].kind = "paid"
  BY <1>0, <1>1 DEF PlaceInv, InHook, Of
<1>3. ASSUME NEW m \in Nat, inOrder, m + 1 \in 1 .. Len(events), hook[h].n = m + 1,
             RowsAt(m) \/ RowsAt(m + 1)
      PROVE  RowsAt(m + 1)'
  <2>1. events[m + 1].kind \in {"paid", "payment_failed"}
    BY <1>2, <1>3
  <2> QED
    BY <1>0, <1>1, <1>3, <2>1, SkipAt
<1>4. PICK at \in {"write", "reply"} : hook' = [hook EXCEPT ![h] = Hook(at, hook[h].n, 0)]
  BY <1>1
<1>5. Keeps(h, at)
  BY <1>3 DEF Keeps
<1> QED
  BY <1>1, <1>2, <1>4, <1>5, MirrorMoves

(* The moves that neither write a row nor answer.                          *)
LEMMA MirrorOthers ==
  ASSUME MirrorInv, Quiet, NEW h \in Hooks, RetrieveCustomer(h) \/ FindRow(h) \/ Fail(h)
  PROVE  MirrorInv'
<1>0. PlaceInv /\ (UNCHANGED rows => \A l : RowsAt(l)' <=> RowsAt(l))
  BY MirrorQuiet
<1>1. /\ ~InHook(h, "idle") /\ UNCHANGED <<acked, inOrder>> /\ UNCHANGED rows
      /\ \A l : RowsAt(l)' <=> RowsAt(l)
  BY <1>0 DEF RetrieveCustomer, FindRow, Fail, InHook
<1>2. \A at : at # "reply" => Keeps(h, at)
  BY <1>1 DEF Keeps
<1>3. CASE RetrieveCustomer(h)
  <2>1. events[hook[h].n].kind = "created"
    BY <1>0, <1>3 DEF PlaceInv, RetrieveCustomer, InHook, Of
  <2>2. hook' = [hook EXCEPT ![h] = Hook("find", hook[h].n, 0)]
    BY <1>3 DEF RetrieveCustomer, GoTo
  <2>3. Keeps(h, "find")
    BY <1>2
  <2> QED
    BY <1>1, <2>1, <2>2, <2>3, MirrorMoves
<1>4. CASE FindRow(h)
  <2>1. events[hook[h].n].kind = "created"
    BY <1>0, <1>4 DEF PlaceInv, FindRow, InHook, Of
  <2>2. PICK i \in RowIds \cup {0} :
          /\ hook' = [hook EXCEPT ![h] = Hook("save", hook[h].n, i)]
          /\ IF i = 0 THEN \A j \in RowIds : rows[j] = NoRow ELSE rows[i] # NoRow
    BY <1>4, SubscriptionAssumption DEF FindRow, GoTo, Exists
  <2>3. Keeps(h, "save")
    BY <1>2
  <2> QED
    BY <1>1, <2>1, <2>2, <2>3, MirrorMoves
<1>5. CASE Fail(h)
  <2>1. hook' = [hook EXCEPT ![h] = Hook("idle", 0, 0)]
    BY <1>5 DEF Fail, Stop, Idle
  <2>2. Keeps(h, "idle")
    BY <1>2
  <2> QED
    BY <1>1, <2>1, <2>2, MirrorMoves
<1> QED
  BY <1>3, <1>4, <1>5

(* An event is handed to a handler: in order, it is the first that has not *)
(* been answered.                                                          *)
LEMMA MirrorDeliver ==
  ASSUME MirrorInv, Quiet, NEW h \in Hooks, NEW n \in 1 .. MaxEvents, Deliver(h, n)
  PROVE  MirrorInv'
<1>0. /\ LogInv' /\ HookTyped /\ EventTyped /\ Lengths /\ UNCHANGED <<events, rows, acked>>
      /\ EventsInv /\ LogInv /\ PlaceInv /\ TurnInv
      /\ \A l : RowsAt(l)' <=> RowsAt(l)
  BY MirrorQuiet DEF Deliver
<1>1. PICK at \in FirstAwait(events[n].kind) : hook' = [hook EXCEPT ![h] = Hook(at, n, 0)]
  BY DEF Deliver
<1>2. n \in 1 .. Len(events) /\ events[n].kind \in EventKinds
  <2>1. n \in 1 .. Len(events)
    BY DEF Deliver
  <2>2. events[n] \in Event
    BY <1>0, <2>1 DEF EventTyped
  <2> QED
    BY <2>1, <2>2 DEF Event
<1>3. /\ at \in {"customer", "fetch", "write", "reply"}
      /\ at = "customer" => events[n].kind = "created"
      /\ at = "fetch" => events[n].kind = "paid"
      /\ at = "write" => events[n].kind # "created"
      /\ at = "reply" => events[n].kind \in {"paid", "payment_failed"}
  BY <1>1, <1>2 DEF FirstAwait, EventKinds
<1>4. PlaceInv'
  BY <1>0, <1>1, <1>3, PlacesKept
<1>5. TurnInv'
  <2> SUFFICES ASSUME inOrder'  PROVE TurnInv'
    BY DEF TurnInv
  <2>1. inOrder /\ acked = 1 .. (n - 1) /\ \A g \in Hooks : InHook(g, "idle")
    BY DEF Deliver
  <2>2. PICK m \in 0 .. Len(events) : Turn(m)
    BY <1>0, <2>1 DEF TurnInv
  <2>3. m \in Nat /\ 1 .. m = 1 .. (n - 1) /\ n \in Nat
    BY <1>0, <1>2, <2>1, <2>2 DEF Turn, Lengths
  <2>4. n = m + 1
    <3>1. \A k \in Nat : k \in 1 .. m <=> k \in 1 .. (n - 1)
      BY <2>3
    <3>2. m >= n => FALSE
      BY <1>2, <2>3, <3>1
    <3>3. m < n - 1 => FALSE
      <4>1. m + 1 \in Nat
        BY <2>3
      <4> QED
        BY <2>3, <3>1, <4>1
    <3> QED
      BY <2>3, <3>2, <3>3
  <2>5. m + 1 \in 1 .. Len(events) /\ acked = 1 .. m
    BY <1>2, <2>1, <2>3, <2>4
  <2>6. RowsAt(m) \/ RowsAt(m + 1)
    BY <2>2 DEF Turn
  <2>7. at = "reply" => RowsAt(m + 1)'
    BY <1>0, <1>3, <2>3, <2>4, <2>5, <2>6, SkipAt
  <2> QED
    BY <1>0, <1>1, <1>3, <2>1, <2>3, <2>4, <2>5, <2>6, <2>7, TurnGoesOn
<1> QED
  BY <1>0, <1>4, <1>5 DEF MirrorInv, Quiet

(* An answer moves the turn on.                                            *)
LEMMA MirrorReply ==
  ASSUME MirrorInv, Quiet, NEW h \in Hooks, Reply200(h)
  PROVE  MirrorInv'
<1>0. /\ LogInv' /\ HookTyped /\ Lengths /\ UNCHANGED <<events, rows, inOrder>>
      /\ PlaceInv /\ TurnInv /\ \A l : RowsAt(l)' <=> RowsAt(l)
  BY MirrorQuiet DEF Reply200
<1>1. InHook(h, "reply") /\ hook' = [hook EXCEPT ![h] = Hook("idle", 0, 0)]
  BY DEF Reply200, Stop, Idle
<1>2. PlaceInv'
  BY <1>0, <1>1, PlacesKept
<1>3. TurnInv'
  <2> SUFFICES ASSUME inOrder  PROVE TurnInv'
    BY <1>0 DEF TurnInv
  <2>1. PICK m \in Nat :
          /\ m + 1 \in 1 .. Len(events) /\ acked = 1 .. m /\ hook[h].n = m + 1
          /\ \A g \in Hooks \ {h} : InHook(g, "idle")
          /\ InHook(h, "reply") => RowsAt(m + 1)
    BY <1>1, OneTurn DEF InHook
  <2>2. acked' = 1 .. (m + 1)
    BY <2>1 DEF Reply200
  <2>3. \A g \in Hooks : hook'[g].at = "idle"
    BY <1>0, <1>1, <2>1 DEF HookTyped, Hook, InHook
  <2>4. PICK k \in 0 .. Len(events) : k = m + 1
    BY <1>0, <2>1 DEF Lengths
  <2>5. RowsAt(k)' /\ acked' = 1 .. k /\ k \in 0 .. Len(events')
    BY <1>0, <1>1, <2>1, <2>2, <2>4
  <2>6. Turn(k)'
    BY <2>3, <2>5 DEF Turn, InHook
  <2> QED
    BY <2>3, <2>5, <2>6 DEF TurnInv, InHook
<1> QED
  BY <1>0, <1>2, <1>3 DEF MirrorInv, Quiet

LEMMA MirrorHookStep ==
  ASSUME MirrorInv, NEW h \in Hooks, HookStep(h)
  PROVE  MirrorInv'
<1>1. Quiet
  <2>1. UNCHANGED stripeVars
    BY DEF HookStep, Deliver, RetrieveCustomer, FindRow, SaveRow, FetchSubscription,
           WriteStatus, Reply200, Fail
  <2> QED
    BY <2>1, HookSteps DEF Quiet, MirrorInv
<1> QED
  BY <1>1, MirrorSaveRow, MirrorWriteStatus, MirrorFetch, MirrorOthers, MirrorDeliver,
     MirrorReply DEF HookStep

(* A webhook's turn holds in every behaviour.                              *)
THEOREM MirrorInvHolds == Spec => []MirrorInv
<1>1. Init => MirrorInv
  <2> SUFFICES ASSUME Init  PROVE MirrorInv
    OBVIOUS
  <2>1. /\ IInv /\ sub = <<>> /\ events = <<>> /\ acked = {} /\ inOrder
        /\ rows = [i \in RowIds |-> NoRow] /\ \A h \in Hooks : hook[h].at = "idle"
    BY IInvInit DEF Init, StripeInit, Idle, Hook
  <2>2. Len(sub) = 0 /\ Len(events) = 0
    BY <2>1
  <2>3. LogInv
    BY <2>2 DEF LogInv, TailInv, NewestInv
  <2>4. PlaceInv
    BY <2>1 DEF PlaceInv
  <2>5. RowsAt(0)
    BY <2>1 DEF RowsAt, Exists
  <2>6. Turn(0) /\ 0 \in 0 .. Len(events)
    BY <2>1, <2>2, <2>5 DEF Turn, InHook
  <2> QED
    BY <2>1, <2>3, <2>4, <2>6 DEF MirrorInv, TurnInv, InHook
<1>2. MirrorInv /\ [Next]_vars => MirrorInv'
  <2> SUFFICES ASSUME MirrorInv, [Next]_vars  PROVE MirrorInv'
    OBVIOUS
  <2>1. CASE StripeNext /\ UNCHANGED apiVars
    BY <2>1, MirrorStripeStep
  <2>2. CASE \E q \in Checkouts : FindCustomer(q) \/ CreateCustomer(q) \/ CompleteSession(q)
    BY <2>2, MirrorCheckoutStep
  <2>3. CASE \E h \in Hooks : HookStep(h)
    BY <2>3, MirrorHookStep
  <2>4. CASE UNCHANGED vars
    <3>1. IInv' /\ UNCHANGED <<stripeVars, rows, hook, acked, inOrder>>
      BY <2>4, IInvStep DEF vars, apiVars, MirrorInv
    <3>2. Grows
      BY <3>1 DEF Grows, stripeVars, MirrorInv, IInv, TypeOK, StripeTypeOK
    <3> QED
      BY <3>1, <3>2, LogSame, MirrorWhileStripe DEF MirrorInv, stripeVars
  <2> QED
    BY <2>1, <2>2, <2>3, <2>4 DEF Next
<1> QED
  BY <1>1, <1>2, PTL DEF Spec

(* Events that were handled one by one in Stripe's order, each sent until  *)
(* it was answered with 200, leave one row with the state and the period of *)
(* the newest subscription, whatever failed in between.                    *)
THEOREM OrderMirrors == Spec => []MirrorsStripe
<1>1. MirrorInv => MirrorsStripe
  <2> SUFFICES ASSUME MirrorInv, inOrder, Settled, Len(sub) > 0
               PROVE  \E i \in RowIds :
                        /\ \A j \in RowIds : Exists(j) <=> j = i
                        /\ rows[i].sub = Len(sub)
                        /\ rows[i].period = sub[Len(sub)].period
                        /\ \/ rows[i].status = StatusOf(sub[Len(sub)].state)
                           \/ /\ rows[i].status = "PAST_DUE"
                              /\ sub[Len(sub)].state = "incomplete"
    BY DEF MirrorsStripe
  <2>0. PICK l, s : l = Len(events) /\ s = Len(sub)
    OBVIOUS
  <2>1. l \in Nat /\ s \in 1 .. Len(sub)
    BY <2>0 DEF MirrorInv, IInv, TypeOK, StripeTypeOK
  <2>2. PICK m \in 0 .. l : Turn(m)
    BY <2>0 DEF MirrorInv, TurnInv
  <2>3. m = l
    <3>1. 1 .. m = 1 .. l
      BY <2>0, <2>2 DEF Turn, Settled
    <3>2. ~ m < l
      <4>1. m < l => l \in 1 .. l /\ l \notin 1 .. m
        BY <2>1, <2>2
      <4> QED
        BY <3>1, <4>1
    <3> QED
      BY <2>1, <2>2, <3>2
  <2>4. RowsAt(l)
    BY <2>0, <2>2, <2>3 DEF Turn
  <2>5. PICK c \in 1 .. l : Newest(c, l) /\ events[c].sub = s
    BY <2>0 DEF MirrorInv, LogInv, NewestInv
  <2>6. PICK k \in 1 .. l : Latest(s, k, l) /\ events[k].of = sub[s] /\ Firm(events[k])
    BY <2>0, <2>1 DEF MirrorInv, LogInv, TailInv
  <2>7. PICK i \in RowIds : Exists(i)
    BY <2>4, <2>5 DEF RowsAt, Newest
  <2>8. RowAt(rows[i], l) /\ \A j \in RowIds : Exists(j) <=> j = i
    BY <2>4, <2>7 DEF RowsAt
  <2>9. rows[i].sub = s
    <3>1. PICK d \in 1 .. l : Newest(d, l) /\ events[d].sub = rows[i].sub
      BY <2>8 DEF RowAt
    <3>2. d = c
      BY <2>1, <2>5, <3>1 DEF Newest
    <3> QED
      BY <2>5, <3>1, <3>2
  <2>10. Agrees(rows[i], events[k])
    BY <2>6, <2>8, <2>9 DEF RowAt
  <2> QED
    BY <2>0, <2>6, <2>8, <2>9, <2>10 DEF Agrees
<1> QED
  BY <1>1, MirrorInvHolds, PTL
===============================================================================
