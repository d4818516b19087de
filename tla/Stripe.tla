-------------------------------- MODULE Stripe --------------------------------
(***************************************************************************)
(* Stripe, as far as apps/api uses it: customers, subscriptions and the    *)
(* log of webhook events.  All of it is external.  Customers, like         *)
(* subscriptions, are numbered in the order of their creation.             *)
(***************************************************************************)
EXTENDS Naturals, Sequences

CONSTANTS
  MaxCustomers,   \* bound: customers ever created
  MaxSubs,        \* bound: subscriptions ever created
  MaxEvents,      \* bound: events ever sent
  Prices          \* price ids a subscription may have

ASSUME StripeAssumption ==
  MaxCustomers \in Nat /\ MaxSubs \in Nat /\ MaxEvents \in Nat

Customers == 1 .. MaxCustomers
Subs == 1 .. MaxSubs

StripeStates ==
  {"incomplete", "incomplete_expired", "trialing", "active", "past_due", "unpaid",
   "paused", "canceled"}
EventKinds == {"created", "updated", "deleted", "paid", "payment_failed"}

VARIABLES
  customers,   \* number of customers
  sub,         \* sequence of subscriptions
  events       \* sequence of events, each with the subscription as it was

stripeVars == <<customers, sub, events>>

Subscription ==
  [state : StripeStates, cust : Customers, price : Prices, period : Nat]
Event == [kind : EventKinds, sub : Subs, of : Subscription]

StripeInit ==
  /\ customers = 0
  /\ sub = <<>>
  /\ events = <<>>

StripeTypeOK ==
  /\ customers \in 0 .. MaxCustomers
  /\ sub \in Seq(Subscription) /\ Len(sub) <= MaxSubs
  /\ events \in Seq(Event)

-------------------------------------------------------------------------------
(* Subscription s becomes t, and the events of these kinds are sent.       *)
Become(s, t, kinds) ==
  /\ Len(events) + Len(kinds) <= MaxEvents
  /\ sub' = [sub EXCEPT ![s] = t]
  /\ events' = events \o [i \in 1 .. Len(kinds) |-> [kind |-> kinds[i], sub |-> s, of |-> t]]
  /\ UNCHANGED customers

EverActive(s) ==
  \E n \in 1 .. Len(events) : events[n].sub = s /\ events[n].of.state = "active"

In(s, states) == s \in 1 .. Len(sub) /\ sub[s].state \in states

NewCustomer ==
  /\ customers < MaxCustomers
  /\ customers' = customers + 1
  /\ UNCHANGED <<sub, events>>

(* A checkout session is paid, or its first payment is still under way.    *)
Subscribe(c, p, state) ==
  LET t == [state |-> state, cust |-> c, price |-> p, period |-> 1]
      s == Len(sub) + 1
  IN /\ Len(sub) < MaxSubs
     /\ Len(events) < MaxEvents
     /\ sub' = Append(sub, t)
     /\ events' = Append(events, [kind |-> "created", sub |-> s, of |-> t])
     /\ UNCHANGED customers

(* An invoice that was open is paid; an active subscription is renewed.    *)
Pays(s) ==
  /\ In(s, {"incomplete", "past_due", "unpaid"})
  /\ Become(s, [sub[s] EXCEPT !.state = "active"], <<"paid", "updated">>)

Renews(s) ==
  /\ In(s, {"active"})
  /\ Become(s, [sub[s] EXCEPT !.period = @ + 1], <<"paid", "updated">>)

(* The first payment fails, or the one that renews the subscription: its   *)
(* new period has begun by then.                                           *)
FirstPaymentFails(s) ==
  /\ In(s, {"incomplete"})
  /\ Become(s, sub[s], <<"payment_failed">>)

RenewalFails(s) ==
  /\ In(s, {"active"})
  /\ Become(s, [sub[s] EXCEPT !.state = "past_due", !.period = @ + 1],
            <<"payment_failed", "updated">>)

(* Stripe stops trying to be paid.                                         *)
GivesUp(s) ==
  /\ In(s, {"incomplete", "past_due"})
  /\ Become(s, [sub[s] EXCEPT !.state =
                  IF @ = "incomplete" THEN "incomplete_expired" ELSE "unpaid"],
            <<"updated">>)

Ends(s) ==
  /\ In(s, {"active", "past_due", "unpaid"})
  /\ Become(s, [sub[s] EXCEPT !.state = "canceled"], <<"deleted">>)

ChangesPrice(s, p) ==
  /\ In(s, {"active"})
  /\ p # sub[s].price
  /\ Become(s, [sub[s] EXCEPT !.price = p], <<"updated">>)

StripeNext ==
  \E s \in Subs :
    \/ Pays(s) \/ Renews(s) \/ FirstPaymentFails(s) \/ RenewalFails(s)
    \/ GivesUp(s) \/ Ends(s)
    \/ \E p \in Prices : ChangesPrice(s, p)
===============================================================================
