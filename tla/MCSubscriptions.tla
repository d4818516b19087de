---------------------------- MODULE MCSubscriptions ----------------------------
(* Instances of Subscriptions for TLC.  Deliveries are alike, and so are    *)
(* checkouts.                                                              *)
EXTENDS Subscriptions, TLC

AlikeSymmetry == Permutations(Hooks) \cup Permutations(Checkouts)

(* Bound: where there are two customers, subscriptions or checkouts, three *)
(* events and one price.                                                   *)
SmallIfTwo ==
  \/ customers < 2 /\ Len(sub) < 2
     /\ \E q \in Checkouts : \A r \in Checkouts \ {q} : checkout[r].at = "new"
  \/ Len(events) <= 3 /\ \A s \in 1 .. Len(sub) : sub[s].price = "price_pro"
===============================================================================
