------------------------------ MODULE MCLifecycle ------------------------------
(* Instances of Lifecycle for TLC.                                         *)
EXTENDS Lifecycle

LifecycleFairSpec == LifecycleSpec /\ LifecycleFairness

(* Bounds: one circumstance that a property makes an exception for; no     *)
(* check and no pass, which write no more than a status, is under way      *)
(* after it, nor after the last request.                                   *)
NoPass == check = "idle" /\ pass.at = "idle"
Bounds ==
  \/ odd = {} /\ requests < MaxRequests
  \/ Cardinality(odd) <= 1 /\ NoPass
================================================================================
