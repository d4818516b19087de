----------------------------- MODULE MCDeployment -----------------------------
(* Instances of Deployment for TLC.  Requests are alike, and no property    *)
(* checked under this symmetry names one of them.                          *)
EXTENDS Deployment, TLC

RequestSymmetry == Permutations(Requests)

(* Bound: of all jobs, one at most runs again, once.                       *)
Repeats == [d \in Deployments |-> stalls[d] + fails[d]]
OneRepeat ==
  \A d, e \in Deployments : Repeats[d] <= 1 /\ (Repeats[d] = 1 /\ Repeats[e] = 1 => d = e)

(* Bound: the type of the service does not change between two deployments. *)
OneMode == \A d, e \in Deployments :
  dep[d] # "NONE" /\ dep[e] # "NONE" => mode[d] = mode[e]
===============================================================================
