--------------------------- MODULE DeploymentRecord ---------------------------
(***************************************************************************)
(* What the pipeline promises about the deployment rows and their jobs,    *)
(* whoever else is at work: a row is written only on behalf of its job     *)
(* while that job is active, an outcome is taken back only before the job  *)
(* ends, a job that ended never runs again, and an erased row never        *)
(* returns.                                                                *)
(***************************************************************************)
CONSTANT Deployments

VARIABLES
  record,   \* record[d]: status of the row of d, NONE before and GONE after
  phase     \* phase[d]: "none", "waiting", "active" or "closed"

recordVars == <<record, phase>>

(* What an active job may do to its row: begin (again, when the job was    *)
(* delivered again), succeed, fail, or take a success back.                *)
Moves ==
  ({"QUEUED", "BUILDING", "SUCCESS", "FAILED"} \X {"BUILDING"})
    \cup {<<"BUILDING", "SUCCESS">>, <<"BUILDING", "FAILED">>,
          <<"SUCCESS", "FAILED">>}

Init ==
  /\ record = [d \in Deployments |-> "NONE"]
  /\ phase = [d \in Deployments |-> "none"]

Create(d) ==
  /\ record[d] = "NONE"
  /\ record' = [record EXCEPT ![d] = "QUEUED"]
  /\ UNCHANGED phase

(* The job is added once, after its row was created.                       *)
Submit(d) ==
  /\ phase[d] = "none"
  /\ record[d] # "NONE"
  /\ phase' = [phase EXCEPT ![d] = "waiting"]
  /\ UNCHANGED record

Begin(d) ==
  /\ phase[d] = "waiting"
  /\ phase' = [phase EXCEPT ![d] = "active"]
  /\ UNCHANGED record

Move(d) ==
  /\ phase[d] = "active"
  /\ \E s \in {"BUILDING", "SUCCESS", "FAILED"} :
       /\ <<record[d], s>> \in Moves
       /\ record' = [record EXCEPT ![d] = s]
  /\ UNCHANGED phase

(* The attempt is over: for good, or to be made again.                     *)
Leave(d) ==
  /\ phase[d] = "active"
  /\ phase' = [phase EXCEPT ![d] = "closed"] \/ phase' = [phase EXCEPT ![d] = "waiting"]
  /\ UNCHANGED record

Erase ==
  /\ record' = [d \in Deployments |-> IF record[d] = "NONE" THEN "NONE" ELSE "GONE"]
  /\ UNCHANGED phase

Next ==
  \/ \E d \in Deployments : Create(d) \/ Submit(d) \/ Begin(d) \/ Move(d) \/ Leave(d)
  \/ Erase

Spec == Init /\ [][Next]_recordVars
===============================================================================
