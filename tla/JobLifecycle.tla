---------------------------- MODULE JobLifecycle ----------------------------
(***************************************************************************)
(* What the master promises about each benchmark job, with no word on      *)
(* queues, locks, calls or worker daemons: a job waits, is given a crew of *)
(* exactly the size it asked for, runs only when that crew is complete and *)
(* stands still from its verdict on.  A COMPLETED verdict means a success  *)
(* from every member of the crew; everything else is FAILED or CANCELLED.  *)
(***************************************************************************)
CONSTANTS
  Jobs,    (* the job ids                                                  *)
  Workers, (* the worker ids                                               *)
  Crews    (* for each job, the sets of workers that are a crew for it     *)

VARIABLES
  phase,    \* the JobStatus of each job, "unborn" or "collected"
  crew,     \* the workers the job runs on
  succeeded \* the members of the crew that delivered a success

vars == <<phase, crew, succeeded>>

Live == {"PENDING", "PREPARING", "RUNNING"}

Init == /\ phase     = [j \in Jobs |-> "unborn"]
        /\ crew      = [j \in Jobs |-> {}]
        /\ succeeded = [j \in Jobs |-> {}]

Becomes(j, p) == phase' = [phase EXCEPT ![j] = p]

Create(j) == /\ phase[j] = "unborn"
             /\ Becomes(j, "PENDING")
             /\ UNCHANGED <<crew, succeeded>>

(* The crew is chosen once, at the moment the job leaves PENDING.          *)
Staff(j) == /\ phase[j] = "PENDING"
            /\ \E C \in Crews[j] : crew' = [crew EXCEPT ![j] = C]
            /\ Becomes(j, "PREPARING")
            /\ UNCHANGED succeeded

Start(j) == /\ phase[j] = "PREPARING"
            /\ Becomes(j, "RUNNING")
            /\ UNCHANGED <<crew, succeeded>>

(* The success that makes the crew complete also completes the job.        *)
Succeed(j, w) ==
  /\ phase[j] = "RUNNING"
  /\ w \in crew[j] \ succeeded[j]
  /\ succeeded' = [succeeded EXCEPT ![j] = @ \cup {w}]
  /\ IF succeeded'[j] = crew[j] THEN Becomes(j, "COMPLETED") ELSE UNCHANGED phase
  /\ UNCHANGED crew

Cancel(j) == /\ phase[j] \in Live
             /\ Becomes(j, "CANCELLED")
             /\ UNCHANGED <<crew, succeeded>>

(* A job fails only after it has left PENDING; several may fail at once.   *)
Fail(J) == /\ \A j \in J : phase[j] \in {"PREPARING", "RUNNING"}
           /\ phase' = [j \in Jobs |-> IF j \in J THEN "FAILED" ELSE phase[j]]
           /\ UNCHANGED <<crew, succeeded>>

(* Only a job with a verdict is ever forgotten.                            *)
Collect(J) ==
  /\ \A j \in J : phase[j] \in {"COMPLETED", "FAILED", "CANCELLED"}
  /\ phase'     = [j \in Jobs |-> IF j \in J THEN "collected" ELSE phase[j]]
  /\ crew'      = [j \in Jobs |-> IF j \in J THEN {} ELSE crew[j]]
  /\ succeeded' = [j \in Jobs |-> IF j \in J THEN {} ELSE succeeded[j]]

Next == \/ \E j \in Jobs : Create(j) \/ Staff(j) \/ Start(j) \/ Cancel(j)
        \/ \E j \in Jobs, w \in Workers : Succeed(j, w)
        \/ \E J \in SUBSET Jobs : Fail(J) \/ Collect(J)

Spec == Init /\ [][Next]_vars
=============================================================================
