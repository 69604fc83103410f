---------------------------- MODULE MCScheduler ----------------------------
(* Small instances of Scheduler for TLC.                                   *)
EXTENDS SchedulerInv, TLC

CONSTANTS j1, j2, w1, w2, w3

OneJob       == {j1}
OneWorker    == {w1}
Nobody       == {}
TwoJobs      == {j1, j2}
TwoWorkers   == {w1, w2}
ThreeWorkers == {w1, w2, w3}

\* One job that needs both workers, one that needs a single one.
PairAndSolo == (j1 :> 2) @@ (j2 :> 1)
\* One job for two of the workers.
Pair         == (j1 :> 2)

WorkerSymmetry == Permutations(Workers)
=============================================================================
