---------------------------- MODULE SchedulerInv ----------------------------
(***************************************************************************)
(* The inductive invariant of Scheduler, in parts that are named for the   *)
(* table or the process they are about.  Neither half stands alone: a job  *)
(* record has exact slots only because a worker that owes a result is      *)
(* still bound to its job and so gets a replay instead of a second slot    *)
(* (BindingKept), and the bindings survive late clean-ups only because of  *)
(* what the records say about who has reported.                            *)
(***************************************************************************)
EXTENDS Scheduler

(* A job that has left the live states can never be live again.            *)
Over(j) == status[j] \in TerminalStatus \cup {"collected"}

(* Worker w can never again be asked for a result by job j.                *)
Done(j, w) == Over(j) \/ result[j][w] # "none"

(* The part of SlotsExact about one job.                                   *)
SlotsOK(j) ==
  /\ {slot[j][w] : w \in Assigned(j)} = 0..(Filled(j) - 1)
  /\ Filled(j) <= Target[j]

(* Which fields of a record are still blank in which status.               *)
BlankOK(j) ==
  /\ status[j] \in {"unborn", "collected"} => Assigned(j) = {}
  /\ status[j] \in {"unborn", "collected", "PENDING"} => run[j] = {}
  /\ status[j] \in {"PENDING", "PREPARING"} => ~opened[j]
  /\ status[j] = "PENDING" => Filled(j) < Target[j]
  /\ status[j] \in {"PREPARING", "RUNNING", "COMPLETED"} => run[j] # {}
  /\ status[j] \in {"RUNNING", "COMPLETED"} => opened[j]
  /\ status[j] = "PREPARING" => Reported(j) = {}

(* A crew is all or nothing, and the sets built on top of it stay in it.   *)
CrewOK(j) ==
  /\ ready[j] \subseteq Assigned(j)
  /\ run[j] # {} => run[j] = Assigned(j) /\ Filled(j) = Target[j]
  /\ opened[j] => run[j] # {} /\ ready[j] = run[j]
  /\ Reported(j) \subseteq run[j]

(* The part of CompletionExact about one job.                              *)
VerdictOK(j) ==
  /\ status[j] = "COMPLETED" => \A w \in run[j] : result[j][w] = "ok"
  /\ status[j] = "RUNNING"   => /\ \A w \in run[j] : result[j][w] # "fail"
                                /\ \E w \in run[j] : result[j][w] = "none"

RecordOK(j) == SlotsOK(j) /\ BlankOK(j) /\ CrewOK(j) /\ VerdictOK(j)
RecordInv   == \A j \in Jobs : RecordOK(j)

(* GC has selected only jobs with a verdict, and forgets them only once.   *)
DoomedInv == \A j \in doomed : Over(j)

(* A worker that is not waiting for a job is busy with one.                *)
BusyInv == \A w \in Workers : stage[w] \notin {"idle", "gone"} => at[w] # None

(* What a worker believes of the job it is busy with.                      *)
BeliefOK(w) ==
  /\ at[w] # None => slot[at[w]][w] # Free \/ status[at[w]] = "collected"
  /\ told[w] # "no" => at[w] # None /\ Over(at[w])
  /\ stage[w] = "stopping" => w \in leaving \/ Over(at[w])
  /\ stage[w] \in {"running", "reportOk", "reportFail"} =>
       opened[at[w]] \/ status[at[w]] = "collected"
  /\ stage[w] = "idle" => at[w] = None /\ w \notin leaving

BeliefInv == \A w \in Workers : BeliefOK(w)

(* A clean-up that is still to be executed releases only workers that owe  *)
(* nothing to its job.                                                     *)
TailOK(h) == h.op # "enqueue" => \A w \in h.crew : w \in leaving \/ Done(h.job, w)
TailInv   == \A h \in tail : TailOK(h)

IInv ==
  /\ TypeOK /\ BusyInv
  /\ RecordInv /\ DoomedInv /\ NoOrphanReader
  /\ BeliefInv /\ TailInv /\ BindingKept /\ OneJobPerWorker
=============================================================================
