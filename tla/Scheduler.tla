----------------------------- MODULE Scheduler -----------------------------
(***************************************************************************)
(* The job scheduler of cvd-master together with the worker daemons that   *)
(* drive it: job creation and cancellation, the FIFO of PENDING jobs, slot *)
(* assignment and replay by FetchJob, the ReportReady barrier, result      *)
(* collection, the staleness watcher, manifest failure and job GC.         *)
(*                                                                         *)
(* The master keeps three tables behind three mutexes: jobs, pending_queue *)
(* and worker_active_jobs.  A handler is atomic as long as it holds the    *)
(* jobs lock; what it still has to do to the other two tables after it has *)
(* dropped that lock is a record in `tail`, executed by a later step, so   *)
(* that every other handler may run in between.                            *)
(*                                                                         *)
(* Time is abstracted: a run worker may be found stale, a PREPARING job    *)
(* overdue and a terminal job past its retention at any moment.            *)
(***************************************************************************)
EXTENDS Integers, Sequences, FiniteSets

CONSTANTS
  Jobs,          (* the job ids that CreateJob may hand out                *)
  Workers,       (* the worker ids; a restarted daemon has a new one       *)
  ManifestJobs,  (* the jobs fed by a manifest reader task                 *)
  Fragile,       (* the workers that may crash or be told to shut down     *)
  Expiring,      (* the jobs whose retention may run out                   *)
  Target,        (* target_workers of each job                             *)
  None           (* no job, no worker                                      *)

ASSUME SchedulerAssumption ==
  /\ IsFiniteSet(Workers)
  /\ ManifestJobs \subseteq Jobs
  /\ Fragile \subseteq Workers
  /\ Expiring \subseteq Jobs
  /\ Target \in [Jobs -> Nat \ {0}]
  /\ None \notin Jobs \cup Workers

VARIABLES
  \* one JobRecord per job
  status,    \* its JobStatus, or "unborn" before CreateJob, "collected" after GC
  slot,      \* worker_assignments: the worker_index of each worker, or Free
  run,       \* run_workers, frozen when the job enters PREPARING
  ready,     \* ready_workers
  opened,    \* start_at_ms # 0
  result,    \* worker_results
  reader,    \* the jobs whose manifest_handle is a live task
  \* the other tables of the master
  pending,   \* pending_queue
  active,    \* worker_active_jobs
  tail,      \* what handlers that dropped the jobs lock still have to do
  doomed,    \* what the GC tick has selected and not yet removed
  \* the worker daemons
  at,        \* the job a worker is busy with
  stage,     \* how far it is with that job
  told,      \* what the master's replies have told its current job's flags
  leaving    \* the workers that have received SIGINT or SIGTERM

jobVars    == <<status, slot, run, ready, opened, result, reader>>
tableVars  == <<pending, active, tail, doomed>>
workerVars == <<at, stage, told, leaving>>
vars       == <<jobVars, tableVars, workerVars>>

LiveStatus     == {"PENDING", "PREPARING", "RUNNING"}
TerminalStatus == {"COMPLETED", "FAILED", "CANCELLED"}
Status         == {"unborn", "collected"} \cup LiveStatus \cup TerminalStatus
Stages         == {"idle", "preflight", "refusing", "barrier", "running",
                   "reportOk", "reportFail", "stopping", "gone"}
Free           == -1

Tails == [op : {"enqueue", "dequeue", "release"}, job : Jobs,
          crew : SUBSET Workers, caller : Workers \cup {None}]

TypeOK ==
  /\ status  \in [Jobs -> Status]
  /\ slot    \in [Jobs -> [Workers -> Nat \cup {Free}]]
  /\ run     \in [Jobs -> SUBSET Workers]
  /\ ready   \in [Jobs -> SUBSET Workers]
  /\ opened  \in [Jobs -> BOOLEAN]
  /\ result  \in [Jobs -> [Workers -> {"none", "ok", "fail"}]]
  /\ reader  \in SUBSET Jobs
  /\ pending \in Seq(Jobs)
  /\ active  \in [Workers -> Jobs \cup {None}]
  /\ tail    \in SUBSET Tails
  /\ doomed  \in SUBSET Jobs
  /\ at      \in [Workers -> Jobs \cup {None}]
  /\ stage   \in [Workers -> Stages]
  /\ told    \in [Workers -> {"no", "cancelled", "unknown"}]
  /\ leaving \in SUBSET Workers

Init ==
  /\ status  = [j \in Jobs |-> "unborn"]
  /\ slot    = [j \in Jobs |-> [w \in Workers |-> Free]]
  /\ run     = [j \in Jobs |-> {}]
  /\ ready   = [j \in Jobs |-> {}]
  /\ opened  = [j \in Jobs |-> FALSE]
  /\ result  = [j \in Jobs |-> [w \in Workers |-> "none"]]
  /\ reader  = {}
  /\ pending = <<>>
  /\ active  = [w \in Workers |-> None]
  /\ tail    = {}
  /\ doomed  = {}
  /\ at      = [w \in Workers |-> None]
  /\ stage   = [w \in Workers |-> "idle"]
  /\ told    = [w \in Workers |-> "no"]
  /\ leaving = {}

-----------------------------------------------------------------------------
(* The job record.                                                         *)

Live(j)     == status[j] \in LiveStatus
Terminal(j) == status[j] \in TerminalStatus
Assigned(j) == {w \in Workers : slot[j][w] # Free}
Filled(j)   == Cardinality(Assigned(j))
Reported(j) == {w \in Workers : result[j][w] # "none"}

(* A worker RPC other than FetchJob is about this job only if the job is   *)
(* live and has assigned a slot to that worker.                            *)
Accepts(j, w) == Live(j) /\ slot[j][w] # Free

(* Mutant: the reader is left alone.                                       *)
CleanupForgotten(J) == UNCHANGED reader

(* cleanup_on_terminal: the manifest readers of the jobs J are aborted.    *)
CleanupOnTerminal(J) == reader' = reader \ J

(* The rest of a handler: release unbinds the crew from the job in         *)
(* worker_active_jobs, dequeue removes the job from the pending queue and  *)
(* then releases, enqueue appends it.  `caller` is the worker whose RPC    *)
(* the handler answers when it is done.                                    *)
Rest(op, j, crew, caller) ==
  [op |-> op, job |-> j, crew |-> crew, caller |-> caller]

-----------------------------------------------------------------------------
(* The worker daemon between two calls.                                    *)

(* It waits for the reply of a handler that is still running.              *)
Waiting(w) == \E h \in tail : h.caller = w

(* job_cancelled: set by a reply or by the shutdown bridge.                *)
Flagged(w) == told[w] # "no" \/ w \in leaving

GoTo(w, s) == /\ stage' = [stage EXCEPT ![w] = s]
              /\ UNCHANGED <<at, told>>

(* Back to the FetchJob loop, which a shutdown ends.                       *)
GoIdle(w) == /\ stage' = [stage EXCEPT ![w] = IF w \in leaving THEN "gone" ELSE "idle"]
             /\ at'    = [at EXCEPT ![w] = None]
             /\ told'  = [told EXCEPT ![w] = "no"]

Stay == UNCHANGED <<at, stage, told>>

-----------------------------------------------------------------------------
(* CLI calls.                                                              *)

(* The record is inserted under the jobs lock; the id joins the pending    *)
(* queue only after that lock is released.                                 *)
CreateJob(j) ==
  /\ status[j] = "unborn"
  /\ status' = [status EXCEPT ![j] = "PENDING"]
  /\ tail'   = tail \cup {Rest("enqueue", j, {}, None)}
  /\ UNCHANGED <<slot, run, ready, opened, result, reader,
                 pending, active, doomed, workerVars>>

(* A terminal job is left alone, so only a live one takes a step.          *)
DeleteJob(j) ==
  /\ Live(j)
  /\ status' = [status EXCEPT ![j] = "CANCELLED"]
  /\ CleanupOnTerminal({j})
  /\ tail' = IF status[j] = "PENDING"
             THEN tail \cup {Rest("dequeue", j, Assigned(j), None)}
             ELSE tail \cup {Rest("release", j, Assigned(j), None)}
  /\ UNCHANGED <<slot, run, ready, opened, result,
                 pending, active, doomed, workerVars>>

-----------------------------------------------------------------------------
(* What handlers do after they have dropped the jobs lock.                 *)

(* Mutant: a new job goes to the head of the queue.                        *)
EnqueueFront(h) ==
  /\ h.op = "enqueue"
  /\ pending' = <<h.job>> \o pending
  /\ tail'    = tail \ {h}
  /\ UNCHANGED <<jobVars, active, doomed, workerVars>>

Enqueue(h) ==
  /\ h.op = "enqueue"
  /\ pending' = Append(pending, h.job)
  /\ tail'    = tail \ {h}
  /\ UNCHANGED <<jobVars, active, doomed, workerVars>>

(* The queue without the first occurrence of j.                            *)
Without(q, j) ==
  IF \E p \in 1..Len(q) : q[p] = j
  THEN LET p == CHOOSE i \in 1..Len(q) : q[i] = j /\ \A k \in 1..(i - 1) : q[k] # j
       IN  SubSeq(q, 1, p - 1) \o SubSeq(q, p + 1, Len(q))
  ELSE q

Dequeue(h) ==
  /\ h.op = "dequeue"
  /\ pending' = Without(pending, h.job)
  /\ tail' = (tail \ {h}) \cup {[h EXCEPT !.op = "release"]}
  /\ UNCHANGED <<jobVars, active, doomed, workerVars>>

(* Mutant: the entry of the worker is removed whatever job it names.       *)
UnbindAny(j, crew) ==
  active' = [w \in Workers |-> IF w \in crew THEN None ELSE active[w]]

(* An entry is removed only if it still names this job: the worker may     *)
(* have fetched another one in the meantime.                               *)
Unbind(j, crew) ==
  active' = [w \in Workers |-> IF w \in crew /\ active[w] = j THEN None ELSE active[w]]

Release(h) ==
  /\ h.op = "release"
  /\ Unbind(h.job, h.crew)
  /\ tail' = tail \ {h}
  /\ IF h.caller = None THEN Stay ELSE GoIdle(h.caller)
  /\ UNCHANGED <<jobVars, pending, doomed, leaving>>

(* The connection breaks while the handler runs: the handler goes on, its  *)
(* caller sees an error and may call again.  The result sent by a job      *)
(* cancelled at the barrier is not retried.                                *)
LoseReply(h) ==
  /\ h.caller # None
  /\ tail' = (tail \ {h}) \cup {[h EXCEPT !.caller = None]}
  /\ IF stage[h.caller] = "stopping" THEN GoIdle(h.caller) ELSE Stay
  /\ UNCHANGED <<jobVars, pending, active, doomed, leaving>>

-----------------------------------------------------------------------------
(* FetchJob, under all three locks.  The reply may be lost, and then the   *)
(* worker asks again.                                                      *)

Fetches(w) == stage[w] = "idle"

Receive(w, j) ==
  \/ Stay
  \/ /\ at'    = [at EXCEPT ![w] = j]
     /\ stage' = [stage EXCEPT ![w] = "preflight"]
     /\ UNCHANGED told

(* Mutant: only a job that has started is replayed.                        *)
ReplayableRunning(w) ==
  active[w] # None /\ Accepts(active[w], w) /\ status[active[w]] = "RUNNING"

(* The worker is still bound to a live job: the same slot once more.       *)
Replayable(w) == active[w] # None /\ Accepts(active[w], w)

FetchReplay(w) ==
  /\ Fetches(w)
  /\ Replayable(w)
  /\ Receive(w, active[w])
  /\ UNCHANGED <<jobVars, tableVars, leaving>>

(* try_assign gives a slot only in a job that has one left.                *)
Open(j) == status[j] = "PENDING" /\ Filled(j) < Target[j]

(* The slot taken is the one after those already filled.                   *)
TryAssign(j, w) == slot' = [slot EXCEPT ![j][w] = Filled(j)]

(* Mutant: run_workers is not frozen.                                      *)
EnterPreparingBare(J) ==
  /\ status' = [j \in Jobs |-> IF j \in J THEN "PREPARING" ELSE status[j]]
  /\ UNCHANGED run

(* enter_preparing freezes run_workers.                                    *)
EnterPreparing(J) ==
  /\ status' = [j \in Jobs |-> IF j \in J THEN "PREPARING" ELSE status[j]]
  /\ run'    = [j \in Jobs |-> IF j \in J THEN {w \in Workers : slot'[j][w] # Free}
                                          ELSE run[j]]

(* Mutant: the job is popped with its first worker.                        *)
DropServed(k, filled) == SubSeq(pending, k + 1, Len(pending))

(* The queue after its k-th job was served: pop_if_front if that filled it. *)
Drop(k, filled) == SubSeq(pending, IF filled THEN k + 1 ELSE k, Len(pending))

(* The queue is read from its front: jobs that left PENDING are popped, a  *)
(* full one that is still PENDING is advanced, the first open one serves.  *)
FetchAssign(w) ==
  /\ Fetches(w)
  /\ ~Replayable(w)
  /\ \E k \in 1..Len(pending) :
       LET j      == pending[k]
           ahead  == {pending[i] : i \in 1..(k - 1)}
           filled == Cardinality(Assigned(j) \cup {w}) >= Target[j]
           full   == {x \in ahead : status[x] = "PENDING"}
       IN  /\ Open(j)
           /\ \A x \in ahead : ~Open(x)
           /\ TryAssign(j, w)
           /\ EnterPreparing(IF filled THEN full \cup {j} ELSE full)
           /\ active'  = [active EXCEPT ![w] = j]
           /\ pending' = Drop(k, filled)
           /\ reader'  = IF filled THEN reader \cup ({j} \cap ManifestJobs) ELSE reader
           /\ Receive(w, j)
  /\ UNCHANGED <<ready, opened, result, tail, doomed, leaving>>

(* Nothing to hand out: the stale binding and the queue are cleared.       *)
FetchNothing(w) ==
  /\ Fetches(w)
  /\ ~Replayable(w)
  /\ \A k \in 1..Len(pending) : ~Open(pending[k])
  /\ UNCHANGED slot
  /\ EnterPreparing({pending[k] : k \in 1..Len(pending)} \cap {j \in Jobs : status[j] = "PENDING"})
  /\ active'  = [active EXCEPT ![w] = None]
  /\ pending' = <<>>
  /\ Stay
  /\ UNCHANGED <<ready, opened, result, reader, tail, doomed, leaving>>

-----------------------------------------------------------------------------
(* ReportReady and the start barrier.                                      *)

PreflightDone(w) ==
  /\ stage[w] = "preflight"
  /\ \/ GoTo(w, "barrier")
     \/ GoTo(w, "refusing")
  /\ UNCHANGED <<jobVars, tableVars, leaving>>

(* The barrier polls the job's cancel flag before every call.              *)
BarrierCancelled(w) ==
  /\ stage[w] = "barrier"
  /\ Flagged(w)
  /\ GoTo(w, "stopping")
  /\ UNCHANGED <<jobVars, tableVars, leaving>>

ReadyRefused(w) ==
  /\ stage[w] = "barrier"
  /\ ~Flagged(w)
  /\ ~Accepts(at[w], w)
  /\ \/ Stay
     \/ IF status[at[w]] = "CANCELLED" THEN GoTo(w, "stopping") ELSE GoIdle(w)
  /\ UNCHANGED <<jobVars, tableVars, leaving>>

(* Mutant: calls are counted, not workers.                                 *)
OpensByCalls(j, w) ==
  /\ status[j] = "PREPARING"
  /\ ~opened[j]
  /\ run[j] # {}
  /\ Cardinality(ready[j]) + 1 >= Cardinality(run[j])

(* The barrier opens with the call that makes the ready workers as many as *)
(* the run workers.                                                        *)
Opens(j, w) ==
  /\ status[j] = "PREPARING"
  /\ ~opened[j]
  /\ run[j] # {}
  /\ Cardinality(ready[j] \cup {w}) = Cardinality(run[j])

(* Mutant: the worker does not look at start_at_ms.                        *)
BarrierReplyEager(w) == Stay \/ GoTo(w, "running")

(* The worker starts once a reply carries start_at_ms; it polls until then. *)
BarrierReply(w) == Stay \/ (opened'[at[w]] /\ GoTo(w, "running"))

ReadyCounted(w) ==
  /\ stage[w] = "barrier"
  /\ ~Flagged(w)
  /\ Accepts(at[w], w)
  /\ LET j == at[w] IN
       /\ ready'  = [ready EXCEPT ![j] = IF status[j] = "RUNNING" THEN @ ELSE @ \cup {w}]
       /\ opened' = [opened EXCEPT ![j] = @ \/ Opens(j, w)]
       /\ status' = [status EXCEPT ![j] = IF Opens(j, w) THEN "RUNNING" ELSE @]
       /\ BarrierReply(w)
  /\ UNCHANGED <<slot, run, result, reader, tableVars, leaving>>

(* ReportReady with an error fails a PREPARING job only.                   *)
ReadyErrorFails(w) ==
  /\ stage[w] = "refusing"
  /\ ~Waiting(w)
  /\ Accepts(at[w], w)
  /\ status[at[w]] = "PREPARING"
  /\ status' = [status EXCEPT ![at[w]] = "FAILED"]
  /\ CleanupOnTerminal({at[w]})
  /\ tail' = tail \cup {Rest("release", at[w], Assigned(at[w]), w)}
  /\ UNCHANGED <<slot, run, ready, opened, result, pending, active, doomed, workerVars>>

ReadyErrorIgnored(w) ==
  /\ stage[w] = "refusing"
  /\ ~Waiting(w)
  /\ ~(Accepts(at[w], w) /\ status[at[w]] = "PREPARING")
  /\ GoIdle(w)
  /\ UNCHANGED <<jobVars, tableVars, leaving>>

-----------------------------------------------------------------------------
(* The measured run and its result.                                        *)

(* A ReportProgress that the master accepts changes nothing modelled here; *)
(* a refused one sets the flags of the worker's current job.               *)
ProgressRefused(w) ==
  /\ stage[w] \in {"preflight", "running"}
  /\ ~Flagged(w)
  /\ ~Accepts(at[w], w)
  /\ told' = [told EXCEPT ![w] = IF status[at[w]] = "CANCELLED" THEN "cancelled"
                                                                ELSE "unknown"]
  /\ UNCHANGED <<jobVars, tableVars, at, stage, leaving>>

RunEnds(w) ==
  /\ stage[w] = "running"
  /\ IF told[w] = "unknown"
     THEN GoIdle(w)
     ELSE GoTo(w, "reportOk") \/ GoTo(w, "reportFail")
  /\ UNCHANGED <<jobVars, tableVars, leaving>>

Reporting(w) == stage[w] \in {"reportOk", "reportFail", "stopping"} /\ ~Waiting(w)
Verdict(w)   == IF stage[w] = "reportFail" THEN "fail" ELSE "ok"

(* Mutant: a result counts in any state of the job.                        *)
RecordsLate(j, w) == w \in run[j] /\ result[j][w] = "none"

(* Only the first result of a run worker of a RUNNING job is recorded.     *)
Records(j, w) == w \in run[j] /\ status[j] = "RUNNING" /\ result[j][w] = "none"

(* Mutant: the last result decides.                                        *)
OutcomeLast(j, w) ==
  IF Cardinality(Reported(j) \cup {w}) < Cardinality(run[j]) THEN status[j]
  ELSE IF Verdict(w) = "fail" THEN "FAILED" ELSE "COMPLETED"

(* One failure fails the job; as many results as run workers complete it.  *)
Outcome(j, w) ==
  IF Verdict(w) = "fail" THEN "FAILED"
  ELSE IF Cardinality(Reported(j) \cup {w}) = Cardinality(run[j]) THEN "COMPLETED"
  ELSE status[j]

ResultCounted(w) ==
  /\ Reporting(w)
  /\ Records(at[w], w)
  /\ LET j == at[w] IN
       /\ result' = [result EXCEPT ![j][w] = Verdict(w)]
       /\ status' = [status EXCEPT ![j] = Outcome(j, w)]
       /\ IF Outcome(j, w) \in TerminalStatus THEN CleanupOnTerminal({j})
                                              ELSE UNCHANGED reader
       /\ tail' = tail \cup {Rest("release", j, {w}, w)}
  /\ UNCHANGED <<slot, run, ready, opened, pending, active, doomed, workerVars>>

(* Every other result only releases the worker.                            *)
ResultIgnored(w) ==
  /\ Reporting(w)
  /\ ~Records(at[w], w)
  /\ tail' = tail \cup {Rest("release", at[w], {w}, w)}
  /\ UNCHANGED <<jobVars, pending, active, doomed, workerVars>>

(* All attempts of a call failed before they reached the master.           *)
GiveUp(w) ==
  /\ stage[w] \in {"refusing", "reportOk", "reportFail", "stopping"}
  /\ ~Waiting(w)
  /\ GoIdle(w)
  /\ UNCHANGED <<jobVars, tableVars, leaving>>

-----------------------------------------------------------------------------
(* Shutdown and crash of a daemon.                                         *)

Shutdown(w) ==
  /\ w \in Fragile
  /\ stage[w] # "gone"
  /\ w \notin leaving
  /\ leaving' = leaving \cup {w}
  /\ stage' = [stage EXCEPT ![w] = IF @ = "idle" THEN "gone" ELSE @]
  /\ UNCHANGED <<jobVars, tableVars, at, told>>

Crash(w) ==
  /\ w \in Fragile
  /\ stage[w] # "gone"
  /\ stage' = [stage EXCEPT ![w] = "gone"]
  /\ at'    = [at EXCEPT ![w] = None]
  /\ told'  = [told EXCEPT ![w] = "no"]
  /\ tail'  = {IF h.caller = w THEN [h EXCEPT !.caller = None] ELSE h : h \in tail}
  /\ UNCHANGED <<jobVars, pending, active, doomed, leaving>>

-----------------------------------------------------------------------------
(* Background tasks of the master.                                         *)

(* One tick of the staleness watcher fails the set J of jobs that have a   *)
(* stale run worker or an overdue preparation.                             *)
StalenessTick(J) ==
  /\ J # {}
  /\ \A j \in J : status[j] \in {"PREPARING", "RUNNING"}
  /\ status' = [j \in Jobs |-> IF j \in J THEN "FAILED" ELSE status[j]]
  /\ CleanupOnTerminal(J)
  /\ tail' = tail \cup {Rest("release", j, Assigned(j), None) : j \in J}
  /\ UNCHANGED <<slot, run, ready, opened, result, pending, active, doomed, workerVars>>

ManifestFails(j) ==
  /\ j \in reader
  /\ Live(j)
  /\ status' = [status EXCEPT ![j] = "FAILED"]
  /\ CleanupOnTerminal({j})
  /\ tail' = tail \cup {Rest("release", j, Assigned(j), None)}
  /\ UNCHANGED <<slot, run, ready, opened, result, pending, active, doomed, workerVars>>

ManifestEnds(j) ==
  /\ j \in reader
  /\ reader' = reader \ {j}
  /\ UNCHANGED <<status, slot, run, ready, opened, result, tableVars, workerVars>>

(* One GC tick selects terminal jobs past their retention under the jobs   *)
(* lock, drops the lock, and removes what it selected under it again.      *)
GcSelect(J) ==
  /\ doomed = {}
  /\ J # {}
  /\ \A j \in J : Terminal(j) /\ j \in Expiring
  /\ doomed' = J
  /\ UNCHANGED <<jobVars, pending, active, tail, workerVars>>

Erase(field, blank) == [j \in Jobs |-> IF j \in doomed THEN blank ELSE field[j]]

GcRemove ==
  /\ doomed # {}
  /\ status' = Erase(status, "collected")
  /\ slot'   = Erase(slot, [w \in Workers |-> Free])
  /\ run'    = Erase(run, {})
  /\ ready'  = Erase(ready, {})
  /\ opened' = Erase(opened, FALSE)
  /\ result' = Erase(result, [w \in Workers |-> "none"])
  /\ doomed' = {}
  /\ UNCHANGED <<reader, pending, active, tail, workerVars>>

-----------------------------------------------------------------------------

CliStep(j)    == CreateJob(j) \/ DeleteJob(j)
TailStep(h)   == Enqueue(h) \/ Dequeue(h) \/ Release(h) \/ LoseReply(h)
FetchJob(w)   == FetchReplay(w) \/ FetchAssign(w) \/ FetchNothing(w)
ReportReady(w) == \/ ReadyRefused(w) \/ ReadyCounted(w)
                  \/ ReadyErrorFails(w) \/ ReadyErrorIgnored(w)
ReportResult(w) == ResultCounted(w) \/ ResultIgnored(w)
LocalStep(w)  == \/ PreflightDone(w) \/ BarrierCancelled(w) \/ RunEnds(w)
                 \/ GiveUp(w) \/ Shutdown(w) \/ Crash(w)
WorkerStep(w) == \/ FetchJob(w) \/ ReportReady(w) \/ ProgressRefused(w)
                 \/ ReportResult(w) \/ LocalStep(w)
ReaderStep(j) == ManifestFails(j) \/ ManifestEnds(j)

Next ==
  \/ \E j \in Jobs : CliStep(j) \/ ReaderStep(j)
  \/ \E h \in tail : TailStep(h)
  \/ \E w \in Workers : WorkerStep(w)
  \/ \E J \in SUBSET Jobs : StalenessTick(J) \/ GcSelect(J)
  \/ GcRemove

Spec == Init /\ [][Next]_vars
-----------------------------------------------------------------------------
(* Properties.                                                             *)

QueuedJobs == {pending[k] : k \in 1..Len(pending)}

(* Job j still expects a result from worker w.                             *)
Owes(j, w) == Accepts(j, w) /\ result[j][w] = "none"

(* The worker indices of a job, which the workers use to split shards and  *)
(* seeds, are 0, 1, ... without gap or repetition, whatever replies were   *)
(* lost and whatever bindings were dropped (try_assign and the replay      *)
(* branch of fetch_job).                                                   *)
SlotsExact ==
  \A j \in Jobs :
    /\ {slot[j][w] : w \in Assigned(j)} = 0..(Filled(j) - 1)
    /\ Filled(j) <= Target[j]

(* The start barrier opened only for a full crew of which every member had *)
(* reported ready, and it was the same crew that the run was frozen with:  *)
(* comparing two set sizes in report_ready is enough.                      *)
BarrierExact ==
  \A j \in Jobs :
    opened[j] => /\ ready[j] = run[j]
                 /\ run[j] = Assigned(j)
                 /\ Cardinality(run[j]) = Target[j]

(* No worker is in its measured run, or past it, for a job whose barrier   *)
(* has not opened, although it may have been handed the job several times. *)
NoEarlyStart ==
  \A w \in Workers :
    stage[w] \in {"running", "reportOk", "reportFail"} =>
      opened[at[w]] \/ status[at[w]] = "collected"

(* COMPLETED means that every run worker delivered a success, and a job    *)
(* that is still RUNNING has lost nobody's failure (report_result counts   *)
(* results and compares the count with the size of run_workers).           *)
CompletionExact ==
  \A j \in Jobs :
    /\ status[j] = "COMPLETED" => \A w \in run[j] : result[j][w] = "ok"
    /\ status[j] = "RUNNING"   => /\ \A w \in run[j] : result[j][w] # "fail"
                                  /\ \E w \in run[j] : result[j][w] = "none"

(* A worker owes a result to at most one job at a time: the promise of     *)
(* worker_active_jobs.                                                     *)
OneJobPerWorker ==
  \A w \in Workers : \A i, j \in Jobs : Owes(i, w) /\ Owes(j, w) => i = j

(* A worker that owes a result stays bound to that job, so that a lost     *)
(* FetchJob reply is replayed: no clean-up of another job, however late,   *)
(* may take the binding away.  A daemon that is shutting down gives it up. *)
BindingKept ==
  \A w \in Workers : \A j \in Jobs :
    Owes(j, w) /\ w \notin leaving => active[w] = j

(* No PENDING job is lost from the queue: it is in it exactly once, or its *)
(* CreateJob has still to append it.                                       *)
PendingServed ==
  /\ \A j \in Jobs : status[j] = "PENDING" =>
        j \in QueuedJobs \/ \E h \in tail : h.op = "enqueue" /\ h.job = j
  /\ \A i, k \in 1..Len(pending) : pending[i] = pending[k] => i = k

(* Jobs are filled one after the other: a job that has some but not all of *)
(* its slots taken is the first PENDING job of the queue, so at most one   *)
(* job holds workers back while it waits for more.                         *)
OnePartialJob ==
  \A k \in 1..Len(pending) :
    status[pending[k]] = "PENDING" /\ Assigned(pending[k]) # {} =>
      \A i \in 1..(k - 1) : status[pending[i]] # "PENDING"

(* A job that reached a terminal state has no manifest reader left running *)
(* and never will have.                                                    *)
NoOrphanReader == \A j \in reader : status[j] \in {"PREPARING", "RUNNING"}

(* A verdict is final: a terminal job keeps its status until GC drops it,  *)
(* and the results it was aggregated from stay as they were, whichever     *)
(* late call, tick or reader error arrives.                                *)
VerdictFinal ==
  [][\A j \in Jobs : Terminal(j) =>
       \/ status'[j] = "collected"
       \/ /\ status'[j] = status[j]
          /\ result'[j] = result[j]
          /\ run'[j] = run[j]]_vars

(* Slots are only ever added, and only while the job is PENDING: nobody    *)
(* joins or leaves a crew that is being prepared or is running.            *)
CrewFrozen ==
  [][\A j \in Jobs :
       slot'[j] # slot[j] /\ status'[j] # "collected" =>
         /\ status[j] = "PENDING"
         /\ \E w \in Workers \ Assigned(j) :
              slot'[j] = [slot[j] EXCEPT ![w] = Filled(j)]]_vars

(* The scheduler implements the life cycle of a job: its crew is           *)
(* run_workers, and a member has succeeded when its success is recorded.   *)
CrewsOfSize(n) == {C \in SUBSET Workers : Cardinality(C) = n}

Lifecycle == INSTANCE JobLifecycle WITH
  Crews     <- [j \in Jobs |-> CrewsOfSize(Target[j])],
  phase     <- status,
  crew      <- run,
  succeeded <- [j \in Jobs |-> {w \in Workers : result[j][w] = "ok"}]

ImplementsLifecycle == Lifecycle!Spec

-----------------------------------------------------------------------------
(* Liveness.                                                               *)

(* Mutant: the workers are watched only while the job prepares.            *)
SilentPreparing(j) == status[j] = "PREPARING" /\ \E w \in run[j] : at[w] # j

(* A run worker that has gone away or turned to something else stops       *)
(* touching the job, and its last_seen age exceeds worker_staleness.       *)
Silent(j) == \E w \in run[j] : at[w] # j

StaleVerdict(j) == Silent(j) /\ StalenessTick({j})

(* prepare_timeout runs out for a job that stays in PREPARING.             *)
PrepareTimeout(j) == status[j] = "PREPARING" /\ StalenessTick({j})

(* The watcher task ticks for ever; a handler, a preparation, a running    *)
(* workload and a bounded series of attempts come to an end.  Two strong   *)
(* assumptions are about the environment: a worker that calls ReportReady  *)
(* or ReportResult again and again is heard in the end, and a preparation  *)
(* that is repeated for ever does not fail each time.  Without the second  *)
(* one a RUNNING job may hang: its worker gave up reporting, is handed the *)
(* job again, fails its preparation, has that error ignored and fetches    *)
(* again, and each FetchJob refreshes its last_seen.                       *)
Fairness ==
  /\ \A j \in Jobs : WF_vars(StaleVerdict(j)) /\ WF_vars(PrepareTimeout(j))
  /\ \A c \in Workers \cup {None} :
       WF_vars(\E h \in tail : h.caller = c /\ (Enqueue(h) \/ Dequeue(h) \/ Release(h)))
  /\ \A w \in Workers :
       /\ WF_vars(PreflightDone(w)) /\ WF_vars(BarrierCancelled(w)) /\ WF_vars(RunEnds(w))
       /\ WF_vars(ReadyErrorFails(w) \/ ReadyErrorIgnored(w) \/ GiveUp(w))
       /\ SF_vars(PreflightDone(w) /\ stage'[w] = "barrier")
       /\ SF_vars(ReadyCounted(w) /\ stage' # stage)
       /\ SF_vars(ReportResult(w))

FairSpec == Spec /\ Fairness

(* Every job that has its crew gets its verdict: nobody has to wait for    *)
(* ever on a barrier that does not open or on a result that does not come. *)
VerdictReached ==
  \A j \in Jobs : (status[j] \in {"PREPARING", "RUNNING"}) ~> ~Live(j)
=============================================================================
