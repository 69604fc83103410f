----------------------------- MODULE Measurement -----------------------------
(***************************************************************************)
(* The measured window of a job, from the start barrier to the summary.    *)
(*                                                                         *)
(* The master names a start time on its own clock.  Each worker estimates  *)
(* that clock from the replies it gets, and derives when to begin, when to *)
(* count and when to end.  Its operations take tokens from a bucket and    *)
(* are counted if they fall into the measured time.  What the workers      *)
(* report on the master's clock is put together when the job is over.      *)
(* Clocks run at the same rate; a worker is taken to have one task.        *)
(***************************************************************************)
EXTENDS Integers, FiniteSets, FiniteSetsExt

CONSTANTS
  Workers,
  Jobs,          (* what tasks do: the loop, "read", "stat" or "write", and *)
                 (* the tokens of an operation                              *)
  Warmup, Duration, Lead, (* of the job, and start_delay of the master      *)
  Jitter,        (* the longest round trip that corrects the clock          *)
  FetchDelays,   (* how late the reply to FetchJob may have come            *)
  Rate, Second,  (* tokens per tick, ticks per second                       *)
  Blocks,        (* blocks of a file that is read                           *)
  MaxTime, MaxAsks, MaxTroubles (* bounds: troubles are calls that fail,    *)
                 (* operations that fail, ends of the job and shutdowns     *)

Capacity == Rate * Second

ASSUME MeasurementAssumption ==
  /\ IsFiniteSet(Workers) /\ Workers # {}
  /\ Jobs \subseteq [kind : {"read", "stat", "write"}, need : Nat \ {0}]
  /\ {Warmup, Lead, Jitter, MaxTime, MaxAsks, MaxTroubles} \cup FetchDelays \subseteq Nat
  /\ {Duration, Rate, Second, Blocks} \subseteq Nat \ {0}

VARIABLES
  job,        \* what its tasks do
  now,        \* the time, as the master's clock shows it, never 0
  status,     \* of the job: "preparing", "running", "over"
  startAt,    \* start_at_ms, 0 before the barrier opens
  ready,      \* ready_workers
  results,    \* worker_results
  summary,    \* the aggregated result
  pc,         \* where each worker is
  sent, reply, asks, \* its call to ReportReady
  offset,     \* the master's clock as it believes it, less the time
  told,       \* its job_cancelled flag
  task, blocks, gate, \* its task
  tokens, refilled,  \* its bucket
  count,      \* its counters
  outcome,    \* what its runner returned, and then its result
  troubles,   \* bound
  joined, stopped, \* history: when the task began and ended
  early, late,     \* history: operations counted outside the measured time
  excess      \* history: the most tokens taken in a time that ends now,
              \* beyond what the rate yields in that time

masterVars == <<status, startAt, ready, results, summary>>
callVars   == <<sent, reply, asks, offset>>
taskVars   == <<task, blocks, gate, tokens, refilled, count>>
pastVars   == <<joined, stopped, early, late, excess>>
vars == <<job, now, masterVars, pc, callVars, told, taskVars, outcome, troubles, pastVars>>

NoReply   == [start |-> 0, stamp |-> 0, over |-> FALSE]
NoCount   == [ops |-> 0, errors |-> 0, samples |-> 0]
NoOutcome == [success |-> TRUE, start |-> 0, end |-> 0, duration |-> 0, count |-> NoCount]
NoSummary == [window |-> -1, misaligned |-> FALSE, count |-> NoCount, workers |-> 0]

Init ==
  /\ job \in Jobs
  /\ now = 1 /\ status = "preparing" /\ startAt = 0 /\ ready = {}
  /\ results = << >> /\ summary = NoSummary
  /\ pc = [w \in Workers |-> "polling"]
  /\ sent = [w \in Workers |-> 0] /\ reply = [w \in Workers |-> NoReply]
  /\ asks = [w \in Workers |-> 0]
  /\ offset \in [Workers -> {-d : d \in FetchDelays}]
  /\ told = [w \in Workers |-> FALSE]
  /\ task = [w \in Workers |-> "none"] /\ blocks = [w \in Workers |-> 0]
  /\ gate = [w \in Workers |-> FALSE]
  /\ tokens = [w \in Workers |-> 0] /\ refilled = [w \in Workers |-> 0]
  /\ count = [w \in Workers |-> NoCount] /\ outcome = [w \in Workers |-> NoOutcome]
  /\ troubles = 0
  /\ joined = [w \in Workers |-> 0] /\ stopped = [w \in Workers |-> 0]
  /\ early = [w \in Workers |-> 0] /\ late = [w \in Workers |-> 0]
  /\ excess = [w \in Workers |-> 0]

Lesser(a, b)  == IF a <= b THEN a ELSE b
Greater(a, b) == IF a >= b THEN a ELSE b

Trouble == troubles < MaxTroubles /\ troubles' = troubles + 1

(* Time passes; work that is to be done may be done late.                  *)
Tick ==
  /\ now < MaxTime /\ now' = now + 1
  /\ excess' = [w \in Workers |-> Greater(excess[w] - Rate, 0)]
  /\ UNCHANGED <<job, troubles, masterVars, pc, callVars, told, taskVars, outcome, joined, stopped,
                 early, late>>

-----------------------------------------------------------------------------
(* The barrier and the clock.                                              *)

Ask(w) ==
  /\ pc[w] = "polling" /\ ~told[w] /\ asks[w] < MaxAsks
  /\ pc' = [pc EXCEPT ![w] = "asked"]
  /\ sent' = [sent EXCEPT ![w] = now] /\ asks' = [asks EXCEPT ![w] = @ + 1]
  /\ UNCHANGED <<job, troubles, now, masterVars, reply, offset, told, taskVars, outcome, pastVars>>

(* ReportReady: the last worker opens the barrier.                         *)
ReportReady(w) ==
  /\ pc[w] = "asked"
  /\ pc' = [pc EXCEPT ![w] = "answered"]
  /\ ready' = IF status = "preparing" THEN ready \cup {w} ELSE ready
  /\ IF status = "preparing" /\ ready' = Workers
     THEN status' = "running" /\ startAt' = now + Lead
     ELSE UNCHANGED <<status, startAt>>
  /\ reply' = [reply EXCEPT ![w] = [start |-> startAt', stamp |-> now, over |-> status = "over"]]
  /\ UNCHANGED <<job, troubles, now, results, summary, sent, asks, offset, told, taskVars, outcome,
                 pastVars>>

(* The call or its reply is lost: once more after the back-off.            *)
CallFails(w) ==
  /\ pc[w] \in {"asked", "answered"} /\ Trouble
  /\ pc' = [pc EXCEPT ![w] = "polling"]
  /\ reply' = [reply EXCEPT ![w] = NoReply] /\ sent' = [sent EXCEPT ![w] = 0]
  /\ UNCHANGED <<job, now, masterVars, asks, offset, told, taskVars, outcome, pastVars>>

(* Mutant: the whole round trip is added.                                  *)
RefineFully(w) == IF now - sent[w] > Jitter THEN offset[w]
                  ELSE reply[w].stamp + (now - sent[w]) - now

(* refine_with: the master's clock was half a round trip ago what the      *)
(* reply says; a reply that took too long says nothing.                    *)
Refine(w) == IF now - sent[w] > Jitter THEN offset[w]
             ELSE reply[w].stamp + (now - sent[w]) \div 2 - now

Receive(w) ==
  /\ pc[w] = "answered"
  /\ offset' = [offset EXCEPT ![w] = Refine(w)]
  /\ pc' = [pc EXCEPT ![w] = IF reply[w].over THEN "left"
                             ELSE IF reply[w].start > 0 THEN "waiting" ELSE "polling"]
  /\ reply' = [reply EXCEPT ![w] = NoReply] /\ sent' = [sent EXCEPT ![w] = 0]
  /\ UNCHANGED <<job, troubles, now, masterVars, asks, told, taskVars, outcome, pastVars>>

(* The daemon shuts down or learns that the job is over.                   *)
Told(w) ==
  /\ pc[w] \in {"polling", "waiting", "working"} /\ ~told[w] /\ Trouble
  /\ told' = [told EXCEPT ![w] = TRUE]
  /\ UNCHANGED <<job, now, masterVars, pc, callVars, taskVars, outcome, pastVars>>

(* A worker that is told before it knows the start reports an empty time.  *)
LeaveBarrier(w) ==
  /\ pc[w] = "polling" /\ told[w]
  /\ pc' = [pc EXCEPT ![w] = "ended"]
  /\ outcome' = [outcome EXCEPT ![w] = [NoOutcome EXCEPT !.start = now + offset[w],
                                                         !.end   = now + offset[w]]]
  /\ UNCHANGED <<job, troubles, now, masterVars, callVars, told, taskVars, pastVars>>

-----------------------------------------------------------------------------
(* The time line, on the clock of the worker.                              *)

MeasureStart == startAt + Warmup
PlannedEnd   == MeasureStart + Duration
Local(t, w)  == t - offset[w]
Counts(w)    == now >= Local(MeasureStart, w)
Deadline(w)  == now >= Local(PlannedEnd, w)

(* interruptible_sleep until the start, then the task with a full bucket.  *)
Join(w) ==
  /\ pc[w] = "waiting" /\ (now >= Local(startAt, w) \/ told[w])
  /\ pc' = [pc EXCEPT ![w] = "working"]
  /\ task' = [task EXCEPT ![w] = "top"]
  /\ tokens' = [tokens EXCEPT ![w] = Capacity] /\ refilled' = [refilled EXCEPT ![w] = now]
  /\ joined' = [joined EXCEPT ![w] = now]
  /\ UNCHANGED <<job, now, masterVars, callVars, told, blocks, gate, count, outcome,
                 troubles, stopped, early, late, excess>>

-----------------------------------------------------------------------------
(* The task.  A read takes its tokens after each block, the others before  *)
(* the operation, and decide before it starts whether it counts.           *)

RunnerEnds(w, success) ==
  /\ pc' = [pc EXCEPT ![w] = "cleanup"]
  /\ task' = [task EXCEPT ![w] = "none"]
  /\ blocks' = [blocks EXCEPT ![w] = 0] /\ gate' = [gate EXCEPT ![w] = FALSE]
  /\ tokens' = [tokens EXCEPT ![w] = 0] /\ refilled' = [refilled EXCEPT ![w] = 0]
  /\ excess' = [excess EXCEPT ![w] = 0]
  /\ outcome' = [outcome EXCEPT ![w].success = success]
  /\ stopped' = [stopped EXCEPT ![w] = now]

Top(w) ==
  /\ pc[w] = "working" /\ task[w] = "top"
  /\ IF Deadline(w) \/ told[w]
     THEN RunnerEnds(w, TRUE)
     ELSE /\ task' = [task EXCEPT ![w] = IF job.kind = "read" THEN "io" ELSE "acquire"]
          /\ blocks' = [blocks EXCEPT ![w] = IF job.kind = "read" THEN Blocks ELSE 1]
          /\ UNCHANGED <<pc, gate, tokens, refilled, outcome, stopped, excess>>
  /\ UNCHANGED <<job, now, masterVars, callVars, told, count, troubles, joined, early, late>>

(* The manifest is exhausted.                                              *)
NoMoreFiles(w) ==
  /\ pc[w] = "working" /\ task[w] = "top" /\ job.kind \in {"read", "stat"}
  /\ RunnerEnds(w, TRUE)
  /\ UNCHANGED <<job, now, masterVars, callVars, told, count, troubles, joined, early, late>>

(* Mutant: the bucket is refilled beyond its capacity.                     *)
RefillUncapped(w) == tokens[w] + (now - refilled[w]) * Rate

Refill(w) == Lesser(tokens[w] + (now - refilled[w]) * Rate, Capacity)

(* acquire: a need beyond the capacity waits for a full bucket and leaves  *)
(* it in debt.  What an attempt in vain refills, the next one would.       *)
Acquire(w) ==
  /\ pc[w] = "working" /\ task[w] = "acquire"
  /\ Refill(w) >= Lesser(job.need, Capacity)
  /\ tokens' = [tokens EXCEPT ![w] = Refill(w) - job.need]
  /\ refilled' = [refilled EXCEPT ![w] = now]
  /\ excess' = [excess EXCEPT ![w] = @ + job.need]
  /\ task' = [task EXCEPT ![w] = IF blocks[w] = 0 THEN "top" ELSE "io"]
  /\ gate' = [gate EXCEPT ![w] = Counts(w)]
  /\ UNCHANGED <<job, now, masterVars, pc, callVars, told, blocks, count, outcome, troubles,
                 joined, stopped, early, late>>

InMeasure(w) == IF job.kind = "read" THEN Counts(w) ELSE gate[w]

Operation(w) ==
  /\ pc[w] = "working" /\ task[w] = "io" /\ ~(job.kind = "read" /\ told[w])
  /\ IF InMeasure(w)
     THEN /\ count' = [count EXCEPT ![w].ops = @ + 1, ![w].samples = @ + 1]
          /\ early' = IF Counts(w) THEN early ELSE [early EXCEPT ![w] = @ + 1]
          /\ late'  = IF Deadline(w) THEN [late EXCEPT ![w] = @ + 1] ELSE late
     ELSE UNCHANGED <<count, early, late>>
  /\ blocks' = [blocks EXCEPT ![w] = @ - 1]
  /\ task' = [task EXCEPT ![w] = IF job.kind = "read" THEN "acquire" ELSE "top"]
  /\ UNCHANGED <<job, now, masterVars, pc, callVars, told, gate, tokens, refilled,
                 outcome, troubles, joined, stopped, excess>>

(* A read looks at the flag after each block, and drops that block.        *)
ReadStops(w) ==
  /\ pc[w] = "working" /\ task[w] = "io" /\ job.kind = "read" /\ told[w]
  /\ RunnerEnds(w, TRUE)
  /\ UNCHANGED <<job, now, masterVars, callVars, told, count, troubles, joined, early, late>>

(* record_error, in the warm-up too; the runner ends.                      *)
OperationFails(w) ==
  /\ pc[w] = "working" /\ task[w] = "io" /\ ~(job.kind = "read" /\ told[w]) /\ Trouble
  /\ count' = [count EXCEPT ![w].ops = @ + 1, ![w].errors = @ + 1]
  /\ RunnerEnds(w, FALSE)
  /\ UNCHANGED <<job, now, masterVars, callVars, told, joined, early, late>>

-----------------------------------------------------------------------------
(* The result.                                                             *)

MeasureEnd(w) == Lesser(now + offset[w], PlannedEnd)

(* After the clean-up, which takes its time.                               *)
MakeResult(w) ==
  /\ pc[w] = "cleanup"
  /\ pc' = [pc EXCEPT ![w] = "ended"]
  /\ outcome' = [outcome EXCEPT ![w] =
       [@ EXCEPT !.start = MeasureStart, !.end = MeasureEnd(w), !.count = count[w],
                 !.duration = Greater(MeasureEnd(w) - MeasureStart, 0)]]
  /\ UNCHANGED <<job, now, masterVars, callVars, told, task, blocks, gate, tokens,
                 refilled, count, troubles, pastVars>>

(* Mutant: a worker that has counted nothing narrows the window.           *)
ContributorsAll(rs) == DOMAIN rs

Contributors(rs) == {w \in DOMAIN rs : rs[w].count.ops > 0 \/ rs[w].count.errors > 0}

(* compute_effective_window_ms: the length, and whether it is a makeshift. *)
Window(rs) ==
  LET C     == Contributors(rs)
      start == Max({rs[w].start : w \in C})
      end   == Min({rs[w].end : w \in C})
  IN  CASE C = {} -> [length |-> 0, misaligned |-> FALSE]
        [] Cardinality(C) = 1 ->
             [length |-> IF end > start THEN end - start
                         ELSE Min({rs[w].duration : w \in C}), misaligned |-> FALSE]
        [] OTHER ->
             IF end > start THEN [length |-> end - start, misaligned |-> FALSE]
             ELSE [length |-> Min({rs[w].duration : w \in C}), misaligned |-> TRUE]

SumOf(counts) == FoldSet(LAMBDA w, n : counts[w] + n, 0, DOMAIN counts)

(* Mutant: the counters of a worker that has failed are dropped.           *)
AggregateSuccessful(rs) ==
  LET ok == {w \in DOMAIN rs : rs[w].success}
  IN  [window |-> Window(rs).length, misaligned |-> Window(rs).misaligned,
       count  |-> [ops     |-> SumOf([w \in ok |-> rs[w].count.ops]),
                   errors  |-> SumOf([w \in ok |-> rs[w].count.errors]),
                   samples |-> SumOf([w \in ok |-> rs[w].count.samples])],
       workers |-> Cardinality(ok)]

(* aggregate: counters of all workers, latencies of those that succeeded.  *)
Aggregate(rs) ==
  [window |-> Window(rs).length, misaligned |-> Window(rs).misaligned,
   count  |-> [ops     |-> SumOf([w \in DOMAIN rs |-> rs[w].count.ops]),
               errors  |-> SumOf([w \in DOMAIN rs |-> rs[w].count.errors]),
               samples |-> SumOf([w \in DOMAIN rs |-> IF rs[w].success THEN rs[w].count.samples ELSE 0])],
   workers |-> Cardinality({w \in DOMAIN rs : rs[w].success})]

Verdict(rs) == status' = "over" /\ summary' = Aggregate(rs)

(* ReportResult: the first failure or the last success decides.            *)
ReportResult(w) ==
  /\ pc[w] = "ended"
  /\ pc' = [pc EXCEPT ![w] = "left"]
  /\ IF status = "running"
     THEN /\ results' = [v \in DOMAIN results \cup {w} |-> IF v = w THEN outcome[w] ELSE results[v]]
          /\ IF ~outcome[w].success \/ DOMAIN results' = Workers
             THEN Verdict(results') ELSE UNCHANGED <<status, summary>>
     ELSE UNCHANGED <<status, results, summary>>
  /\ count' = [count EXCEPT ![w] = NoCount] /\ outcome' = [outcome EXCEPT ![w] = NoOutcome]
  /\ told' = [told EXCEPT ![w] = FALSE]
  /\ offset' = [offset EXCEPT ![w] = 0] /\ asks' = [asks EXCEPT ![w] = 0]
  /\ joined' = [joined EXCEPT ![w] = 0] /\ stopped' = [stopped EXCEPT ![w] = 0]
  /\ UNCHANGED <<job, now, startAt, ready, sent, reply, task, blocks, gate, tokens, refilled,
                 troubles, early, late, excess>>

(* delete_job or the watcher, with the results there are.                  *)
EndJob ==
  /\ status # "over" /\ Trouble
  /\ Verdict(results)
  /\ UNCHANGED <<job, now, startAt, ready, results, pc, callVars, told, taskVars, outcome,
                 pastVars>>

-----------------------------------------------------------------------------
Next ==
  \/ Tick \/ EndJob
  \/ \E w \in Workers :
       \/ Ask(w) \/ ReportReady(w) \/ CallFails(w) \/ Receive(w) \/ Told(w) \/ LeaveBarrier(w)
       \/ Join(w) \/ Top(w) \/ NoMoreFiles(w) \/ Acquire(w)
       \/ Operation(w) \/ ReadStops(w) \/ OperationFails(w) \/ MakeResult(w) \/ ReportResult(w)

Spec == Init /\ [][Next]_vars

-----------------------------------------------------------------------------
(* Properties.                                                             *)

TypeOK ==
  /\ status \in {"preparing", "running", "over"} /\ ready \subseteq Workers
  /\ (startAt > 0) = (ready = Workers) /\ DOMAIN results \subseteq Workers
  /\ pc \in [Workers -> {"polling", "asked", "answered", "waiting", "working", "cleanup",
                         "ended", "left"}]
  /\ task \in [Workers -> {"none", "top", "acquire", "io"}]
  /\ blocks \in [Workers -> 0..Blocks] /\ gate \in [Workers -> BOOLEAN]
  /\ \A w \in Workers : tokens[w] <= Capacity /\ refilled[w] <= now

(* The time the task of w spent in the measured time, as a matter of fact. *)
Worked(w) == Greater(0, Lesser(stopped[w], Local(PlannedEnd, w))
                        - Greater(joined[w], Local(MeasureStart, w)))
InTime(w) == joined[w] <= Local(MeasureStart, w)

(* However late the replies came, no worker begins before the master's     *)
(* time by more than half the longest round trip it trusts.                *)
NoFalseStart ==
  \A w \in Workers : pc[w] = "working" /\ ~told[w] => joined[w] >= startAt - Jitter \div 2

(* A worker reports at least the time it worked and at most the duration;  *)
(* it reports exactly the duration if it began in time and went on to the  *)
(* deadline, whatever its clock.                                           *)
DurationHonest ==
  \A w \in Workers : pc[w] = "ended" /\ joined[w] > 0 /\ InTime(w) =>
    /\ outcome[w].duration \in Worked(w)..Duration
    /\ stopped[w] >= Local(PlannedEnd, w) => outcome[w].duration = Duration

(* No operation counts that ended before the measured time, and after it   *)
(* only those of the file that was under way.                              *)
OpsInWindow == \A w \in Workers : early[w] = 0 /\ late[w] <= Blocks

(* What a worker measures is what it says it measured.                     *)
MeasuredTruly == TypeOK /\ NoFalseStart /\ DurationHonest /\ OpsInWindow

(* In no stretch of time does a task take more tokens than the rate yields *)
(* in it and a full bucket, or one operation that exceeds the bucket.      *)
RateKept == \A w \in Workers : excess[w] <= Greater(Capacity, job.need)

(* The window of the summary is the time all contributors worked together: *)
(* it is as long as the shortest time one of them reports, it is flagged   *)
(* as soon as that is nothing and there are several.  The operations and   *)
(* errors of the summary are the sums over all recorded workers, those     *)
(* that failed included; its samples are the sum over those that succeeded *)
(* and never more than the operations without error, and if all succeeded  *)
(* every operation has its sample.                                         *)
WindowIsShared ==
  summary # NoSummary =>
    LET C  == {w \in DOMAIN results : results[w].count.ops > 0}
        ok == {w \in DOMAIN results : results[w].success}
    IN  /\ C = {} => summary.window = 0 /\ ~summary.misaligned
        /\ C # {} => summary.window = Min({results[w].duration : w \in C})
        /\ summary.misaligned = (Cardinality(C) > 1 /\ summary.window = 0)
        /\ summary.count.ops = SumOf([w \in DOMAIN results |-> results[w].count.ops])
        /\ summary.count.errors = SumOf([w \in DOMAIN results |-> results[w].count.errors])
        /\ summary.count.samples = SumOf([w \in ok |-> results[w].count.samples])
        /\ summary.count.samples <= summary.count.ops - summary.count.errors
        /\ summary.workers = Cardinality(DOMAIN results) =>
             summary.count.errors = 0 /\ summary.count.samples = summary.count.ops
=============================================================================
