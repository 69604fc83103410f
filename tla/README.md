# A specification of cvdbench

cvdbench is a distributed file-system benchmark: a master hands benchmark jobs
to worker daemons, starts them together, collects their results and shows the
progress to command-line clients. This directory holds TLA+ modules for the
parts of it that are concurrent, the TLC configurations that check them on
small instances, and theorems about them that TLAPS has checked.

`PROJECT.json` maps every definition to the source lines it stands for and
lists runs, mutants, findings, hazards and theorems. Paths below are relative
to `src/crates/`.

## 1. The system

| component | code | state | operations | hard because |
|---|---|---|---|---|
| scheduler and job state | `cvd-master/src/scheduler/`, `service/`, `state/`, `gc.rs` | `jobs`, `pending_queue`, `worker_active_jobs`, a mutex each | CreateJob, DeleteJob, FetchJob, ReportReady, ReportProgress, ReportResult; watcher tick; GC tick | handlers drop the jobs lock and finish their work on the other tables later; replies are lost; workers die at any point |
| daemon life cycle | `cvd-worker/src/lifecycle.rs` | current job, phase, flags `job_cancelled`, `unknown_job`, `shutdown_flag` | fetch, prepare, barrier, run, report; retries | flags are set by concurrent progress tasks and read at a few points only; retries are bounded |
| file manifest and queue | `cvd-master/src/manifest.rs`, `manifest/queue.rs`, `manifest/file_csv.rs` | bounded queue (deque and semaphore), `manifest_done`, cancel flag | reader task, FetchFileBatch | back-pressure, three separate reads decide `has_more`, abort while blocked |
| directory scan | `cvd-master/src/manifest/dir_scan.rs` | directory queue, `pending_dirs`, `reader_done`, `closed`, `Notify` | reader, N scanners, joining task | termination detection and wake-ups |
| event streams | `cvd-master/src/events.rs`, `events/subscriber.rs` | sequence counter, one bounded buffer per watcher | emit, subscribe with snapshot, evict, terminate | order of events against snapshots and the end of the stream |
| aggregation | `cvd-common/src/metrics/aggregate.rs` | none | sums, histogram merge, common window | the window is cut out of windows measured by different clocks, some of them empty |
| prebuild of the working set | `cvd-worker/src/prebuild*`, `runner/metadata.rs` | a tree of directories and files, batches of concurrent operations | layered build, read-only scan, clean-up | operations that were dropped are still carried out; two runners and a clean-up share the file system |
| workload runners | `cvd-worker/src/runner/` | flags `abort`, `cancelled`, `unknown_job`, a local buffer per runner | fetchers, I/O tasks, joins, report | tasks must all end whichever stops first; flags are read in few places |
| file I/O and content checks | `cvd-worker/src/fs_io*`, `runner/consistency.rs`, `runner/write.rs` | two bounded channels, a blocking thread, a running hash | open, read blocks, forward, hash, compare; write, read back | producer and consumer end independently; the order and the coverage of the blocks decide what is compared |
| back-off, clock, rate limit | `cvd-worker/src/{backoff,clock,rate_limit}.rs` | current delay, clock offset, tokens | next_delay, refine_with, acquire | replies are late by different amounts; a bucket may go into debt |
| specification, parsing, path safety | `cvd-common/src/` | none | parse, validate, redact, validate_relative | applied twice, before and after the redaction; what passes must be feasible for every worker |
| CLI commands and signals | `cvd-cli/src/cmd*`, `signal.rs` | position of the session, its stream | create, watch, Ctrl+C with a prompt, cancel, query, poll | nothing is read while the prompt is open; the stream may end for four reasons |
| display, output, configuration, metrics endpoint, identity, generated code | `cvd-cli/src/{display,output}*`, `cvd-master/src/{config,metrics}.rs`, `cvd-worker/src/{id,client}.rs`, `cvd-proto` | – | – | not modelled: I/O, formatting, plumbing |

Interaction: workers only ever call the master (FetchJob, ReportReady,
FetchFileBatch, ReportProgress, ReportResult) and learn of a cancellation or of
a vanished job from the replies. CLI clients call CreateJob, DeleteJob,
QueryJob, ListJobs and WatchJob, a server stream. Inside the master all handlers
and the background tasks share the three tables; a manifest reader task per job
feeds a bounded queue that FetchFileBatch drains, and every change of a job is
sent to its watchers.

What makes each part correct:

* scheduler: slot indices exact, a worker in at most one job, no late clean-up
  takes a live binding away, jobs served first come first served, the barrier
  opens for a full and ready crew only, verdicts exact and final, readers ended
  with their job, every staffed job gets a verdict;
* daemon: no run before the barrier, no result for a job it was told is unknown;
* manifest and queue: bounded, nothing lost or doubled, `has_more = false` only
  when all is delivered, reader ends when its job does;
* directory scan: every directory scanned once, the scan ends, an error is reported;
* event streams: increasing sequence numbers, nothing after the terminal event,
  no watcher left behind;
* runners: a failure is reported, every file that was handed out is handled once,
  an unknown job is abandoned, and everything ends after a flag or the deadline;
* file I/O: what passes a content check is the content, what fails it is not, and
  every read returns;
* working set: what the master accepts every worker understands and can build,
  no operation fails without a cause outside the system, the set stands from the
  barrier to its removal, and nothing of it is left after a sound run;
* clock, rate limit, aggregation: no worker begins before the master says so by more
  than the error of its clock, what it reports is what it measured, no task passes
  more than its rate, the divisor of the rates is the shortest time a contributor
  reports, and the counters are the sums over all recorded workers, failed ones
  included;
* CLI: a session reads the history, reports only the verdict, and ends.

## 2. The modules

| module | stands for | proofs in |
|---|---|---|
| `JobLifecycle` | what a job promises: created, staffed once with a whole crew, started, one verdict, collected | – |
| `Scheduler` | handlers and background tasks of the master that change the three tables, and the daemon as their client | `SchedulerProofs` |
| `SchedulerInv` | the inductive invariant `IInv` of `Scheduler` | `SchedulerProofs` |
| `FileFeed` | what a manifest promises: files go out in order, once, until the end is announced | – |
| `ManifestQueue` | the CSV reader, the bounded queue, `FetchFileBatch` | `ManifestQueueProofs` |
| `DirScan` | the directory scan behind the same queue | `DirScanProofs` |
| `JobLog` | what watching a job promises: its log, entry by entry, from a point on | – |
| `EventStream` | `WatchJob`: numbering, broadcast, eviction, snapshot, end | `CliSessionProofs` |
| `CliSession` | `create` and `watch` of the command line, composed with `EventStream` | `CliSessionProofs` |
| `JobSpec` | parsing, validation and redaction of a specification, as operators | `WorkingSetProofs` |
| `WorkingSet` | the trees a worker makes for the specifications of `JobSpec`, works in and removes | `WorkingSetProofs` |
| `Measurement` | barrier, clocks, phases, token bucket, counting and aggregation, in integer time | `MeasurementProofs` |
| `FileWork` | what a worker promises about the files it is given: each waits, is in one hand, is handled once, and is dropped only in trouble | – |
| `Workload` | preflight, the four runners, their fetchers and the report of one worker | `WorkloadProofs` |
| `FileIO` | one file: streamed read and comparison, or write and read back | `FileIOProofs` |
| `MC*` | finite instances for TLC, nothing else | – |

**Scheduler.** A handler is one step for as long as it holds the jobs lock. What
it does to `pending_queue` and `worker_active_jobs` after dropping the lock is a
record in `tail`, and executing it is a step of its own. Each call of a worker
is the pair "the master applied it" and "the reply arrived, or did not": a lost
reply is a stutter of the worker's state after the master has changed. Time is a
choice: a run worker may be found stale, a preparation overdue, a job past its
retention at any moment. `at`, `stage`, `told` and `leaving` are the worker's
position in `run_assigned_job`, its two flags (set together or not at all) and
its shutdown flag. What a worker measures, the phases and `last_seen` are not
in the model.

**ManifestQueue.** `permits` is the semaphore, `queue` the deque; a push is
`Acquire` and `Insert`, a drain is `Drain` and `GiveBack`; `LookDone` and
`LookEmpty` are the two reads after the drain from which `has_more` is computed.
`Aborted` is the abort of the reader task where it next waits. For `FileFeed` a
file has gone out when it is drained, and the end is announced when `LookEmpty`
has decided on `has_more = false`; the reader, its slots and flags are not seen.

**DirScan.** The `Notified` future is modelled with tokio's rule: it is made
under the lock (`armed`), takes a kept permit or goes to sleep when it is
polled, and `notify_one` without a sleeper leaves at most one permit. The change
of the queue and the notification after it are merged into one step: nobody else
can take a wake-up away by running in between, since a later notification only
wakes more. `main` joins the reader and then the scanners in their order.

**EventStream.** Drawing the number, offering the event to one watcher after the
other and the eviction afterwards are separate steps under the jobs lock;
`closing` holds the jobs whose handler has still to call `terminate`. Payloads
are reduced to number and kind. For `JobLog` an event is in the log when its
broadcast begins, a log is complete when its job is over and the last broadcast
has begun, and only what the client has received was shown; buffers, registry
and evictions are not seen, except that a reader may be cut off at any moment.

**CliSession.** Extends `EventStream`: a session calls its `CreateJob`, `WatchJob`,
`Receive`, `StreamEnds` and `Leave`, and everything else that happens to jobs is
`Master`. `step` is the position in `create.rs`, `watch.rs` and `cmd.rs`; while it
is `prompt` nothing is read. Any call may fail (`CallFails`, `StreamBreaks`);
`cut` remembers it, so that an error can be told from one without a cause.

**JobSpec.** A field that is text holds what its parser makes of it: a number,
`Unset` or `Garbage`. `Accepts` is what `create_job` does, `Stored` what the
master keeps after the redaction, `Understood` what a worker makes of that.
`Buildable` is the part of the validation that must guarantee that every
operation finds something to work on.

**WorkingSet.** The file system is a set of paths and every operation on it has
its real precondition (the parent exists, the name is free, the directory is
empty). A batch of the layout has `todo` and `flying` operations; when one fails
the others are dropped, but what was handed to the file system is carried out as
an orphan, possibly during the next preparation of the same slot. The two
runners work in the trees, the write runner removes its own, and the worker
removes the metadata tree.

**Measurement.** Time is an integer and passes by `Tick`; urgent steps are not
delayed beyond what the code's timers allow. A worker's clock is an `offset` that
each reply of the barrier refines if its round trip was short. The bucket is
exact; `excess` is the most that was taken in any time that ends now beyond
what the rate yields, so that `RateKept` speaks of all intervals at once. A stat
and a write decide after they have their tokens, before the operation, whether it
counts (`gate`), a block that is read when it is there (`InMeasure`).

**Workload.** The read, manifest-stat, metadata and write runners share the
flags. `TaskTop` is the only place where a task looks at the deadline; `TaskRecv`
and `FetcherSends` wait without looking at anything. Read and stat of one job
draw from the same manifest, as the master has one queue per job. The order in
which whole runners are joined decides only whose text is reported, and is left
out. For `FileWork` a file waits while it is in the buffer or in the batch of a
fetcher (`Line`), is in hand while a task of a fetching runner is at `op`, `after`
or `compare` with it, trouble is one of the flags `abort` and `cancelled`, and the
verdict is what `main` ended with; fetchers, capacities and joins are not seen.

**FileIO.** Hashes are the byte sequences. The start of an unaligned range and
the shuffle, which the code derives from path and length, are arbitrary. A read
may return fewer bytes than asked, and so may the single `pread` of a direct read,
which goes on where it ended. `damaged` remembers whether the file system lost
anything, so that an alarm can be told from a false one. The file does not change
while it is read.

### How the modules fit together

`Scheduler` sees a workload as one step that succeeds or fails (`RunEnds`);
`Workload` opens that step up and sees the master as one variable that may turn
`cancelled` or `gone`. `Workload` sees a read as one step (`ReadFile`, with the
flags looked at again in `AfterRead`), which `FileIO` opens up. `Scheduler` has
for a manifest reader only that it lives, ends or fails; `ManifestQueue` and
`DirScan` are what happens inside, and see of the job only when it starts and
ends. `EventStream` sees of a job that it is live, over and gone, and
`CliSession` is composed with it. `WorkingSet` builds what `JobSpec` accepts.
`Measurement` opens up the barrier and the run of `Scheduler` in time.
`Scheduler` implements `JobLifecycle`, `ManifestQueue` implements `FileFeed`,
`Workload` implements `FileWork`, and `EventStream` implements `JobLog`, also when
it is driven by `CliSession`. The other interfaces are these few events and are not
checked in composed modules (see section 8).

## 3. What is checked

Passing runs (all explored exhaustively):

| run | instance | shows |
|---|---|---|
| `two_jobs` | two workers; a job that needs both, one that needs a single worker; one job expires | `SlotsExact`, `OneJobPerWorker`, `BindingKept`, `PendingServed`, `OnePartialJob` |
| `one_job` | three workers, all fragile, a job for two of them with a manifest reader that may fail, GC | `IInv` (with the type invariant in it), `BarrierExact`, `NoEarlyStart`, `CompletionExact`, `NoOrphanReader`, `VerdictFinal`, and that `Scheduler` implements `JobLifecycle` |
| `liveness` | a job of two workers, one of them fragile | `VerdictReached` |
| `cli_session` | one job, two sessions of which one creates it, buffers of two, five events, one poll | `HistoryFaithful`, `NobodyLeftBehind`, `ReportIsFinal`, `EndMeansOver`, `SessionsEnd`, and that the streams implement `JobLog` (`ImplementsLog`) |
| `dir_scan` | three scanners, a tree of three directories, a file queue of one, looping, two directories and the manifest may be bad | `CountsExact`, `NobodyLeavesEarly`, `PassComplete`, `SomebodyLooks`, `ScanEnds` |
| `manifest_queue` | three files, read once or twice, a queue of two, batches of two, two callers | `QueueOK`, `FeedEnds`, `ReaderStops`, and that the queue implements `FileFeed` (`ImplementsFeed`) |
| `workload` | two tasks per runner, a buffer of one, batches of two, three files; read with comparison, stat, metadata beside write | `ReportIsTrue` (with `EveryFileHandled` in it), `WorkloadEnds`, and that the workload implements `FileWork` (`ImplementsWork`) |
| `file_io` | files of 0, 1, 3 and 6 bytes in blocks of two, all six legal I/O profiles, channels of two and one | `FileSound`, `AlarmIsTrue`, `ReadEnds` |
| `working_set` | 169 specifications, of which the master accepts 44, one with a directory that two runners share; trees of at most six directories and six files, one failing operation, two deliveries of the slot | `FailsForACause`, `SetStands`, `RunLeavesNothing` |
| `measurement` | two workers whose clocks start three ticks off, two calls each, replies that take any time, a tick each of start delay, warm-up and measured time, a bucket of two, one trouble; a read, a stat, or a write that needs three tokens | `MeasuredTruly`, `RateKept`, `WindowIsShared` |

Every module that is checked has a type invariant, as a conjunct of a deeper
property: of `IInv`, `HistoryFaithful`, `CountsExact`, `QueueOK`, `ReportIsTrue`,
`FileSound`, `SetStands` and `MeasuredTruly`. Every
property has a mutant: a definition of the model changed as a plausible bug in
the code would change it, which makes TLC find the property violated. Mutants
stand in the modules before the definition they replace, marked as such, and no
behaviour uses them.

Deadlock is checked where the system runs for ever (`liveness`, `two_jobs`);
elsewhere it is switched off because the modelled part really ends: a manifest
is read, all calls have been answered, a worker has reported, all daemons of a
small instance are gone.

### Bounds and why they are enough

* `Workers`, `Jobs`, `Target`: two jobs contend for two workers in `two_jobs`,
  which is the least that makes head-of-line blocking, a binding to the wrong
  job and a partial crew possible; in `one_job` a third worker can be refused,
  be late, or take the place of nobody. The theorems hold for all sizes.
* `Fragile`, `Expiring`, `ManifestJobs` name the workers that may crash or leave,
  the jobs whose retention ends, and those with a reader. They keep each run
  small; each hazard is switched on in some run, all of them in `one_job`.
* `MaxEvents` = 5 numbers, buffer 2: a watcher can get its snapshot, be filled
  up and be evicted, and events come after that. `MaxPolls` = 1: a session polls
  and gives up. The theorems hold for any number of jobs, sessions and polls.
* `MaxPasses` = 2: a looped manifest is started over once, after which the state
  of the reader repeats but for history.
* `Capacity`, `Batch`: smaller than the number of files, so that push and drain
  wait for each other. `NFiles` = 3 leaves one more file than a batch.
* `N`: three scanners are the least for "one fails, one leaves, one sleeps"; two
  tasks are the least for "one fails while the other waits". N is otherwise the
  same code N times.
* `Protos`: six specifications whose runners interleave, and those that differ
  from a sound one in one field or one pair of fields that the validation
  compares. What the theorems are about is every set of them. `SmallCaps` (depth 2, width 3, 2 files, 6 directories, 6 files in all)
  lets layouts lie below, at and above every cap. `MaxFaults` = 1, `MaxRounds` = 2:
  a preparation fails and is repeated over what it left. `MaxNew` = 1 entry per
  task: one file to find and one to remove.
* `MaxTime`, `MaxAsks`, `MaxTroubles`: time begins at 1, so that a start time of 0
  means none; long enough for barrier, warm-up, measured
  time and clean-up of both workers, with two calls each; one call, operation or
  job may fail.
* `Lengths`, `BlockSize`, `ChannelCap`, `SyncCap`: an empty file, one shorter than
  a block, one that is not a multiple and one of three blocks. `file_io` has
  channels smaller than the number of events; `direct_hang` has the capacities
  of the code, 4 and 2, and a file of eight blocks, which together must not fit.

### Fairness and what justifies it

* Handlers, background tasks and tasks of the runtime are weakly fair: tokio
  polls a ready task eventually.
* `Scheduler`: a worker that calls again and again is heard in the end (strong
  fairness of `ReadyCounted` and `ReportResult`), as the daemon retries for ever;
  and a preparation that is repeated for ever does not fail each time. The
  second is an assumption about the environment that the code does not
  establish: without it a worker that could not deliver its result is handed the
  RUNNING job again, fails its preparation, has that error ignored
  (`ready.rs:45`) and fetches again, and each fetch refreshes its `last_seen`, so
  that the watcher never finds it stale.
* `CliSession`: a session keeps asking, answers its prompt and reads in the end
  (strong fairness of `ReadItem` and `EndOfStream`: the `select` prefers Ctrl+C, so
  this assumes that the user does not press it again before every event), and
  what the master does under its locks is weakly fair.
* `DirScan`: the file queue is drained, which the workers of a live job do.
* `ManifestQueue`: replies get through now and then.
* `Workload`, `FileIO`: calls and file operations return, with or without
  success. The code sets no RPC timeout, so a call that hangs hangs its fetcher.

## 4. What is proved

All theorems hold for every value of the constants that the named assumptions of
the modules allow; TLC evaluates these assumptions in every run.

| module | theorem | states |
|---|---|---|
| `SchedulerProofs` | `Invariance`, `TypeCorrect` | `Spec => []IInv`, `Spec => []TypeOK` |
| | `SlotsAreExact`, `BarrierIsExact`, `NobodyStartsEarly`, `CompletionIsExact`, `BindingsAreExact`, `BindingsAreKept`, `ReadersAreOwned` | the invariants `SlotsExact`, `BarrierExact`, `NoEarlyStart`, `CompletionExact`, `OneJobPerWorker`, `BindingKept`, `NoOrphanReader` |
| | `VerdictsAreFinal`, `CrewsAreFrozen` | two action properties |
| | `LifecycleImplemented` | `Spec => Lifecycle!Spec`, the refinement of `JobLifecycle` |
| | `PendingIsServed`, `PartialIsFirst` | the invariants `PendingServed`, `OnePartialJob` of the queue |
| `ManifestQueueProofs` | `QueueIsOK`, `OrderIsKept`, `EndIsTrue` | `QueueOK`; the files drained and queued are those read, in order (`OrderKept`); `has_more = false` is true (`ExhaustedIsTrue`) |
| | `FeedImplemented` | `Spec => Feed!Spec`, the refinement of `FileFeed` |
| `DirScanProofs` | `CountIsExact`, `NobodyIsEarly`, `SomebodyIsLooking`, `PassIsComplete` | `CountsExact`, `NobodyLeavesEarly`, `SomebodyLooks`, `PassComplete` |
| `CliSessionProofs` | `StreamsAreFaithful`, `NobodyIsLeft` | `StreamFaithful`, `NobodyLeftBehind` of `EventStream` alone |
| | `StreamsImplementLog`, `SessionsImplementLog` | `Spec => Log!Spec` and `SessionSpec => Log!Spec`, the refinement of `JobLog` |
| | `SessionsReadHistory`, `NoSessionIsLeft`, `ReportsAreFinal`, `EndsMeanOver` | `HistoryFaithful`, `NobodyLeftBehind`, `ReportIsFinal`, `EndMeansOver` |
| `WorkloadProofs` | `ReportIsTrueAlways`, `NoFileIsLost` | `ReportIsTrue`, and alone its part `EveryFileHandled` |
| | `WorkImplemented` | `Spec => Work!Spec`, the refinement of `FileWork` |
| `MeasurementProofs` | `RateIsKept`, `WhatIsMeasuredIsTrue`, `TheWindowIsShared` | `RateKept`, `MeasuredTruly`, `WindowIsShared` |
| `FileIOProofs` | `ChecksAreSound`, `AlarmsAreTrue` | `FileSound`, `AlarmIsTrue` |
| `WorkingSetProofs` | `FailuresHaveACause`, `SetAlwaysStands`, `NothingIsLeft` | `FailsForACause`, `SetStands`, `RunLeavesNothing` |
| | `AcceptedIsUnderstood` | what `create_job` accepts, every worker accepts after storage and redaction, with credentials exactly if it needs them |

The arguments.

*Scheduler.* None of the invariants is inductive alone. That slot numbers do
not repeat needs that a worker which owes a result gets a replay and not a
second slot, that is `BindingKept`; this survives a late clean-up (`tail`) only
because the workers it lists owe that job nothing (`TailInv`), which in turn
needs what a worker that reports or fails believes about its job (`BeliefInv`)
and what a record says in each status (`RecordInv`, by `BlankOK`, `CrewOK`,
`VerdictOK`). `DoomedInv` says that GC has selected only jobs with a verdict.
`IInv` is the conjunction. The proof goes by the actions: those of the master's
tables, of the worker, and of the background tasks, each against the parts it
can disturb; cardinality facts about slots are lemmas. The action properties and
the refinement follow from `IInv` and one look at each action.

*The pending queue.* `QueueInv` adds to `PendingServed` and `OnePartialJob` that a
job is announced once, before it is queued and before anybody can have fetched
it (`AnnouncedOnce`), and that only a cancelled job is taken from the middle
(`LeaversOver`). The work is in the positions: what a queue is after one place is
cut out.

*ManifestQueue.* What went out and what is queued together, `Out`, only grows at
its end; `PassAligned` ties its length modulo the length of the manifest to the
line the reader is at, from which the order of files follows. `EndInv` says what
`done`, `open` and `cancel` are worth and what each caller knows between its
separate reads (`FlagsMean`, `CallsMean`), so that `has_more = false` is true.
The bound on the queue is a balance of slots: free permits, queued files, the
reader's permit and those that callers have drained and not given back (`Owing`)
are together the capacity. A drain moves as many slots from the queue to `Owing`
as it takes files, which is a fact about cardinalities of sets of pairs. The
refinement of `FileFeed` needs both, and that a caller holds nothing before it drains
(`HandsOK`): a drain is `Give`, since the first files of the queue are the next ones of
`Out`, and nobody drains after `has_more = false`, since the queue stays empty.

*DirScan.* `ScanInv` ties what each scanner holds to its stage (`HeldOK`) and
Notify's queue to those asleep; that nobody leaves early follows from the count,
since a count of zero means an empty queue and no holder. For `SomebodyLooks` the
crucial facts are that `notify_one` without a sleeper leaves a permit, and that
only a scanner that found the queue empty arms itself. `PassComplete` needs an
accounting: as long as nothing has gone wrong (`Good`), for each directory the
scans made, its places in the queue and the scanners that hold it are together
as many as the lines read that list it, the scans of the directory above it, and
the running scans that have met it (`Balanced`). At the end of a pass queue and
holders are empty, which leaves the property; `JoinedOK` says what the joining
task knows by then.

*EventStream.* What a watcher was delivered (read and buffered) is compared with
the history of its job. `StreamInv` says what the event under way may still find
(`EmitOK`), that registry and streams agree, that no number is larger than the
counter, and that the last word is the last. For the refinement of `JobLog` a stream
that is still read is `Legible`: it begins with its snapshot, and what it holds beside
the word of an eviction is in the log and leaves out nothing in between, even if it is
evicted later. So what is received is the least entry not shown yet; a stream that
ends without eviction has no gap (`NoGap`), and its log is complete. *CliSession.* Each session step is
a step of `EventStream` or leaves it alone, so `StreamInv` carries over; `Link`
says what a session knows in each position.

*Workload.* For the report, `FailuresSeen` says that the first error of a runner is
that of a task it has joined, and that a workload that is over has joined all.
For the files, the buffer and the batch of a fetcher are one line (`Line`): a send
leaves it as it is, a receive takes its head, a reply extends it by numbers not
given out before. Each file is then in one place (`LineOK`, `LinesApart`, `HeldOK`,
`HeldApart`), a step moves none, gives some, or takes or finishes one (`NoneMoves`,
`Given`, `Takes`, `IsDone`), and `Drained` says that nothing stopped means nothing
left behind: a task ends only after its fetcher, with the buffer empty, and a
fetcher whose receivers are gone would need a failed one, which raises `abort`. For
the refinement of `FileWork`, `NoneMoves` is a stutter or an interruption that drops
what is no longer in hand, `Given`, `Takes` and `IsDone` are `Give`, `Take` and
`Handle`; that `main` may report a success only in the absence of trouble needs
`FlagsMean`: `abort` is raised for a failed task or with `cancelled`, `unknown` only
with `cancelled`, and a failure that was joined has raised `abort`, even one of the
metadata runner, whose task does not raise it.

*Measurement.* What was taken beyond the rate is at most what is missing in the
bucket (`BucketExact`). `WorkersOK` says per worker how far
its clock may run ahead (`ClockOK`: half of the longest round trip it trusts), what
it knows in each stage, that what counts too late is the rest of a file begun in
time (`TaskOK`), and what its result says of when it began and stopped. From it
follow that nobody begins early beyond that error and that a reported duration
covers the time worked. `WindowIsShared` is about all reports: each contributor's
window ends at its duration after the common start, so the common one is as long as
the shortest. That the samples of the summary, which the code sums over all reports
with nothing for a failed worker, are the sum over those that succeeded needs
that a sum does not depend on the order in which the fold picks its terms
(`SumRemoves`) and that terms which are 0 may be left out (`SumOfSome`); that they do
not exceed the operations without error, that sums compare as their terms do
(`SumsCompare`). The window rests on least elements. All by induction on subsets.

*FileIO.* For `FileSound`, the ranges read are pieces of the file and what the
pipeline carries are bytes of it (`JobType`, `FlowType`), and a check passes only over
equal sequences (`OkIsEqual`). For `AlarmIsTrue`, what is in flight (the channel, the event the
forwarder holds, the second channel, the event the thread holds) is one sequence
`Flow`, and `Pipe` says that there are positions which cut the rest of the file
into its events in order, after the bytes that were hashed, up to the end or to an
error. Moving an event along leaves `Flow` alone, the producer appends a piece, the
consumer takes the first; so the hash of a flow that ended is that of the file.
That the blocks of a writer cover its file is division with remainder.

*JobSpec.* Field by field, redaction keeps what parsing and validation look at.

*WorkingSet.* `SetInv` has thirteen parts. The trees of the two runners and the
one that is scanned have different roots (`TreeOK`), so that a step in one leaves
the others as they are. A layout is made batch by batch: what has been done is all
earlier batches and those of the current one that nobody waits for (`MakingOK`), and
without a leftover nothing else is there, so no operation finds its name taken or
its parent missing. Dropped operations exist only after a preparation that has
failed or over a leftover (`OrphansOK`). Names made by a task carry its count
(`BuiltOK`), so they are new. A scan without a limit has every entry below a visited
directory in what was found or is to be looked at (`ScanOK`); when nothing is left it
has found everything, by induction on the length of a path. In a removal every child
of a directory that was expanded is above it on the stack or still to be looked at
(`SweepOK`), so a directory is empty when it is removed and the root goes last. That
the sizes are those the validation computed is an induction over the layers.

On induction. The library's induction theorems take an operator, which the
provers cannot instantiate. Where a proof needs induction, `Counting` (numbers) and
`SubsetInduction` (subsets of a finite set) state it for a set `P` instead of a
predicate; both are proved from well-foundedness. With them the recursive functions
`Layers` and `TotalDirs` and the folds of the aggregation can be reasoned about.

Every safety invariant, action property and refinement that a run checks is proved. The
assumptions are those on the constants: positive capacities, sizes and numbers of
tasks, finite sets of workers and callers, a tree that is a tree (`Existing`), and
in `WorkingSet` that clients send messages of the type `BenchSpec`.

Only model-checked: the liveness properties `VerdictReached`, `SessionsEnd`, `ScanEnds`,
`FeedEnds`, `ReaderStops`, `WorkloadEnds` and `ReadEnds` (fairness and `ENABLED` are beyond
the prover), and the violations of section 5.

## 5. Findings

Two runs are expected to find a violation, each of one property that states
what a comment or the specification says. Details, with the quoted lines, are in
`PROJECT.json`.

* `dir_scan_fail_fast`: the error of a scanner may never be reported. Two pushes
  before two scanners poll leave one permit; the scanner that takes it fails,
  the other sleeps, and the joining task waits for the sleeper first
  (`dir_scan.rs:234`).
* `direct_hang`: a `direct_io` read that is stopped with enough blocks left never
  returns. The forwarder waits for the thread, the thread for room in a channel
  that only the forwarder empties (`fs_io.rs:100`).

Further observations, made while modelling and allowed by the models:

* An unaligned sequential write skips the head of the file (`fs_io.rs:483`, `:356`,
  against the test at `fs_io.rs:597`), so that the verification after it fails on a
  sound file system. Reads in `rand` or unaligned mode hash the blocks shuffled or
  without the head, and a short read of a range is not continued, so that the
  comparison with the S3 object may report a mismatch of equal contents.
  `AlarmIsTrue` is about the other modes.
* A job that reads with `s3_consistency_check` and has `metadata.dir_manifest`
  compares nothing (`lifecycle.rs:649` against its comment at `:663`).
* `ready.rs:45` ignores a preparation error of a job that is still PENDING, while
  its comment takes for granted that the job is RUNNING or terminal and
  `master.proto:203` promises FAILED. The worker fetches the same slot again.
* `lifecycle.rs:377`: a worker that is told `unknown_job` while it prepares goes on
  to report "cancelled", against `lifecycle.rs:291` and `spec.md:976`.
* `events/subscriber.rs:75`: the ResourceExhausted status of an evicted watcher is
  offered to the buffer that was just found full, and is usually lost.
* `dir_scan.rs:76`: when a job ends, a scanner may stay asleep for ever, as the
  aborted joining task no longer closes the directory queue.
* `file_csv.rs:61`: a reader that is cancelled within a pass sets `manifest_done`,
  against line 9 of the same file.
* `read.rs:100`: the error that is reported is the one of the lowest task, not the
  first that raised abort, as `spec.md:963` says. A task that panics is logged,
  raises abort and counts as no error, so its runner reports a success.
* `read.rs:222`: a task that waits for a file when the deadline passes still reads
  one, against `spec.md:871`.
* Preparation: a working set is not removed when the job is cancelled or unknown at
  the barrier or the preflight fails (`lifecycle.rs:367` to `400` against `spec.md:834`,
  `836` and `976`); a preparation repeated over what is left then fails with EEXIST.
* `write.dir` equal to `metadata.dir` is accepted; the clean-up of the write runner
  then removes the metadata tree under its tasks (`MCWorkingSet.SharedDirs` shows
  it). A write directory inside a scanned tree is not modelled.
* A read-only scan with a limit may return directories only, and a job that needs
  files then has nothing to work on; the check for a layout without directories
  can never fail.
* `validate.rs:81` and `spec.rs:16` say that the master can override the layout caps;
  both sides always use the defaults.
* `rate_limit` is applied to every task and not to a worker (`rate_limit.rs:1` against
  `spec.md:181`, `198`, `214`, `849`), and waiting for tokens looks at neither the
  deadline nor a flag.
* The watcher looks at workers that have reported (`staleness.rs:129`), and the
  progress task is aborted before the clean-up, so that a long clean-up can make a
  healthy job stale. The end of the measured time is taken after the clean-up
  (`lifecycle.rs:475` to `497`): the duration of a worker that stops early includes it.
* Aggregation: an error is counted in the warm-up too, so that a worker that fails
  there makes the window empty, its divisor 1 ms and the rates enormous, which
  `aggregate.rs:51` means to avoid; the counters of a worker that ran longer are
  divided by the short window of one that stopped early; results of failed workers
  are summed too, against the header of the file and `spec.md:516`.
* A worker that learns of the start late reports the whole measured time although
  it worked for part of it.
* `ReportResult` is given up after eight attempts and the report of a failed
  preparation after five, against the unlimited retry of `spec.md` section 6.9.
* While the prompt of Ctrl+C is open no event is read, so that the watcher may be
  evicted; and the biased `select` lets repeated Ctrl+C starve the stream.
* A job with both `read` and `metadata.dir_manifest` feeds both runners from the
  manifest of `read`; the one of `metadata` is never read (`manifest.rs:28`).

## 6. Simplifications worth knowing

* An RPC is applied at most once per attempt and attempts of one worker do not
  overlap; replies may be lost, requests may be lost, and the next attempt may
  come after any change.
* `cancelled` and `unknown_job` are set in one step although the code stores them
  one after the other; nobody reads the second without the first in between.
* A restart of the master is, for a worker, that its job is unknown; the master
  persists nothing, and a restarted one is `Init`.
* A panic of a task is not modelled.
* A worker of `Measurement` has one task, and clocks run at the same rate.
* In `WorkingSet` one worker is modelled: names contain the worker's index, so the
  trees of different workers are disjoint.

## 7. What is not modelled, and why

Display, output and the metrics endpoint format and export; configuration,
identities and connections are start-up I/O; `cvd-proto` is generated. Merging
and encoding of histograms is done by a library, and the text parsers are
reduced to their outcome. `delete`, `list` and `query` of the command line are
single calls: `Cancel` of `Scheduler`, `Handler` of `EventStream`, and reads.
Identifiers are model values, configuration is constants.

## 8. Plan

Done, in this order: `JobLifecycle`, `Scheduler`, `SchedulerInv` and the proofs
about them; `EventStream`; `DirScan`; `ManifestQueue`; `FileIO`; `Workload`;
`JobSpec` and `WorkingSet`; `Measurement`; `CliSession`; the proofs of every safety
property of these modules; `FileFeed`, `JobLog` and `FileWork` with the proofs that
they are implemented.

Next, in the order of what they add:

1. `FileFeed` and `FileWork` composed, for several workers that drain one queue: a
   reply that is lost takes files with it that no worker has.
2. `Scheduler` with `last_seen`, `prepare_timeout` and `worker_staleness` as integer
   clocks: the watcher looks at workers that have reported already.
3. `Scheduler` with `ManifestQueue`: a job that is reassigned or cancelled while its
   queue is drained.
4. `Measurement` with several tasks per worker, and with reports that race the
   watcher.
