------------------------------ MODULE Workload ------------------------------
(***************************************************************************)
(* What a worker runs between the start barrier and its report: the        *)
(* runners that its job asks for, side by side.  Every runner is a group   *)
(* of N tasks that is joined in the order of the tasks; the runners that   *)
(* get their files from the master also have a fetcher, which fills a      *)
(* bounded local buffer.  All of them share the flags abort, cancelled     *)
(* and unknown_job, which they look at in a few places only, and the       *)
(* deadline.                                                               *)
(*                                                                         *)
(*    read      reads files of the master, and compares them if asked to   *)
(*    stat      metadata on files of the master (metadata.dir_manifest)    *)
(*    metadata  metadata operations on the worker's own tree               *)
(*    write     writes files of its own                                    *)
(***************************************************************************)
EXTENDS Integers, Sequences, FiniteSets

CONSTANTS
  Jobs,      (* the jobs: which runners, and whether reads are compared    *)
  N,         (* concurrency                                                *)
  Capacity,  (* the capacity of a local buffer                             *)
  Batch,     (* batch_size of FetchFileBatch                               *)
  NFiles     (* the number of files of the manifest                        *)

Runners  == {"read", "stat", "metadata", "write"}
Fetching == {"read", "stat"}
Tasks    == 1..N
Files    == 1..NFiles

ASSUME WorkloadAssumption ==
  /\ {N, Capacity, Batch, NFiles} \subseteq Nat \ {0}
  /\ Jobs \subseteq [runners : SUBSET Runners, compare : BOOLEAN]
  /\ \A j \in Jobs : /\ j.runners # {} /\ ~({"stat", "metadata"} \subseteq j.runners)
                     /\ (j.compare => "read" \in j.runners)

VARIABLES
  job,        \* the specification of the job
  client,     \* preflight has made a consistency client
  main,       \* "preflight", "running", "reporting", "reported", "left" or "refused"
  abort,      \* abort
  cancelled,  \* cancelled
  unknown,    \* unknown_job
  deadline,   \* the deadline has passed
  master,     \* the job at the master: "running", "cancelled" or "gone"
  manifest,   \* how many files the master has handed out
  fetcher,    \* where each fetcher is
  batch,      \* the files that it has still to put into the buffer
  more,       \* has_more of its last reply
  buffer,     \* the local buffer of each runner
  task,       \* where each task is
  current,    \* the file of each task, or 0
  joined,     \* how many tasks each runner has joined
  firstErr,   \* first_err of each runner: the task it is from, or 0
  errors,     \* consistency_errors: the files in it
  result,     \* what is reported
  handled,    \* history: how often each file was read or looked at
  uncompared, \* history: the files that were read and not compared
  told        \* history: the worker was told that its job is unknown

flagVars    == <<abort, cancelled, unknown>>
fetcherVars == <<fetcher, batch, more>>
taskVars    == <<task, current>>
joinVars    == <<joined, firstErr>>
historyVars == <<handled, uncompared>>
envVars     == <<job, deadline, master, told>>
vars == <<job, client, main, flagVars, deadline, master, manifest, fetcherVars, buffer,
          taskVars, joinVars, errors, result, historyVars, told>>

NoResult == [success |-> FALSE, error |-> "none", mismatch |-> FALSE]

Stopped == abort \/ cancelled

TypeOK ==
  /\ job \in Jobs
  /\ main \in {"preflight", "running", "reporting", "reported", "left", "refused"}
  /\ client \in BOOLEAN /\ abort \in BOOLEAN /\ cancelled \in BOOLEAN
  /\ unknown \in BOOLEAN /\ deadline \in BOOLEAN /\ told \in BOOLEAN
  /\ master \in {"running", "cancelled", "gone"} /\ manifest \in 0..NFiles
  /\ fetcher \in [Fetching -> {"top", "calling", "backoff", "checking", "sending", "ended"}]
  /\ batch \in [Fetching -> Seq(Files)] /\ more \in [Fetching -> BOOLEAN]
  /\ buffer \in [Fetching -> Seq(Files)]
  /\ \A r \in Fetching : /\ Len(batch[r]) <= Batch /\ Len(buffer[r]) <= Capacity
                         /\ fetcher[r] = "sending" => batch[r] # <<>>
  /\ task \in [Runners -> [Tasks -> {"top", "recv", "op", "after", "compare", "ended", "failed"}]]
  /\ current \in [Runners -> [Tasks -> 0..NFiles]]
  /\ joined \in [Runners -> 0..N] /\ firstErr \in [Runners -> 0..N]
  /\ \A r \in Runners \ job.runners : \A t \in Tasks : task[r][t] = "top"
  /\ errors \in Seq(Files)
  /\ handled \in [Files -> Nat] /\ uncompared \subseteq Files

Init ==
  /\ job \in Jobs
  /\ client = FALSE /\ main = "preflight"
  /\ abort = FALSE /\ cancelled = FALSE /\ unknown = FALSE
  /\ deadline = FALSE /\ master = "running" /\ manifest = 0
  /\ fetcher = [r \in Fetching |-> "top"]
  /\ batch = [r \in Fetching |-> <<>>] /\ more = [r \in Fetching |-> TRUE]
  /\ buffer = [r \in Fetching |-> <<>>]
  /\ task = [r \in Runners |-> [t \in Tasks |-> "top"]]
  /\ current = [r \in Runners |-> [t \in Tasks |-> 0]]
  /\ joined = [r \in Runners |-> 0] /\ firstErr = [r \in Runners |-> 0]
  /\ errors = <<>> /\ result = NoResult
  /\ handled = [f \in Files |-> 0] /\ uncompared = {} /\ told = FALSE

-----------------------------------------------------------------------------
(* Before the barrier.                                                     *)

(* A metadata section with a manifest ends preflight before it comes to    *)
(* the consistency client.                                                 *)
ClientMade == job.compare /\ "stat" \notin job.runners

(* The root of the write runner, the layout of the metadata runner and the *)
(* client may each fail; otherwise the job starts.                         *)
RunPreflight ==
  /\ main = "preflight"
  /\ \/ main' = "running" /\ client' = ClientMade
     \/ /\ "write" \in job.runners \/ "metadata" \in job.runners \/ ClientMade
        /\ main' = "refused" /\ UNCHANGED client
  /\ UNCHANGED <<envVars, flagVars, manifest, fetcherVars, buffer, taskVars, joinVars, errors,
                 result, historyVars>>

-----------------------------------------------------------------------------
(* The fetcher of a runner.                                                *)

(* The receiving end of the buffer is gone when all tasks have returned.   *)
Gone(r, t) == task[r][t] \in {"ended", "failed"}
ReceiversGone(r) == \A t \in Tasks : Gone(r, t)

Active(r) == main = "running" /\ r \in job.runners

FetcherTop(r) ==
  /\ Active(r) /\ fetcher[r] = "top"
  /\ fetcher' = [fetcher EXCEPT ![r] = IF deadline \/ Stopped THEN "ended" ELSE "calling"]
  /\ UNCHANGED <<envVars, client, main, flagVars, manifest, batch, more, buffer, taskVars,
                 joinVars, errors, result, historyVars>>

(* The master does not know the job any more.                              *)
ToldUnknown(r) ==
  /\ master = "gone"
  /\ unknown' = TRUE /\ cancelled' = TRUE /\ abort' = TRUE
  /\ fetcher' = [fetcher EXCEPT ![r] = "ended"]
  /\ UNCHANGED <<manifest, batch, more>>

ToldCancelled(r) ==
  /\ master = "cancelled"
  /\ cancelled' = TRUE /\ UNCHANGED <<abort, unknown>>
  /\ fetcher' = [fetcher EXCEPT ![r] = "ended"]
  /\ UNCHANGED <<manifest, batch, more>>

(* Some files, or none while the manifest is still being read; has_more is *)
(* false only in a reply without files, after the last of them.            *)
GivenFiles(r) ==
  /\ master = "running"
  /\ \E n \in 0..Batch :
       /\ manifest + n <= NFiles
       /\ manifest' = manifest + n
       /\ batch' = [batch EXCEPT ![r] = [i \in 1..n |-> manifest + i]]
       /\ \E b \in BOOLEAN : (n > 0 \/ manifest < NFiles => b) /\ more' = [more EXCEPT ![r] = b]
  /\ fetcher' = [fetcher EXCEPT ![r] = "checking"]
  /\ UNCHANGED flagVars

(* The call fails before or at the master: next_delay, then once more.     *)
CallFailed(r) ==
  /\ fetcher' = [fetcher EXCEPT ![r] = "backoff"]
  /\ UNCHANGED <<flagVars, manifest, batch, more>>

FetchFileBatch(r) ==
  /\ Active(r) /\ fetcher[r] = "calling"
  /\ ToldUnknown(r) \/ ToldCancelled(r) \/ GivenFiles(r) \/ CallFailed(r)
  /\ told' = (told \/ (master = "gone" /\ fetcher'[r] = "ended"))
  /\ UNCHANGED <<job, deadline, master, client, main, buffer, taskVars, joinVars, errors, result, historyVars>>

BackoffEnds(r) ==
  /\ Active(r) /\ fetcher[r] = "backoff"
  /\ fetcher' = [fetcher EXCEPT ![r] = "top"]
  /\ UNCHANGED <<envVars, client, main, flagVars, manifest, batch, more, buffer, taskVars,
                 joinVars, errors, result, historyVars>>

(* Before each file the flags are read; after the last one the fetcher     *)
(* ends, or starts over, with a pause if there were none.                  *)
FetcherChecks(r) ==
  /\ Active(r) /\ fetcher[r] = "checking"
  /\ fetcher' = [fetcher EXCEPT ![r] =
       IF batch[r] # <<>> THEN IF Stopped THEN "ended" ELSE "sending"
       ELSE IF more[r] THEN "top" ELSE "ended"]
  /\ UNCHANGED <<envVars, client, main, flagVars, manifest, batch, more, buffer, taskVars,
                 joinVars, errors, result, historyVars>>

(* Mutant: nobody tells a waiting fetcher that the tasks have returned.    *)
FetcherSendsStubbornly(r) ==
  /\ Active(r) /\ fetcher[r] = "sending"
  /\ Len(buffer[r]) < Capacity
  /\ buffer' = [buffer EXCEPT ![r] = Append(@, Head(batch[r]))]
  /\ batch' = [batch EXCEPT ![r] = Tail(@)]
  /\ fetcher' = [fetcher EXCEPT ![r] = "checking"]
  /\ UNCHANGED <<envVars, client, main, flagVars, manifest, more, taskVars, joinVars, errors,
                 result, historyVars>>

(* send waits for room, without looking at the flags; it fails when the    *)
(* tasks have all returned.                                                *)
FetcherSends(r) ==
  /\ Active(r) /\ fetcher[r] = "sending"
  /\ \/ /\ ~ReceiversGone(r) /\ Len(buffer[r]) < Capacity
        /\ buffer' = [buffer EXCEPT ![r] = Append(@, Head(batch[r]))]
        /\ batch' = [batch EXCEPT ![r] = Tail(@)]
        /\ fetcher' = [fetcher EXCEPT ![r] = "checking"]
     \/ /\ ReceiversGone(r)
        /\ fetcher' = [fetcher EXCEPT ![r] = "ended"]
        /\ UNCHANGED <<buffer, batch>>
  /\ UNCHANGED <<envVars, client, main, flagVars, manifest, more, taskVars, joinVars, errors,
                 result, historyVars>>

-----------------------------------------------------------------------------
(* The tasks.                                                              *)

GoesTo(r, t, where) == task' = [task EXCEPT ![r][t] = where]

(* The top of the loop is the only place where the deadline is looked at.  *)
TaskTop(r, t) ==
  /\ Active(r) /\ task[r][t] = "top"
  /\ GoesTo(r, t, IF deadline \/ Stopped THEN "ended"
                  ELSE IF r \in Fetching THEN "recv" ELSE "op")
  /\ current' = [current EXCEPT ![r][t] = 0]
  /\ UNCHANGED <<envVars, client, main, flagVars, manifest, fetcherVars, buffer, joinVars,
                 errors, result, historyVars>>

(* Mutant: the end of the fetcher ends a task that could have had a file.  *)
TaskRecvEager(r, t) ==
  /\ Active(r) /\ task[r][t] = "recv"
  /\ \/ /\ buffer[r] # <<>> /\ fetcher[r] # "ended"
        /\ GoesTo(r, t, "op")
        /\ current' = [current EXCEPT ![r][t] = Head(buffer[r])]
        /\ buffer' = [buffer EXCEPT ![r] = Tail(@)]
     \/ /\ fetcher[r] = "ended"
        /\ GoesTo(r, t, "ended") /\ UNCHANGED <<current, buffer>>
  /\ UNCHANGED <<envVars, client, main, flagVars, manifest, fetcherVars, joinVars, errors,
                 result, historyVars>>

(* A task that waits for a file is woken by a file or by the end of the    *)
(* fetcher, not by the flags.                                              *)
TaskRecv(r, t) ==
  /\ Active(r) /\ task[r][t] = "recv"
  /\ \/ /\ buffer[r] # <<>>
        /\ GoesTo(r, t, "op")
        /\ current' = [current EXCEPT ![r][t] = Head(buffer[r])]
        /\ buffer' = [buffer EXCEPT ![r] = Tail(@)]
     \/ /\ buffer[r] = <<>> /\ fetcher[r] = "ended"
        /\ GoesTo(r, t, "ended") /\ UNCHANGED <<current, buffer>>
  /\ UNCHANGED <<envVars, client, main, flagVars, manifest, fetcherVars, joinVars, errors,
                 result, historyVars>>

Handle(r, t) == handled' = [handled EXCEPT ![current[r][t]] = @ + 1]

Fails(r, t) == GoesTo(r, t, "failed") /\ abort' = TRUE

(* A file has been read, as far as the flags allowed it, or reading it     *)
(* failed.                                                                 *)
ReadFile(t) ==
  /\ Active("read") /\ task["read"][t] = "op"
  /\ \/ GoesTo("read", t, "after") /\ UNCHANGED abort
     \/ Fails("read", t)
  /\ UNCHANGED <<envVars, client, main, cancelled, unknown, manifest, fetcherVars, buffer,
                 current, joinVars, errors, result, historyVars>>

(* After the read the flags are looked at, since it may be incomplete.     *)
AfterRead(t) ==
  /\ Active("read") /\ task["read"][t] = "after"
  /\ \/ Stopped /\ GoesTo("read", t, "ended") /\ UNCHANGED historyVars
     \/ /\ ~Stopped /\ client
        /\ GoesTo("read", t, "compare") /\ UNCHANGED historyVars
     \/ /\ ~Stopped /\ ~client
        /\ GoesTo("read", t, "top") /\ Handle("read", t)
        /\ uncompared' = uncompared \cup {current["read"][t]}
  /\ UNCHANGED <<envVars, client, main, flagVars, manifest, fetcherVars, buffer, current,
                 joinVars, errors, result>>

(* The first difference is the only one that is recorded.                  *)
Record(t) == errors' = IF errors = <<>> THEN <<current["read"][t]>> ELSE errors

CompareFile(t) ==
  /\ Active("read") /\ task["read"][t] = "compare"
  /\ \/ /\ GoesTo("read", t, "top") /\ Handle("read", t)
        /\ UNCHANGED <<abort, errors>>
     \/ Record(t) /\ Fails("read", t) /\ UNCHANGED handled
  /\ UNCHANGED <<envVars, client, main, cancelled, unknown, manifest, fetcherVars, buffer,
                 current, joinVars, result, uncompared>>

StatFile(t) ==
  /\ Active("stat") /\ task["stat"][t] = "op"
  /\ \/ GoesTo("stat", t, "top") /\ Handle("stat", t) /\ UNCHANGED abort
     \/ Fails("stat", t) /\ UNCHANGED handled
  /\ UNCHANGED <<envVars, client, main, cancelled, unknown, manifest, fetcherVars, buffer,
                 current, joinVars, errors, result, uncompared>>

(* One operation on the worker's own tree.  If the tree has nothing for    *)
(* it, the task returns its error without raising abort.                   *)
MetadataOp(t) ==
  /\ Active("metadata") /\ task["metadata"][t] = "op"
  /\ \/ GoesTo("metadata", t, "top") /\ UNCHANGED abort
     \/ Fails("metadata", t)
     \/ GoesTo("metadata", t, "failed") /\ UNCHANGED abort
  /\ UNCHANGED <<envVars, client, main, cancelled, unknown, manifest, fetcherVars, buffer,
                 current, joinVars, errors, result, historyVars>>

(* A file is written, and read back if asked for.                          *)
WriteFile(t) ==
  /\ Active("write") /\ task["write"][t] = "op"
  /\ \/ GoesTo("write", t, "top") /\ UNCHANGED abort
     \/ Fails("write", t)
  /\ UNCHANGED <<envVars, client, main, cancelled, unknown, manifest, fetcherVars, buffer,
                 current, joinVars, errors, result, historyVars>>

-----------------------------------------------------------------------------
(* The ends of the runners and of the workload.                            *)

(* Mutant: the last task decides.                                          *)
ErrOfLast(r, t) == IF task[r][t] = "failed" THEN t ELSE 0

ErrOf(r, t) == IF firstErr[r] = 0 /\ task[r][t] = "failed" THEN t ELSE firstErr[r]

(* A runner joins its tasks in their order; an error raises abort.         *)
JoinTask(r) ==
  /\ Active(r) /\ joined[r] < N
  /\ LET t == joined[r] + 1
     IN  /\ Gone(r, t)
         /\ joined' = [joined EXCEPT ![r] = t]
         /\ firstErr' = [firstErr EXCEPT ![r] = ErrOf(r, t)]
         /\ abort' = (abort \/ task[r][t] = "failed")
  /\ UNCHANGED <<envVars, client, main, cancelled, unknown, manifest, fetcherVars, buffer,
                 taskVars, errors, result, historyVars>>

RunnerOver(r) == joined[r] = N /\ (r \in Fetching => fetcher[r] = "ended")

(* All runners have returned.  A worker that was told unknown_job leaves.  *)
WorkloadOver ==
  /\ main = "running"
  /\ \A r \in job.runners : RunnerOver(r)
  /\ main' = IF unknown THEN "left" ELSE "reporting"
  /\ UNCHANGED <<envVars, client, flagVars, manifest, fetcherVars, buffer, taskVars, joinVars,
                 errors, result, historyVars>>

SomeErr == {r \in job.runners : firstErr[r] # 0}

(* The result that is reported.  The order in which the runners end only   *)
(* decides whose error it names.                                           *)
ReportResult ==
  /\ main = "reporting"
  /\ main' = "reported"
  /\ result' = [success |-> SomeErr = {},
                error   |-> IF SomeErr # {} THEN "failure"
                            ELSE IF cancelled THEN "cancelled" ELSE "none",
                mismatch |-> errors # <<>>]
  /\ UNCHANGED <<envVars, client, flagVars, manifest, fetcherVars, buffer, taskVars, joinVars,
                 errors, historyVars>>

-----------------------------------------------------------------------------
(* Around the workload.                                                    *)

(* An answer to the progress task, which runs as long as the workload.     *)
ProgressAnswered ==
  /\ main = "running" /\ ~cancelled /\ ~unknown /\ master # "running"
  /\ cancelled' = TRUE
  /\ unknown' = (master = "gone") /\ told' = (told \/ master = "gone")
  /\ UNCHANGED <<job, deadline, master, client, main, abort, manifest, fetcherVars, buffer, taskVars, joinVars,
                 errors, result, historyVars>>

(* The bridge passes a shutdown of the daemon on.                          *)
ShutdownBridged ==
  /\ main = "running" /\ ~cancelled
  /\ cancelled' = TRUE
  /\ UNCHANGED <<envVars, client, main, abort, unknown, manifest, fetcherVars, buffer, taskVars,
                 joinVars, errors, result, historyVars>>

DeadlinePasses ==
  /\ main = "running" /\ ~deadline
  /\ deadline' = TRUE
  /\ UNCHANGED <<job, master, told, client, main, flagVars, manifest, fetcherVars, buffer, taskVars,
                 joinVars, errors, result, historyVars>>

(* The job is cancelled, or the master restarts or gives it a verdict.     *)
MasterEnds ==
  /\ main = "running" /\ master = "running"
  /\ master' \in {"cancelled", "gone"}
  /\ UNCHANGED <<job, deadline, told, client, main, flagVars, manifest, fetcherVars, buffer, taskVars,
                 joinVars, errors, result, historyVars>>

Fetch(r) ==
  FetcherTop(r) \/ FetchFileBatch(r) \/ BackoffEnds(r) \/ FetcherChecks(r) \/ FetcherSends(r)

Operation(r, t) ==
  \/ r = "read" /\ (ReadFile(t) \/ AfterRead(t) \/ CompareFile(t))
  \/ r = "stat" /\ StatFile(t)
  \/ r = "metadata" /\ MetadataOp(t)
  \/ r = "write" /\ WriteFile(t)

Perform(r, t) ==
  TaskTop(r, t) \/ (r \in Fetching /\ TaskRecv(r, t)) \/ Operation(r, t)

Conclude == (\E r \in Runners : JoinTask(r)) \/ WorkloadOver \/ ReportResult

Around == ProgressAnswered \/ ShutdownBridged \/ DeadlinePasses \/ MasterEnds

Next ==
  \/ RunPreflight \/ Conclude \/ Around
  \/ \E r \in Fetching : Fetch(r)
  \/ \E r \in Runners, t \in Tasks : Perform(r, t)

Spec == Init /\ [][Next]_vars

(* Calls return, with or without success, and operations on files end.     *)
Fairness ==
  /\ WF_vars(RunPreflight) /\ WF_vars(Conclude)
  /\ \A r \in Fetching : WF_vars(Fetch(r))
  /\ \A r \in Runners, t \in Tasks : WF_vars(Perform(r, t))

FairSpec == Spec /\ Fairness

-----------------------------------------------------------------------------
AnyFailed == \E r \in job.runners, t \in Tasks : task[r][t] = "failed"

(* The report says success exactly if no task of any runner failed, however*)
(* many fail and in whatever order they are joined, and a job with a       *)
(* recorded difference has exactly one and is not a success.               *)
FailureReported ==
  /\ main = "reported" => (result.success <=> ~AnyFailed)
  /\ Len(errors) <= 1
  /\ main = "reported" /\ result.mismatch => ~result.success

(* A workload that neither the deadline nor a flag ended has handled every *)
(* file that the master handed out, and none twice: nothing is left in a   *)
(* buffer or lost between fetcher and tasks.                               *)
EveryFileHandled ==
  /\ \A f \in Files : handled[f] <= 1
  /\ main \in {"reporting", "reported"} /\ ~deadline /\ ~Stopped =>
       \A f \in 1..manifest : handled[f] = 1

(* A worker that was told by any reply, to the fetcher or to the progress  *)
(* task, that its job is unknown does not report a result of it.           *)
AbandonedIfUnknown == main = "reported" => ~told

(* Once the deadline has passed or a flag is up, all tasks, fetchers and   *)
(* runners end: no task is left waiting for a file nor a fetcher for room. *)
WorkloadEnds == (main = "running" /\ (deadline \/ Stopped)) ~> main # "running"

(* A job that asks for the comparison with S3, and is not mixed with       *)
(* metadata on files of the master, reads no file without comparing it.    *)
EveryReadCompared == job.compare /\ "stat" \notin job.runners => uncompared = {}

(* What is reported is what happened.                                      *)
ReportIsTrue ==
  TypeOK /\ FailureReported /\ AbandonedIfUnknown /\ EveryReadCompared /\ EveryFileHandled

-----------------------------------------------------------------------------
(* The worker as FileWork sees it.                                         *)

(* What waits for a runner: the buffer, and what its fetcher has not put   *)
(* there yet.                                                              *)
Line(r) == buffer[r] \o batch[r]

(* A task that has a file of the master in hand.                           *)
Holds(r, t) == task[r][t] \in {"op", "after", "compare"}

Waiting == {f \in Files : \E r \in Fetching : \E i \in 1..Len(Line(r)) : Line(r)[i] = f}
InHand  == {f \in Files : \E r \in Fetching, t \in Tasks : Holds(r, t) /\ current[r][t] = f}
Handled == {f \in Files : handled[f] # 0}

Verdict ==
  IF main \in {"refused", "left"} THEN main
  ELSE IF main # "reported" THEN "none"
  ELSE IF result.error = "none" THEN "success" ELSE result.error

Work == INSTANCE FileWork WITH
          given <- manifest, waiting <- Waiting, inHand <- InHand, handled <- Handled,
          late <- deadline, trouble <- Stopped, verdict <- Verdict

(* Fetchers, buffers, tasks and flags together keep what FileWork promises:*)
(* no file is lost on its way, handled twice, or dropped without trouble,  *)
(* and a report without an error stands for all files that were given,     *)
(* unless the deadline has passed.                                         *)
ImplementsWork == Work!Spec
=============================================================================
