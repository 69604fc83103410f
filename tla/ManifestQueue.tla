--------------------------- MODULE ManifestQueue ---------------------------
(***************************************************************************)
(* The file_manifest pipeline of a read job: the reader task pushes the    *)
(* files of the manifest into a bounded queue, and the FetchFileBatch      *)
(* calls of the crew take batches from its other end.                      *)
(*                                                                         *)
(* The queue is a deque under a lock of its own and a semaphore of free    *)
(* slots: a push takes a permit before it inserts, a drain gives permits   *)
(* back after it has removed.  A call drops the jobs lock before it drains *)
(* and learns from two further reads whether there will be more.  A job    *)
(* that ends sets the cancel flag, closes the queue and aborts the reader, *)
(* which stops where it next waits.                                        *)
(***************************************************************************)
EXTENDS Integers, Sequences, FiniteSetsExt

CONSTANTS
  Callers,   (* the workers of the crew, each with one call at a time      *)
  NFiles,    (* the files of the manifest are 1..NFiles                    *)
  Capacity,  (* file_queue_capacity                                        *)
  Batch,     (* the largest batch                                          *)
  Broken,    (* the manifest may be unreadable or have a bad line          *)
  MaxPasses  (* bound: how often the manifest is read                      *)

ASSUME QueueAssumption ==
  /\ {NFiles, Capacity, Batch, MaxPasses} \subseteq Nat \ {0}
  /\ Broken \in BOOLEAN
  /\ IsFiniteSet(Callers)

VARIABLES
  loop,     \* loop_files of the job
  job,      \* "preparing", "running", "over" or "cancelled"
  cancel,   \* cancel_flag
  done,     \* manifest_done
  permits,  \* the free slots of the semaphore
  open,     \* the queue is not closed, the reader not aborted
  queue,    \* the deque
  reader,   \* "top", "reading", "pushing", "inserting", "failing", "ended"
  line,     \* how many files of this pass it has inserted
  pass,     \* how many passes it has completed
  step,     \* where the call of each worker is
  got,      \* the files its call has drained
  handed    \* history: the files drained so far, in order

jobVars    == <<loop, job, cancel, open>>
queueVars  == <<permits, queue>>
readerVars == <<reader, line, pass, done>>
callVars   == <<step, got, handed>>
vars       == <<jobVars, queueVars, readerVars, callVars>>

AllFiles == 1..NFiles
Steps    == {"idle", "draining", "owing", "empty", "checking",
             "more", "last", "refused", "exhausted", "left"}

TypeOK ==
  /\ job \in {"preparing", "running", "over", "cancelled"}
  /\ {loop, cancel, done, open} \subseteq BOOLEAN
  /\ permits \in 0..Capacity
  /\ queue \in Seq(AllFiles) /\ Len(queue) <= Capacity
  /\ reader \in {"top", "reading", "pushing", "inserting", "failing", "ended"}
  /\ line \in 0..NFiles /\ pass \in 0..MaxPasses
  /\ step \in [Callers -> Steps]
  /\ got \in [Callers -> Seq(AllFiles)] /\ handed \in Seq(AllFiles)

Init ==
  /\ loop \in BOOLEAN
  /\ job = "preparing" /\ cancel = FALSE /\ done = FALSE
  /\ permits = Capacity /\ open = TRUE /\ queue = <<>>
  /\ reader = "top" /\ line = 0 /\ pass = 0
  /\ step = [c \in Callers |-> "idle"]
  /\ got  = [c \in Callers |-> <<>>]
  /\ handed = <<>>

-----------------------------------------------------------------------------
(* The job.                                                                *)

JobStarts ==
  /\ job = "preparing"
  /\ job' = "running"
  /\ UNCHANGED <<loop, cancel, open, queueVars, readerVars, callVars>>

(* Mutant: a terminal job leaves its queue open.                           *)
CleanupOpen == cancel' = TRUE /\ UNCHANGED open

(* cleanup_on_terminal.                                                    *)
Cleanup == cancel' = TRUE /\ open' = FALSE

(* A verdict or a cancellation.                                            *)
JobEnds ==
  /\ job \in {"preparing", "running"}
  /\ job' \in {"over", "cancelled"}
  /\ Cleanup
  /\ UNCHANGED <<loop, queueVars, readerVars, callVars>>

-----------------------------------------------------------------------------
(* The reader.                                                             *)

ReaderAt(here, there) ==
  /\ reader = here
  /\ reader' = there
  /\ UNCHANGED <<jobVars, callVars>>

(* The head of the loop in run, and the reading of the file.               *)
PassBegins ==
  /\ ~cancel
  /\ pass < MaxPasses
  /\ ReaderAt("top", "reading")
  /\ line' = 0
  /\ UNCHANGED <<queueVars, pass, done>>

RunCancelled ==
  /\ cancel
  /\ ReaderAt("top", "ended")
  /\ UNCHANGED <<queueVars, line, pass, done>>

(* The file cannot be read or a line of it is refused.                     *)
BadManifest ==
  /\ Broken
  /\ \/ ReaderAt("top", "failing")
     \/ line < NFiles /\ ~cancel /\ ReaderAt("reading", "failing")
  /\ UNCHANGED <<queueVars, line, pass, done>>

NextLine ==
  /\ line < NFiles
  /\ ~cancel
  /\ ReaderAt("reading", "pushing")
  /\ UNCHANGED <<queueVars, line, pass, done>>

SlotFree == permits > 0

(* push, first half: the permit is awaited and forgotten.                  *)
Acquire ==
  /\ open
  /\ SlotFree
  /\ ReaderAt("pushing", "inserting")
  /\ permits' = permits - 1
  /\ UNCHANGED <<queue, line, pass, done>>

PushRefused ==
  /\ ~open
  /\ ReaderAt("pushing", "failing")
  /\ UNCHANGED <<queueVars, line, pass, done>>

(* push, second half.                                                      *)
Insert ==
  /\ ReaderAt("inserting", "reading")
  /\ queue' = Append(queue, line + 1)
  /\ line'  = line + 1
  /\ UNCHANGED <<permits, pass, done>>

(* read_pass returns, at the end of the file or on the flag, and run sets  *)
(* done without telling the two apart, or clears it for the next pass.     *)
PassEnds ==
  /\ line = NFiles \/ cancel
  /\ ReaderAt("reading", IF loop THEN "top" ELSE "ended")
  /\ done' = ~loop
  /\ pass' = pass + 1
  /\ line' = IF loop THEN 0 ELSE line
  /\ UNCHANGED queueVars

(* fail_job_due_to_manifest.                                               *)
FailJob ==
  /\ reader = "failing"
  /\ reader' = "ended"
  /\ IF job \in {"preparing", "running"}
     THEN job' = "over" /\ Cleanup /\ UNCHANGED loop
     ELSE UNCHANGED jobVars
  /\ UNCHANGED <<queueVars, line, pass, done, callVars>>

(* The abort of the task takes effect where it waits.                      *)
Aborted ==
  /\ ~open
  /\ \E here \in {"top", "pushing"} : ReaderAt(here, "ended")
  /\ UNCHANGED <<queueVars, line, pass, done>>

-----------------------------------------------------------------------------
(* FetchFileBatch.                                                         *)

CallAt(c, here, there) ==
  /\ step[c] = here
  /\ step' = [step EXCEPT ![c] = there]
  /\ UNCHANGED <<jobVars, readerVars>>

(* Under the jobs lock: only a RUNNING job is served.                      *)
Admit(c) ==
  /\ job # "preparing"
  /\ CallAt(c, "idle", IF job = "running" THEN "draining" ELSE "refused")
  /\ UNCHANGED <<queueVars, got, handed>>

Taken == SubSeq(queue, 1, Min({Batch, Len(queue)}))

(* Mutant: what was drained stays in the queue.                            *)
RestPeeked == queue

Rest == SubSeq(queue, Len(Taken) + 1, Len(queue))

(* drain_up_to, first half: under the lock of the deque.                   *)
Drain(c) ==
  /\ CallAt(c, "draining", IF queue = <<>> THEN "empty" ELSE "owing")
  /\ got'    = [got EXCEPT ![c] = Taken]
  /\ handed' = handed \o Taken
  /\ queue'  = Rest
  /\ UNCHANGED permits

(* Mutant: the permits are forgotten for good.                             *)
OwedNothing(c) == 0

Owed(c) == Len(got[c])

(* drain_up_to, second half.                                               *)
GiveBack(c) ==
  /\ CallAt(c, "owing", "more")
  /\ permits' = permits + Owed(c)
  /\ UNCHANGED <<queue, got, handed>>

LookDone(c) ==
  /\ CallAt(c, "empty", IF done THEN "checking" ELSE "more")
  /\ UNCHANGED <<queueVars, got, handed>>

(* Mutant: an empty batch of a finished manifest is taken for the end.     *)
FinishedByBatch == TRUE

FinishedNow == queue = <<>>

LookEmpty(c) ==
  /\ CallAt(c, "checking", IF FinishedNow THEN "last" ELSE "more")
  /\ UNCHANGED <<queueVars, got, handed>>

(* The worker has the reply and calls again, or ends its fetcher.          *)
Replied(c) ==
  /\ \/ CallAt(c, "more", "idle")
     \/ CallAt(c, "last", "exhausted")
     \/ CallAt(c, "refused", "left")
  /\ got' = [got EXCEPT ![c] = <<>>]
  /\ UNCHANGED <<queueVars, handed>>

(* The reply is lost with its files; the worker calls again.               *)
ReplyLost(c) ==
  /\ \E here \in {"more", "last", "refused"} : CallAt(c, here, "idle")
  /\ got' = [got EXCEPT ![c] = <<>>]
  /\ UNCHANGED <<queueVars, handed>>

(* The deadline of the worker, or a read error.                            *)
StopFetching(c) ==
  /\ job # "preparing"
  /\ CallAt(c, "idle", "left")
  /\ UNCHANGED <<queueVars, got, handed>>

Reader  == \/ PassBegins \/ RunCancelled \/ BadManifest \/ NextLine \/ Acquire
           \/ PushRefused \/ Insert \/ PassEnds \/ FailJob \/ Aborted
Call(c) == \/ Admit(c) \/ Drain(c) \/ GiveBack(c) \/ LookDone(c) \/ LookEmpty(c)
           \/ Replied(c) \/ ReplyLost(c)

Next == JobStarts \/ JobEnds \/ Reader \/ \E c \in Callers : Call(c) \/ StopFetching(c)

Spec == Init /\ [][Next]_vars

-----------------------------------------------------------------------------
(* Properties.                                                             *)

(* The file that the k-th insertion puts into the queue.                   *)
Kth(k) == ((k - 1) % NFiles) + 1

(* The files leave the queue in the order of the manifest, pass by pass,   *)
(* none twice and none skipped, however many calls drain at once.          *)
OrderKept ==
  LET out == handed \o queue
  IN  \A k \in DOMAIN out : out[k] = Kth(k)

(* The slots that drains have emptied and not yet given back.              *)
Owing == {o \in Callers \X (1..Batch) : step[o[1]] = "owing" /\ o[2] <= Len(got[o[1]])}

(* Free slots, queued files, the slot of a push that has yet to insert and *)
(* those a drain has yet to give back are always the capacity: no slot is  *)
(* lost or made up between the halves of a push and of a drain.            *)
SlotsConserved ==
  permits + Len(queue) + (IF reader = "inserting" THEN 1 ELSE 0) + Cardinality(Owing) = Capacity

(* The queue as the code holds it: of its type, and with every slot in     *)
(* exactly one place.                                                      *)
QueueOK == TypeOK /\ SlotsConserved

(* While the job lives a caller is told that nothing is left only when     *)
(* the manifest is not looped and every file of it was handed out, though  *)
(* batch, flag and queue are read one after the other and the reader goes  *)
(* on.                                                                     *)
ExhaustedIsTrue ==
  ~cancel /\ (\E c \in Callers : step[c] \in {"last", "exhausted"}) =>
    ~loop /\ Len(handed) = NFiles /\ queue = <<>>

(* The callers that were told that nothing is left.                        *)
Told == {c \in Callers : step[c] \in {"last", "exhausted"}}

(* Behind its locks and separate reads the queue gives the files out as    *)
(* FileFeed says, and announces their end when it is reached.              *)
Feed == INSTANCE FileFeed WITH
  Workers <- Callers, looped <- loop, over <- cancel, given <- Len(handed), hands <- got,
  told <- Told

ImplementsFeed == Feed!Spec

-----------------------------------------------------------------------------
(* Liveness: the tasks run and a reply gets through now and then.          *)

Fairness ==
  /\ WF_vars(Reader)
  /\ \A c \in Callers : WF_vars(Call(c)) /\ SF_vars(Replied(c))

FairSpec == Spec /\ Fairness

(* Without loop_files every fetcher of a running job comes to an end:      *)
(* pushes and drains do not wait for each other for ever.                  *)
FeedEnds ==
  ~loop /\ job = "running" ~>
    job # "running" \/ \A c \in Callers : step[c] \in {"exhausted", "left"}

(* The reader of a job that is over ends, even while it waits for a slot.  *)
ReaderStops == cancel ~> reader = "ended"
=============================================================================
