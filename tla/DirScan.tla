------------------------------ MODULE DirScan ------------------------------
(***************************************************************************)
(* The dir_manifest pipeline of a job: a reader puts the directories that  *)
(* the manifest lists into a shared queue, N scanners take directories     *)
(* from it, put their subdirectories back and push their files to the file *)
(* queue, and a task that joins the reader and then the scanners in their  *)
(* order decides whether the pass succeeded.                               *)
(*                                                                         *)
(* The queue has a lock, a count of unfinished directories that detects    *)
(* the end, and a tokio Notify for the scanners that find it empty.  A     *)
(* scanner makes its Notified future under the lock and polls it after;    *)
(* the change of the queue and the notification that follows it are one    *)
(* step here, since a later notification only wakes more.                  *)
(***************************************************************************)
EXTENDS Integers, Sequences, FiniteSets

CONSTANTS
  Dirs,      (* the directories below the mount point                      *)
  Roots,     (* what the manifest lists, in order                          *)
  Children,  (* the subdirectories of each directory                       *)
  Files,     (* the number of regular files in each directory              *)
  N,         (* dir_scan_concurrency                                       *)
  Capacity,  (* the capacity of the file queue                             *)
  MayFail,   (* the directories that may turn out unreadable               *)
  Broken,    (* the manifest may turn out unreadable or malformed          *)
  LoopFiles  (* loop_files of the job                                      *)

ASSUME ScanAssumption ==
  /\ Roots \in Seq(Dirs)
  /\ Children \in [Dirs -> SUBSET Dirs]
  /\ \A d, e \in Dirs : d # e => Children[d] \cap Children[e] = {}
  /\ Files \in [Dirs -> Nat]
  /\ N \in Nat \ {0} /\ Capacity \in Nat \ {0}
  /\ MayFail \subseteq Dirs
  /\ {Broken, LoopFiles} \subseteq BOOLEAN

Scanners == 1..N

VARIABLES
  dirs,        \* the shared queue of directories
  readerDone,  \* reader_done
  pendingDirs, \* pending_dirs
  closed,      \* closed
  permit,      \* the permit that Notify keeps
  waiters,     \* the scanners that sleep on it, longest first
  cancel,      \* cancel_flag of the job
  filesOpen,   \* the file queue is not closed
  queued,      \* how many files it holds
  reader,      \* "reading", "ended" or "failed"
  line,        \* how many lines of the manifest it has read
  stage,       \* where each scanner is
  work,        \* the directory it scans and what is left of it
  main,        \* "running", "ok", "failed" or "aborted"
  joined,      \* how many tasks it has joined
  failing,     \* first_err
  scans        \* history: the completed scans of each directory

queueVars   == <<dirs, readerDone, pendingDirs, closed>>
notifyVars  == <<permit, waiters>>
fileVars    == <<filesOpen, queued>>
readerVars  == <<reader, line>>
scannerVars == <<stage, work>>
mainVars    == <<main, joined, failing>>
vars == <<queueVars, notifyVars, fileVars, readerVars, scannerVars, mainVars, cancel, scans>>

Stages == {"looking", "locking", "armed", "asleep", "checking", "entry",
           "finishing", "ended", "failed"}
Works  == [dir : Dirs, subdirs : SUBSET Dirs, files : Nat, ok : BOOLEAN]
NoDir  == [dir |-> "none", subdirs |-> {}, files |-> 0, ok |-> TRUE]

Holding == {s \in Scanners : stage[s] \in {"checking", "entry", "finishing"}}

TypeOK ==
  /\ dirs \in Seq(Dirs) /\ pendingDirs \in Nat /\ queued \in 0..Capacity
  /\ readerDone \in BOOLEAN /\ closed \in BOOLEAN /\ permit \in BOOLEAN
  /\ cancel \in BOOLEAN /\ filesOpen \in BOOLEAN /\ failing \in BOOLEAN
  /\ waiters \in Seq(Scanners)
  /\ \A i, k \in DOMAIN waiters : waiters[i] = waiters[k] => i = k
  /\ {waiters[i] : i \in DOMAIN waiters} = {s \in Scanners : stage[s] = "asleep"}
  /\ reader \in {"reading", "ended", "failed"} /\ line \in 0..Len(Roots)
  /\ stage \in [Scanners -> Stages]
  /\ work \in [Scanners -> Works \cup {NoDir}]
  /\ main \in {"running", "ok", "failed", "aborted"} /\ joined \in 0..N + 1
  /\ scans \in [Dirs -> Nat]

Init ==
  /\ dirs = <<>> /\ readerDone = FALSE /\ pendingDirs = 0 /\ closed = FALSE
  /\ permit = FALSE /\ waiters = <<>>
  /\ cancel = FALSE /\ filesOpen = TRUE /\ queued = 0
  /\ reader = "reading" /\ line = 0
  /\ stage = [s \in Scanners |-> "looking"]
  /\ work  = [s \in Scanners |-> NoDir]
  /\ main = "running" /\ joined = 0 /\ failing = FALSE
  /\ scans = [d \in Dirs |-> 0]

-----------------------------------------------------------------------------
(* tokio::sync::Notify.                                                    *)

(* notify_one wakes the longest sleeper, or keeps one permit.  next is the *)
(* stage of the scanners after the step that notifies.                     *)
NotifyOne(next) ==
  IF waiters # <<>>
  THEN /\ stage'   = [next EXCEPT ![Head(waiters)] = "looking"]
       /\ waiters' = Tail(waiters)
       /\ UNCHANGED permit
  ELSE stage' = next /\ permit' = TRUE /\ UNCHANGED waiters

(* notify_waiters wakes every future made so far, polled or not.           *)
NotifyWaiters(next) ==
  /\ stage'   = [s \in Scanners |-> IF next[s] \in {"armed", "asleep"} THEN "looking" ELSE next[s]]
  /\ waiters' = <<>>
  /\ UNCHANGED permit

-----------------------------------------------------------------------------
(* The shared queue.                                                       *)

(* Mutant: nobody is notified of a new directory.                          *)
PushSilent(d, next) ==
  /\ dirs' = Append(dirs, d)
  /\ pendingDirs' = pendingDirs + 1
  /\ stage' = next
  /\ UNCHANGED <<readerDone, closed, notifyVars>>

Push(d, next) ==
  /\ dirs' = Append(dirs, d)
  /\ pendingDirs' = pendingDirs + 1
  /\ NotifyOne(next)
  /\ UNCHANGED <<readerDone, closed>>

Close(next) ==
  /\ closed' = TRUE
  /\ NotifyWaiters(next)
  /\ UNCHANGED <<dirs, readerDone, pendingDirs>>

(* Mutant: an empty queue is taken for the end of the pass.                *)
ExhaustedByQueue == readerDone /\ dirs = <<>>

Exhausted == readerDone /\ pendingDirs = 0

-----------------------------------------------------------------------------
(* The reader.                                                             *)

ReaderPush ==
  /\ reader = "reading"
  /\ line < Len(Roots)
  /\ ~cancel
  /\ ~closed
  /\ Push(Roots[line + 1], stage)
  /\ line' = line + 1
  /\ UNCHANGED <<reader, work, fileVars, mainVars, cancel, scans>>

ReaderCancelled ==
  /\ reader = "reading"
  /\ line < Len(Roots)
  /\ cancel
  /\ reader' = "ended"
  /\ Close(stage)
  /\ UNCHANGED <<line, work, fileVars, mainVars, cancel, scans>>

ReaderEnds ==
  /\ reader = "reading"
  /\ line = Len(Roots)
  /\ reader' = "ended"
  /\ readerDone' = TRUE
  /\ IF pendingDirs = 0 \/ dirs = <<>> THEN NotifyWaiters(stage) ELSE UNCHANGED <<stage, notifyVars>>
  /\ UNCHANGED <<dirs, pendingDirs, closed, line, work, fileVars, mainVars, cancel, scans>>

(* The manifest is unreadable or lists a bad path, or the queue is closed. *)
ReaderFails ==
  /\ reader = "reading"
  /\ Broken \/ closed
  /\ reader' = "failed"
  /\ UNCHANGED <<line, queueVars, notifyVars, fileVars, scannerVars, mainVars, cancel, scans>>

-----------------------------------------------------------------------------
(* A scanner.                                                              *)

GoTo(s, where) == stage' = [stage EXCEPT ![s] = where]

Look(s) ==
  /\ stage[s] = "looking"
  /\ GoTo(s, IF cancel THEN "ended" ELSE "locking")
  /\ UNCHANGED <<work, queueVars, notifyVars, fileVars, readerVars, mainVars, cancel, scans>>

Take(s) ==
  /\ ~closed /\ dirs # <<>>
  /\ work' = [work EXCEPT ![s] = [dir     |-> Head(dirs),
                                  subdirs |-> Children[Head(dirs)],
                                  files   |-> Files[Head(dirs)],
                                  ok      |-> TRUE]]
  /\ dirs' = Tail(dirs)
  /\ GoTo(s, "checking")

LeaveOrWait(s) ==
  /\ closed \/ dirs = <<>>
  /\ GoTo(s, IF closed \/ Exhausted THEN "ended" ELSE "armed")
  /\ UNCHANGED <<work, dirs>>

Pop(s) ==
  /\ stage[s] = "locking"
  /\ Take(s) \/ LeaveOrWait(s)
  /\ UNCHANGED <<readerDone, pendingDirs, closed, notifyVars, fileVars, readerVars,
                 mainVars, cancel, scans>>

(* The first poll of the Notified future.                                  *)
Poll(s) ==
  /\ stage[s] = "armed"
  /\ IF permit
     THEN GoTo(s, "looking") /\ permit' = FALSE /\ UNCHANGED waiters
     ELSE GoTo(s, "asleep") /\ waiters' = Append(waiters, s) /\ UNCHANGED permit
  /\ UNCHANGED <<work, queueVars, fileVars, readerVars, mainVars, cancel, scans>>

AllSeen(s) == work[s].subdirs = {} /\ work[s].files = 0

(* Before each entry the scan looks at the flag.                           *)
NextEntry(s) ==
  /\ stage[s] = "checking"
  /\ \/ (cancel \/ AllSeen(s)) /\ GoTo(s, "finishing")
     \/ ~cancel /\ (~AllSeen(s) \/ work[s].dir \in MayFail) /\ GoTo(s, "entry")
  /\ UNCHANGED <<work, queueVars, notifyVars, fileVars, readerVars, mainVars, cancel, scans>>

FoundSubdir(s) ==
  /\ stage[s] = "entry"
  /\ ~closed
  /\ \E d \in work[s].subdirs :
       /\ Push(d, [stage EXCEPT ![s] = "checking"])
       /\ work' = [work EXCEPT ![s].subdirs = @ \ {d}]
  /\ UNCHANGED <<fileVars, readerVars, mainVars, cancel, scans>>

HasRoom == queued < Capacity

(* Pushing a file waits for room in the file queue.                        *)
FoundFile(s) ==
  /\ stage[s] = "entry"
  /\ work[s].files > 0
  /\ filesOpen /\ HasRoom
  /\ queued' = queued + 1
  /\ work'   = [work EXCEPT ![s].files = @ - 1]
  /\ GoTo(s, "checking")
  /\ UNCHANGED <<filesOpen, queueVars, notifyVars, readerVars, mainVars, cancel, scans>>

(* The directory cannot be read, or a queue it pushes to is closed.        *)
ScanFails(s) ==
  /\ stage[s] = "entry"
  /\ \/ work[s].dir \in MayFail
     \/ closed /\ work[s].subdirs # {}
     \/ ~filesOpen /\ work[s].files > 0
  /\ work' = [work EXCEPT ![s].ok = FALSE]
  /\ GoTo(s, "finishing")
  /\ UNCHANGED <<queueVars, notifyVars, fileVars, readerVars, mainVars, cancel, scans>>

(* Mutant: only a directory that was scanned well counts as finished.      *)
FinishedWell(s) == IF work[s].ok /\ pendingDirs > 0 THEN pendingDirs - 1 ELSE pendingDirs

Finished(s) == IF pendingDirs > 0 THEN pendingDirs - 1 ELSE 0

(* Mutant: the end is left for the others to find.                         *)
WakeAtEndForgotten(next) == stage' = next /\ UNCHANGED notifyVars

WakeAtEnd(next) ==
  IF readerDone /\ pendingDirs' = 0
  THEN NotifyWaiters(next) ELSE stage' = next /\ UNCHANGED notifyVars

(* finish_dir; a scanner that failed leaves.                               *)
FinishDir(s) ==
  /\ stage[s] = "finishing"
  /\ pendingDirs' = Finished(s)
  /\ WakeAtEnd([stage EXCEPT ![s] = IF work[s].ok THEN "looking" ELSE "failed"])
  /\ work'  = [work EXCEPT ![s] = NoDir]
  /\ scans' = IF work[s].ok /\ AllSeen(s) THEN [scans EXCEPT ![work[s].dir] = @ + 1] ELSE scans
  /\ UNCHANGED <<dirs, readerDone, closed, fileVars, readerVars, mainVars, cancel>>

-----------------------------------------------------------------------------
(* The task that joins them: single_pass and run_pipeline.                 *)

(* Mutant: the error of the reader only closes the queue.                  *)
ReaderErrorLost == FALSE

ReaderError == reader = "failed"

JoinReader ==
  /\ main = "running" /\ joined = 0
  /\ reader # "reading"
  /\ joined' = 1
  /\ failing' = ReaderError
  /\ IF reader = "failed" THEN Close(stage) ELSE UNCHANGED <<stage, queueVars, notifyVars>>
  /\ UNCHANGED <<work, main, fileVars, readerVars, cancel, scans>>

(* The scanners are joined in the order of their handles.                  *)
JoinScanner ==
  /\ main = "running" /\ joined \in Scanners
  /\ stage[joined] \in {"ended", "failed"}
  /\ joined'  = joined + 1
  /\ failing' = (failing \/ stage[joined] = "failed")
  /\ IF stage[joined] = "failed"
     THEN cancel' = TRUE /\ Close(stage)
     ELSE UNCHANGED <<cancel, stage, queueVars, notifyVars>>
  /\ UNCHANGED <<work, main, fileVars, readerVars, scans>>

PassOver == main = "running" /\ joined = N + 1

PassEnds ==
  /\ PassOver
  /\ failing \/ ~LoopFiles \/ cancel
  /\ main' = IF failing THEN "failed" ELSE "ok"
  /\ UNCHANGED <<joined, failing, queueVars, notifyVars, fileVars, readerVars, scannerVars,
                 cancel, scans>>

(* loop_files: the next pass has a queue and tasks of its own.             *)
NextPass ==
  /\ PassOver
  /\ ~failing /\ LoopFiles /\ ~cancel
  /\ dirs' = <<>> /\ readerDone' = FALSE /\ pendingDirs' = 0 /\ closed' = FALSE
  /\ permit' = FALSE /\ waiters' = <<>>
  /\ reader' = "reading" /\ line' = 0
  /\ stage' = [s \in Scanners |-> "looking"] /\ work' = [s \in Scanners |-> NoDir]
  /\ joined' = 0
  /\ scans' = [d \in Dirs |-> 0]
  /\ UNCHANGED <<main, failing, fileVars, cancel>>

-----------------------------------------------------------------------------
(* The job and its workers.                                                *)

(* cleanup_on_terminal: the flag, the file queue, and the joining task,    *)
(* which leaves the tasks it has spawned to themselves.                    *)
Abort ==
  /\ filesOpen
  /\ cancel' = TRUE
  /\ filesOpen' = FALSE
  /\ main' = IF main = "running" THEN "aborted" ELSE main
  /\ UNCHANGED <<queued, joined, failing, queueVars, notifyVars, readerVars, scannerVars, scans>>

(* A worker fetches from the file queue.                                   *)
Drain ==
  /\ queued > 0
  /\ queued' = queued - 1
  /\ UNCHANGED <<filesOpen, queueVars, notifyVars, readerVars, scannerVars, mainVars,
                 cancel, scans>>

Reader     == ReaderPush \/ ReaderCancelled \/ ReaderEnds \/ ReaderFails
Scanner(s) == \/ Look(s) \/ Pop(s) \/ Poll(s) \/ NextEntry(s) \/ FoundSubdir(s)
              \/ FoundFile(s) \/ ScanFails(s) \/ FinishDir(s)
Main       == JoinReader \/ JoinScanner \/ PassEnds \/ NextPass

Next == Reader \/ (\E s \in Scanners : Scanner(s)) \/ Main \/ Abort \/ Drain

Spec == Init /\ [][Next]_vars

-----------------------------------------------------------------------------
(* Properties.                                                             *)

(* The count that detects the end of the pass is exact, whoever fails,     *)
(* leaves or is cancelled: a directory is queued or held by a scanner.     *)
PendingExact == pendingDirs = Len(dirs) + Cardinality(Holding)

CountsExact == TypeOK /\ PendingExact

(* Nobody leaves early: a scanner that ends on its own, with neither flag  *)
(* set, leaves no directory behind, and none turns up later.               *)
NobodyLeavesEarly ==
  ~cancel /\ ~closed /\ (\E s \in Scanners : stage[s] = "ended") =>
    readerDone /\ dirs = <<>> /\ Holding = {}

(* How often the manifest lists a directory.                               *)
Listed(d) == Cardinality({i \in DOMAIN Roots : Roots[i] = d})

(* The scans of the directory above.                                       *)
Above(d) == IF \E e \in Dirs : d \in Children[e]
            THEN scans[CHOOSE e \in Dirs : d \in Children[e]] ELSE 0

(* A pass that ends without error or cancellation is complete: every       *)
(* listing of a directory and every scan of the one above it has led to    *)
(* exactly one complete scan of it, and no error got lost on the way.      *)
PassComplete ==
  PassOver /\ ~failing /\ ~cancel =>
    \A d \in Dirs : scans[d] = Listed(d) + Above(d)

(* As long as no scanner has failed, directories that wait in the queue    *)
(* have a scanner that will look: no wake-up is lost, although Notify      *)
(* keeps one permit for any number of notifications.                       *)
SomebodyLooks ==
  dirs # <<>> /\ ~cancel /\ ~closed /\ (\A s \in Scanners : stage[s] # "failed") =>
    \E s \in Scanners : \/ stage[s] \notin {"armed", "asleep", "ended"}
                        \/ stage[s] = "armed" /\ permit

-----------------------------------------------------------------------------
(* Liveness: every task runs and the workers of the job keep fetching.     *)

Fairness == /\ WF_vars(Reader) /\ WF_vars(Main) /\ WF_vars(Drain)
            /\ \A s \in Scanners : WF_vars(Scanner(s))

FairSpec == Spec /\ Fairness

(* Every pass in which no scanner fails ends: when the last directory is   *)
(* finished, those that sleep hear of it, whoever finished it.             *)
ScanEnds == []<>(main # "running" \/ PassOver \/ \E s \in Scanners : stage[s] = "failed")

(* What the header of dir_scan.rs and the specification say of an error:   *)
(* it fails the job at once.                                               *)
FailFast ==
  \A s \in Scanners : (stage[s] = "failed" /\ main = "running") ~> main # "running"
=============================================================================
