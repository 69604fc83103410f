----------------------------- MODULE WorkingSet -----------------------------
(***************************************************************************)
(* The directory trees a worker makes for a job and removes again.         *)
(*                                                                         *)
(* The master takes a job that it can parse and finds valid; the worker    *)
(* reads what the master has stored.  The preparation makes the root of    *)
(* the write runner, then either builds the tree of the metadata runner,   *)
(* in batches of concurrent operations, or scans a tree that is there, and *)
(* builds the client for the object store.  When an operation of a batch   *)
(* fails the others are dropped, but those handed to the file system are   *)
(* carried out all the same.  The runners then work in the trees; the      *)
(* write runner removes its own when its tasks have ended, whatever the    *)
(* metadata tasks do, and the worker removes the metadata tree when both   *)
(* runners are over.  The master may hand the same slot out again.         *)
(***************************************************************************)
EXTENDS JobSpec, SequencesExt

CONSTANTS
  Protos,      (* the specifications clients send                          *)
  Existing,    (* the tree read-only jobs scan, which nobody else changes  *)
  MaxFaults, MaxRounds, MaxNew (* bounds: failing operations, deliveries   *)
               (* of the slot, entries made by a task                      *)

ASSUME BoundsAssumption == {MaxFaults, MaxRounds, MaxNew} \subseteq Nat

ASSUME ProtosAssumption == Protos \subseteq BenchSpec

VARIABLES
  record,   \* the job as the master stores it
  job,      \* its specification as the worker understands it
  pc,       \* where the worker is
  tree,     \* what is in the file system
  batch,    \* which batch of the layout is being made
  todo,     \* its operations that have not started
  flying,   \* its operations the file system is carrying out
  orphans,  \* operations of an earlier batch that was dropped
  scan,     \* the scan of a read-only job
  writers,  \* the tasks of the write runner
  writeRunner, \* "off", "on", "sweep", "over"
  statters, \* the tasks of the metadata runner
  made,     \* how many entries each of them has made
  sweep,    \* the removal of a tree
  rounds, faults, \* bounds
  hit,      \* history: an operation of the file system failed in this round
  leftover  \* history: an earlier round left its tree behind

jobVars   == <<record, job>>
treeVars  == <<tree, batch, todo, flying, orphans, scan>>
taskVars  == <<writers, writeRunner, statters, made>>
boundVars == <<rounds, leftover>>
vars == <<jobVars, pc, treeVars, taskVars, sweep, boundVars, faults, hit>>

-----------------------------------------------------------------------------
(* Paths: sequences of names, a name is a kind and a number.               *)

DirKinds  == {"root", "dir", "tasks", "task", "mkdir", "sub"}
Kinds     == DirKinds \cup {"file", "link", "data", "create"}
Paths     == Seq(Kinds \X Nat) \ {<<>>}
WriteRoot == <<<<"root", 1>>>>
MetaRoot  == <<<<"root", 2>>>>
ScanRoot  == <<<<"root", 3>>>>

IsDir(p)  == Last(p)[1] \in DirKinds
Parent(p) == Front(p)

(* A tree has every directory on the way to what is in it.                 *)
IsTree(T) == \A p \in T : p \in Paths /\ (Len(p) > 1 => Parent(p) \in T /\ IsDir(Parent(p)))

ASSUME ExistingAssumption ==
  /\ IsTree(Existing)
  /\ ScanRoot \in Existing /\ \A p \in Existing : IsPrefix(ScanRoot, p)

HasParent(p) == Len(p) = 1 \/ Parent(p) \in tree
Children(p)  == {q \in tree : Len(q) = Len(p) + 1 /\ Parent(q) = p}
Under(p)     == {q \in tree : IsPrefix(p, q)}

(* The layout of a tree: directories layer by layer, then their files, and *)
(* the roots of the tasks.                                                 *)
Layers(m) ==
  LET layer[k \in 0..m.depth] ==
        IF k = 0 THEN {MetaRoot}
        ELSE {Append(p, <<"dir", i>>) : p \in layer[k - 1], i \in 1..m.width}
  IN  layer
Directories(m) == UNION {Layers(m)[k] : k \in 1..m.depth}
Files(m)       == {Append(p, <<"file", i>>) : p \in Directories(m), i \in 1..m.files}
TasksRoot      == Append(MetaRoot, <<"tasks", 0>>)
TaskRoot(t)    == Append(TasksRoot, <<"task", t>>)

Batches(m) == [k \in 1..m.depth |-> Layers(m)[k]] \o <<Files(m), {TasksRoot}>>
                \o [t \in 1..m.concurrency |-> {TaskRoot(t)}]
Layout(m)  == UNION {Batches(m)[k] : k \in 1..Len(Batches(m))}

Writes == job.write # NoSection
Meta   == CASE job.metadata = NoSection -> "none"
            [] job.metadata # NoSection /\ job.metadata.manifest -> "manifest"
            [] OTHER -> IF job.metadata.readOnly THEN "scan" ELSE "build"

(* Repeated slashes are one.  (What is written is never in a scanned tree.) *)
Segments(dir) == SelectSeq(dir, LAMBDA name : name # "")
SharedDir == Writes /\ Meta = "build" /\ Segments(job.write.dir) = Segments(job.metadata.dir)
WRoot     == IF SharedDir THEN MetaRoot ELSE WriteRoot

(* What is in use: the layout, or what the scan found.                     *)
InUse == CASE Meta = "build" -> Directories(job.metadata) \cup Files(job.metadata)
           [] Meta = "scan"  -> scan.found
           [] OTHER          -> {}
Targets(op) == {p \in InUse : IsDir(p) = (op = "readdir")}

(* The tasks that work in the trees; those of a manifest do not.           *)
Writers  == IF Writes THEN 1..job.write.concurrency ELSE {}
Statters == IF Meta \in {"build", "scan"} THEN 1..job.metadata.concurrency ELSE {}

NoScan  == [stack |-> <<>>, left |-> {}, found |-> {}, count |-> 0]
NoSweep == [stack |-> <<>>, left |-> {}]

NoTasks == [t \in {} |-> "off"]

Init ==
  /\ record = NoSection /\ job = NoSection
  /\ pc = "idle"
  /\ tree = Existing
  /\ batch = 0 /\ todo = {} /\ flying = {} /\ orphans = {} /\ scan = NoScan
  /\ writers = NoTasks /\ writeRunner = "off"
  /\ statters = NoTasks /\ made = NoTasks
  /\ sweep = NoSweep
  /\ rounds = 0 /\ faults = 0 /\ hit = FALSE /\ leftover = FALSE

-----------------------------------------------------------------------------
(* create_job: what cannot be parsed or is not valid is refused.           *)
CreateJob(p) ==
  /\ pc = "idle" /\ Accepts(p)
  /\ record' = [spec |-> Stored(p), credentials |-> Credentials(p)]
  /\ pc' = "fetch"
  /\ UNCHANGED <<job, treeVars, taskVars, sweep, boundVars, faults, hit>>

(* An operation of the file system may fail.                               *)

Fault   == faults < MaxFaults /\ faults' = faults + 1 /\ hit' = TRUE
NoFault == UNCHANGED <<faults, hit>>

(* Preparation.                                                            *)

AfterTree == IF HasConsistency(job) THEN "client" ELSE "ready"
AfterRoot == CASE Meta = "none"     -> AfterTree
               [] Meta = "manifest" -> "ready"
               [] OTHER             -> Meta

(* FetchJob: the slot, for the first time or again.                        *)
Fetch ==
  /\ pc = "fetch" /\ rounds < MaxRounds
  /\ rounds' = rounds + 1 /\ hit' = FALSE
  /\ IF Understands(record.spec) THEN job' = FromProto(record.spec) /\ pc' = "write_root"
     ELSE job' = job /\ pc' = "prepare_failed"
  /\ UNCHANGED <<record, treeVars, taskVars, sweep, leftover, faults>>

(* The others of the batch are dropped; what the file system has begun is  *)
(* carried out.                                                            *)
PreparationFails ==
  /\ pc' = "prepare_failed"
  /\ orphans' = orphans \cup flying /\ flying' = {} /\ todo' = {} /\ batch' = 0
  /\ scan' = NoScan

(* create_dir_all of the root of the write runner, if there is one.        *)
MakeWriteRoot ==
  /\ pc = "write_root"
  /\ \/ /\ tree' = IF Writes THEN tree \cup {WRoot} ELSE tree
        /\ pc' = AfterRoot
        /\ NoFault /\ UNCHANGED <<batch, todo, flying, orphans, scan>>
     \/ Writes /\ PreparationFails /\ Fault /\ UNCHANGED tree
  /\ UNCHANGED <<jobVars, taskVars, sweep, boundVars>>

(* create_dir_all of the metadata root; the layers follow.                 *)
MakeMetaRoot ==
  /\ pc = "build"
  /\ \/ /\ tree' = tree \cup {MetaRoot}
        /\ pc' = "layout" /\ batch' = 1 /\ todo' = Batches(job.metadata)[1]
        /\ NoFault /\ UNCHANGED <<flying, orphans, scan>>
     \/ PreparationFails /\ Fault /\ UNCHANGED tree
  /\ UNCHANGED <<jobVars, taskVars, sweep, boundVars>>

(* buffer_unordered starts the next operation.                             *)
StartOp(p) ==
  /\ pc = "layout" /\ p \in todo /\ Cardinality(flying) < job.metadata.layoutConcurrency
  /\ todo' = todo \ {p} /\ flying' = flying \cup {p}
  /\ UNCHANGED <<jobVars, pc, tree, batch, orphans, scan, taskVars, sweep, boundVars, faults, hit>>

(* create_dir fails if the path is there, or its parent is not.            *)
Succeeds(p) == HasParent(p) /\ (IsDir(p) => p \notin tree)

OpDone(p) ==
  /\ pc = "layout" /\ p \in flying
  /\ Succeeds(p)
  /\ tree' = tree \cup {p} /\ flying' = flying \ {p}
  /\ UNCHANGED <<jobVars, pc, batch, todo, orphans, scan, taskVars, sweep, boundVars, faults, hit>>

OpFails(p) ==
  /\ pc = "layout" /\ p \in flying
  /\ pc' = "prepare_failed"
  /\ orphans' = orphans \cup (flying \ {p}) /\ flying' = {} /\ todo' = {} /\ batch' = 0
  /\ (~Succeeds(p) /\ NoFault) \/ Fault
  /\ UNCHANGED <<jobVars, tree, scan, taskVars, sweep, boundVars>>

(* An operation nobody waits for any more.                                 *)
OrphanLands(p) ==
  /\ p \in orphans
  /\ orphans' = orphans \ {p}
  /\ tree' = IF Succeeds(p) THEN tree \cup {p} ELSE tree
  /\ UNCHANGED <<jobVars, pc, batch, todo, flying, scan, taskVars, sweep, boundVars, faults, hit>>

(* Mutant: the next batch does not wait for the operations under way.      *)
BatchDoneEarly == pc = "layout" /\ todo = {}

(* try_collect: every operation of the batch is done.                      *)
BatchDone == pc = "layout" /\ todo = {} /\ flying = {}

NextBatch ==
  /\ BatchDone
  /\ IF batch < Len(Batches(job.metadata))
     THEN batch' = batch + 1 /\ todo' = Batches(job.metadata)[batch + 1] /\ pc' = pc
     ELSE batch' = 0 /\ todo' = {} /\ pc' = AfterTree
  /\ UNCHANGED <<jobVars, tree, flying, orphans, scan, taskVars, sweep, boundVars, faults, hit>>

(* A read-only job looks at what is there, a directory at a time; what is  *)
(* neither a directory nor a file is only counted.                         *)
BeginScan ==
  /\ pc = "scan"
  /\ pc' = "scanning"
  /\ scan' = [stack |-> <<ScanRoot>>, left |-> {}, found |-> {ScanRoot}, count |-> 0]
  /\ UNCHANGED <<jobVars, tree, batch, todo, flying, orphans, taskVars, sweep, boundVars, faults, hit>>

ScanDirectory ==
  /\ pc = "scanning" /\ scan.left = {} /\ scan.stack # <<>>
  /\ \/ /\ scan' = [scan EXCEPT !.stack = Front(@), !.left = Children(Last(scan.stack))]
        /\ NoFault /\ UNCHANGED <<pc, batch, todo, flying, orphans>>
     \/ PreparationFails /\ Fault
  /\ UNCHANGED <<jobVars, tree, taskVars, sweep, boundVars>>

(* The limit ends the scan of this directory and of all others.            *)
LimitReached == job.metadata.scanLimit > 0 /\ scan.count + 1 >= job.metadata.scanLimit

ScanEntry(e) ==
  /\ pc = "scanning" /\ e \in scan.left
  /\ scan' = [stack |-> IF LimitReached THEN <<>>
                        ELSE IF IsDir(e) THEN Append(scan.stack, e) ELSE scan.stack,
              left  |-> IF LimitReached THEN {} ELSE scan.left \ {e},
              found |-> IF Last(e)[1] = "link" THEN scan.found ELSE scan.found \cup {e},
              count |-> scan.count + 1]
  /\ UNCHANGED <<jobVars, pc, tree, batch, todo, flying, orphans, taskVars, sweep, boundVars, faults, hit>>

(* stat and open need a file to work on.                                   *)
ScanDone ==
  /\ pc = "scanning" /\ scan.left = {} /\ scan.stack = <<>>
  /\ IF NeedsFiles(job.metadata) => \E p \in scan.found : ~IsDir(p)
     THEN pc' = AfterTree /\ UNCHANGED <<batch, todo, flying, orphans, scan>>
     ELSE PreparationFails
  /\ UNCHANGED <<jobVars, tree, taskVars, sweep, boundVars, faults, hit>>

(* ConsistencyClient::build, with the credentials sent beside the job.     *)
BuildClient ==
  /\ pc = "client"
  /\ \/ record.credentials # NoSection /\ pc' = "ready" /\ NoFault
     \/ pc' = "prepare_failed" /\ (Fault \/ (record.credentials = NoSection /\ NoFault))
  /\ UNCHANGED <<jobVars, treeVars, taskVars, sweep, boundVars>>

(* ReportReady(error): a PENDING job takes no notice and hands the slot    *)
(* out again, any other fails.                                             *)
ReadyError ==
  /\ pc = "prepare_failed"
  /\ pc' \in {"fetch", "over"}
  /\ leftover' = (leftover \/ orphans # {} \/ Under(MetaRoot) # {})
  /\ UNCHANGED <<jobVars, treeVars, taskVars, sweep, rounds, faults, hit>>

(* The barrier opens, or the job is cancelled or unknown: the worker turns *)
(* away from what it has prepared.                                         *)
BarrierOpens ==
  /\ pc = "ready"
  /\ pc' = "run"
  /\ writers'  = [t \in Writers |-> "on"]
  /\ statters' = [t \in Statters |-> "on"]
  /\ writeRunner' = IF Writes THEN "on" ELSE "over"
  /\ made' = [t \in Statters |-> 0]
  /\ UNCHANGED <<jobVars, treeVars, sweep, boundVars, faults, hit>>

GivenUp ==
  /\ pc = "ready"
  /\ pc' = "over" /\ leftover' = TRUE
  /\ UNCHANGED <<jobVars, treeVars, taskVars, sweep, rounds, faults, hit>>

-----------------------------------------------------------------------------
(* The runners.                                                            *)

(* A write makes the directory and then the file; each may fail.           *)
SubDir   == Append(WRoot, <<"sub", 1>>)
Data(t)  == Append(SubDir, <<"data", t>>)

WriteOp(t) ==
  /\ pc = "run" /\ writers[t] = "on"
  /\ \/ /\ tree' = tree \cup {WRoot, SubDir, Data(t)}
        /\ NoFault /\ UNCHANGED writers
     \/ /\ tree' \in {tree, tree \cup {WRoot, SubDir}}
        /\ Fault /\ writers' = [writers EXCEPT ![t] = "failed"]
  /\ UNCHANGED <<jobVars, pc, batch, todo, flying, orphans, scan, writeRunner, statters, made, sweep, boundVars>>

StatterWorks(t) == pc = "run" /\ statters[t] = "on"

(* stat, open, readdir: the target is not there, or cannot be read, or     *)
(* there is none to choose.                                                *)
TargetFails(t) ==
  /\ StatterWorks(t)
  /\ \E op \in job.metadata.ops \cap {"stat", "open", "readdir"} :
       (NoFault /\ (Targets(op) = {} \/ ~(Targets(op) \subseteq tree))) \/ Fault
  /\ statters' = [statters EXCEPT ![t] = "failed"]
  /\ UNCHANGED <<jobVars, pc, treeVars, writers, writeRunner, made, sweep, boundVars>>

(* create, mkdir: a new name in the directory of the task.                 *)
MakeEntry(t, op) ==
  LET p == Append(TaskRoot(t), <<op, made[t] + 1>>)
  IN  /\ StatterWorks(t) /\ op \in job.metadata.ops /\ made[t] < MaxNew
      /\ made' = [made EXCEPT ![t] = @ + 1]
      /\ \/ Succeeds(p) /\ tree' = tree \cup {p} /\ NoFault /\ UNCHANGED statters
         \/ /\ (~Succeeds(p) /\ NoFault) \/ Fault
            /\ statters' = [statters EXCEPT ![t] = "failed"] /\ UNCHANGED tree
      /\ UNCHANGED <<jobVars, pc, batch, todo, flying, orphans, scan, writers, writeRunner,
                     sweep, boundVars>>

(* The deadline, an abort or the end of the job, seen at the top of the    *)
(* loop.                                                                   *)
WriterEnds(t) ==
  /\ pc = "run" /\ writers[t] = "on"
  /\ writers' = [writers EXCEPT ![t] = "over"]
  /\ UNCHANGED <<jobVars, pc, treeVars, writeRunner, statters, made, sweep, boundVars, faults, hit>>

StatterEnds(t) ==
  /\ StatterWorks(t)
  /\ statters' = [statters EXCEPT ![t] = "over"]
  /\ UNCHANGED <<jobVars, pc, treeVars, writers, writeRunner, made, sweep, boundVars, faults, hit>>

-----------------------------------------------------------------------------
(* Removal.                                                                *)

(* A root that is not there is nothing to remove.                          *)
SweepOf(root) == [stack |-> IF root \in tree THEN <<<<root, FALSE>>>> ELSE <<>>, left |-> {}]

(* Mutant: the root goes as soon as one task has ended.                    *)
WritersOverOne == \E t \in DOMAIN writers : writers[t] \in {"over", "failed"}

WritersOver == \A t \in DOMAIN writers : writers[t] \in {"over", "failed"}

(* run_with_root: all tasks have ended, the root is removed if the job     *)
(* asks for it.  An error of the removal is only logged.                   *)
WriteCleanup ==
  /\ pc = "run" /\ writeRunner = "on"
  /\ WritersOver
  /\ IF job.write.cleanup THEN writeRunner' = "sweep" /\ sweep' = SweepOf(WRoot)
     ELSE writeRunner' = "over" /\ UNCHANGED sweep
  /\ UNCHANGED <<jobVars, pc, treeVars, writers, statters, made, boundVars, faults, hit>>

(* All runners are over: the metadata root is removed, if it was built.    *)
MetaCleanup ==
  /\ pc = "run" /\ writeRunner = "over"
  /\ \A t \in DOMAIN statters : statters[t] \in {"over", "failed"}
  /\ pc' = "sweep"
  /\ sweep' = IF Meta = "build" THEN SweepOf(MetaRoot) ELSE NoSweep
  /\ UNCHANGED <<jobVars, treeVars, taskVars, boundVars, faults, hit>>

(* The walk: the stack holds directories to be visited, and visited ones   *)
(* to be removed after their entries.                                      *)
Sweeping == writeRunner = "sweep" \/ pc = "sweep"
Top      == Last(sweep.stack)

VisitDirectory ==
  /\ Sweeping /\ sweep.left = {} /\ sweep.stack # <<>> /\ ~Top[2]
  /\ \/ sweep' = [stack |-> Append(Front(sweep.stack), <<Top[1], TRUE>>),
                   left |-> Children(Top[1])] /\ NoFault
     \/ sweep' = NoSweep /\ Fault
  /\ UNCHANGED <<jobVars, pc, treeVars, taskVars, boundVars>>

(* What has gone meanwhile is passed over; links count as files.           *)
RemoveEntry(e) ==
  /\ Sweeping /\ e \in sweep.left
  /\ \/ /\ e \in tree /\ IsDir(e)
        /\ sweep' = [stack |-> Append(sweep.stack, <<e, FALSE>>), left |-> sweep.left \ {e}]
        /\ NoFault /\ UNCHANGED tree
     \/ /\ ~(e \in tree /\ IsDir(e))
        /\ sweep' = [sweep EXCEPT !.left = @ \ {e}] /\ tree' = tree \ {e} /\ NoFault
     \/ sweep' = NoSweep /\ Fault /\ UNCHANGED tree
  /\ UNCHANGED <<jobVars, pc, batch, todo, flying, orphans, scan, taskVars, boundVars>>

(* remove_dir refuses a directory that has entries.                        *)
RemoveDirectory ==
  /\ Sweeping /\ sweep.left = {} /\ sweep.stack # <<>> /\ Top[2]
  /\ \/ /\ Children(Top[1]) = {}
        /\ tree' = tree \ {Top[1]} /\ sweep' = [sweep EXCEPT !.stack = Front(@)] /\ NoFault
     \/ Children(Top[1]) # {} /\ sweep' = NoSweep /\ UNCHANGED tree /\ NoFault
     \/ sweep' = NoSweep /\ UNCHANGED tree /\ Fault
  /\ UNCHANGED <<jobVars, pc, batch, todo, flying, orphans, scan, taskVars, boundVars>>

SweepDone ==
  /\ Sweeping /\ sweep.left = {} /\ sweep.stack = <<>>
  /\ IF pc = "sweep" THEN pc' = "report" /\ UNCHANGED writeRunner
     ELSE writeRunner' = "over" /\ UNCHANGED pc
  /\ UNCHANGED <<jobVars, treeVars, writers, statters, made, sweep, boundVars, faults, hit>>

(* The result is reported; if no reply ever comes the worker is handed the *)
(* slot again.                                                             *)
ReportResult ==
  /\ pc = "report"
  /\ pc' \in {"fetch", "over"}
  /\ leftover' = (leftover \/ (Meta = "build" /\ Under(MetaRoot) # {}))
  /\ scan' = NoScan /\ writeRunner' = "off"
  /\ writers' = NoTasks /\ statters' = NoTasks /\ made' = NoTasks
  /\ UNCHANGED <<jobVars, tree, batch, todo, flying, orphans, sweep, rounds, faults, hit>>

-----------------------------------------------------------------------------
Prepare == \/ \E p \in Protos : CreateJob(p)
           \/ Fetch \/ MakeWriteRoot \/ MakeMetaRoot \/ NextBatch
           \/ \E p \in todo : StartOp(p)
           \/ \E p \in flying : OpDone(p) \/ OpFails(p)
           \/ \E p \in orphans : OrphanLands(p)
           \/ BeginScan \/ ScanDirectory \/ ScanDone \/ \E e \in scan.left : ScanEntry(e)
           \/ BuildClient \/ ReadyError \/ BarrierOpens \/ GivenUp
Run     == \/ \E t \in DOMAIN writers : WriteOp(t) \/ WriterEnds(t)
           \/ \E t \in DOMAIN statters : \/ TargetFails(t) \/ StatterEnds(t)
                                        \/ \E op \in {"create", "mkdir"} : MakeEntry(t, op)
Removal == \/ WriteCleanup \/ MetaCleanup \/ VisitDirectory \/ RemoveDirectory \/ SweepDone
           \/ ReportResult \/ \E e \in sweep.left : RemoveEntry(e)

Next == Prepare \/ Run \/ Removal
Spec == Init /\ [][Next]_vars

-----------------------------------------------------------------------------
(* Properties.                                                             *)

TypeOK ==
  /\ pc \in {"idle", "fetch", "write_root", "build", "scan", "layout", "scanning", "client",
             "prepare_failed", "ready", "run", "sweep", "report", "over"}
  /\ IsTree(tree)
  /\ flying # {} => Cardinality(flying) <= job.metadata.layoutConcurrency
  /\ batch > 0 \/ orphans # {} =>
       Meta = "build" /\ todo \cup flying \cup orphans \subseteq Layout(job.metadata)
  /\ scan.found \subseteq Existing
  /\ scan.count > 0 /\ job.metadata.scanLimit > 0 => scan.count <= job.metadata.scanLimit
  /\ \A tasks \in {writers, statters} :
       \A t \in DOMAIN tasks : tasks[t] \in {"on", "over", "failed"}
  /\ writeRunner \in {"off", "on", "sweep", "over"}
  /\ \A t \in DOMAIN made : made[t] \in 0..MaxNew
  /\ rounds \in 0..MaxRounds /\ faults \in 0..MaxFaults /\ {hit, leftover} \subseteq BOOLEAN

(* A job the master has taken fails only for a cause: the worker takes it  *)
(* too, every operation it chooses has something to work on, and neither   *)
(* the concurrent making of the tree nor an earlier round that ran to its  *)
(* end nor the other runner makes an operation fail, unless that has been  *)
(* given the same directory.  A preparation may also fail over what an     *)
(* earlier one left behind, or for want of files in what may be scanned.   *)
IsFile(p) == ~IsDir(p) /\ Last(p)[1] # "link"

NoFilesInSight ==
  IF Meta = "scan"
  THEN NeedsFiles(job.metadata) /\ (job.metadata.scanLimit > 0 \/ \A p \in Existing : ~IsFile(p))
  ELSE FALSE

FailsForACause ==
  /\ pc = "prepare_failed" => hit \/ leftover \/ (job # NoSection /\ NoFilesInSight)
  /\ \A t \in DOMAIN writers : writers[t] = "failed" => hit
  /\ \A t \in DOMAIN statters : statters[t] = "failed" => hit \/ SharedDir

(* From the barrier to the removal the whole working set is there, and it  *)
(* is as large as was asked for and no larger than the caps allow.  (The   *)
(* write runner removes what shares its directory.)                        *)
LayoutStands ==
  /\ pc = "ready" \/ (pc = "run" /\ ~SharedDir) =>
       /\ Meta = "build" => Layout(job.metadata) \subseteq tree
       /\ InUse \subseteq tree
  /\ pc = "ready" /\ Meta = "build" =>
       /\ Cardinality(Directories(job.metadata)) = TotalDirs(job.metadata)
       /\ Cardinality(Directories(job.metadata)) <= Caps.totalDirs
       /\ Cardinality(Files(job.metadata)) <= Caps.totalFiles
  /\ pc = "run" /\ writeRunner = "on" => WRoot \in tree

SetStands == TypeOK /\ LayoutStands

(* After a run in which the file system did its work nothing is left of    *)
(* the metadata tree, nor of the written one if the job asks for that,     *)
(* however the tasks ended; what was there before is untouched.            *)
RunLeavesNothing ==
  /\ pc = "report" /\ ~hit /\ ~leftover =>
       /\ Meta = "build" => Under(MetaRoot) = {}
       /\ Writes => (job.write.cleanup => Under(WRoot) = {})
  /\ Under(ScanRoot) = Existing
=============================================================================
