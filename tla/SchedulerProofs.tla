-------------------------- MODULE SchedulerProofs --------------------------
(***************************************************************************)
(* Proofs about Scheduler, for any finite set of workers and any set of    *)
(* jobs with any crew sizes.                                               *)
(***************************************************************************)
EXTENDS SchedulerInv, FiniteSetTheorems, SequenceTheorems,
        WellFoundedInduction, TLAPS

-----------------------------------------------------------------------------
(* Lemmas about the helpers.                                               *)

(* Sets of workers are finite, so counting them is safe.                   *)
LEMMA WorkerSets ==
  ASSUME NEW S \in SUBSET Workers
  PROVE  IsFiniteSet(S) /\ Cardinality(S) \in Nat
BY SchedulerAssumption, FS_Subset, FS_CardinalityType

(* The number of filled slots is a number.                                 *)
LEMMA FilledType ==
  ASSUME NEW j \in Jobs
  PROVE  Assigned(j) \in SUBSET Workers /\ Filled(j) \in Nat
BY WorkerSets DEF Assigned, Filled

(* Removing a job from the queue cuts out one place where it stands.       *)
LEMMA WithoutCuts ==
  ASSUME NEW q \in Seq(Jobs), NEW j \in Jobs, \E p \in 1..Len(q) : q[p] = j
  PROVE  \E p \in 1..Len(q) :
           /\ q[p] = j
           /\ Without(q, j) = SubSeq(q, 1, p - 1) \o SubSeq(q, p + 1, Len(q))
<1> DEFINE p == CHOOSE i \in 1..Len(q) : q[i] = j /\ \A k \in 1..(i - 1) : q[k] # j
<1>1. Without(q, j) = SubSeq(q, 1, p - 1) \o SubSeq(q, p + 1, Len(q))
  BY DEF Without
<1> DEFINE P == {i \in 1..Len(q) : q[i] = j}
<1>2. P \in SUBSET Nat /\ P # {}
  OBVIOUS
<1>3. PICK n \in P : \A m \in P : n <= m
  <2>1. PICK n \in P : \A m \in P : <<m, n>> \notin OpToRel(<, Nat)
    BY <1>2, NatLessThanWellFounded, WFMin
  <2>2. \A a, b \in Nat : a < b => <<a, b>> \in OpToRel(<, Nat)
    BY Zenon DEF OpToRel
  <2>3. n \in P /\ \A m \in P : n \in Nat /\ m \in Nat /\ ~(m < n)
    BY <1>2, <2>1, <2>2, Zenon
  <2>4. \A a, b \in Nat : ~(a < b) => b <= a
    OBVIOUS
  <2> HIDE DEF P
  <2> QED BY <2>3, <2>4
<1>4. n \in 1..Len(q) /\ q[n] = j /\ \A k \in 1..(n - 1) : q[k] # j
  BY <1>3
<1>5. p \in 1..Len(q) /\ q[p] = j
  BY <1>4
<1> QED BY <1>1, <1>5

(* It leaves a queue of jobs.                                              *)
LEMMA WithoutType ==
  ASSUME NEW q \in Seq(Jobs), NEW j \in Jobs
  PROVE  Without(q, j) \in Seq(Jobs)
<1>1. CASE \E p \in 1..Len(q) : q[p] = j
  <2>1. PICK p \in 1..Len(q) :
          Without(q, j) = SubSeq(q, 1, p - 1) \o SubSeq(q, p + 1, Len(q))
    BY <1>1, WithoutCuts
  <2>2. SubSeq(q, 1, p - 1) \in Seq(Jobs)
    BY SubSeqProperties, \A i \in 1..(p - 1) : q[i] \in Jobs
  <2>3. SubSeq(q, p + 1, Len(q)) \in Seq(Jobs)
    BY SubSeqProperties, \A i \in (p + 1)..Len(q) : q[i] \in Jobs
  <2> QED BY <2>1, <2>2, <2>3, ConcatProperties
<1>2. CASE ~\E p \in 1..Len(q) : q[p] = j
  BY <1>2 DEF Without
<1> QED BY <1>1, <1>2

-----------------------------------------------------------------------------
(* Type correctness.                                                       *)

USE SchedulerAssumption

(* The clean-up that a handler leaves behind is well formed.               *)
LEMMA RestType ==
  ASSUME NEW op \in {"enqueue", "dequeue", "release"}, NEW j \in Jobs,
         NEW crew \in SUBSET Workers, NEW c \in Workers \cup {None}
  PROVE  Rest(op, j, crew, c) \in Tails
BY DEF Rest, Tails

(* The daemons' part of the type invariant.                                *)
DaemonOK ==
  /\ at    \in [Workers -> Jobs \cup {None}]
  /\ stage \in [Workers -> Stages]
  /\ told  \in [Workers -> {"no", "cancelled", "unknown"}]
  /\ BusyInv

(* Whatever a daemon does between two calls keeps its variables typed.     *)
LEMMA DaemonMoves ==
  ASSUME DaemonOK, NEW w \in Workers
  PROVE  /\ Stay => DaemonOK'
         /\ GoIdle(w) => DaemonOK'
         /\ \A s \in Stages : at[w] # None /\ GoTo(w, s) => DaemonOK'
         /\ \A j \in Jobs : Receive(w, j) => DaemonOK'
<1>1. Stay => DaemonOK'
  BY DEF Stay, DaemonOK, BusyInv
<1>2. ASSUME GoIdle(w) PROVE DaemonOK'
  BY <1>2 DEF GoIdle, DaemonOK, BusyInv, Stages
<1>3. ASSUME NEW s \in Stages, at[w] # None, GoTo(w, s) PROVE DaemonOK'
  BY <1>3 DEF GoTo, DaemonOK, BusyInv
<1>4. ASSUME NEW j \in Jobs, Receive(w, j) PROVE DaemonOK'
  BY <1>1, <1>4 DEF Receive, DaemonOK, BusyInv, Stages
<1> QED BY <1>1, <1>2, <1>3, <1>4

(* The master's part.                                                      *)
MasterOK ==
  /\ status  \in [Jobs -> Status]
  /\ slot    \in [Jobs -> [Workers -> Nat \cup {Free}]]
  /\ run     \in [Jobs -> SUBSET Workers]
  /\ ready   \in [Jobs -> SUBSET Workers]
  /\ opened  \in [Jobs -> BOOLEAN]
  /\ result  \in [Jobs -> [Workers -> {"none", "ok", "fail"}]]
  /\ reader  \in SUBSET Jobs
  /\ pending \in Seq(Jobs)
  /\ active  \in [Workers -> Jobs \cup {None}]
  /\ tail    \in SUBSET Tails
  /\ doomed  \in SUBSET Jobs
  /\ leaving \in SUBSET Workers

(* The two parts together are the invariant that is proved by induction.   *)
LEMMA TypeSplit == TypeOK /\ BusyInv <=> MasterOK /\ DaemonOK
BY DEF TypeOK, MasterOK, DaemonOK

LEMMA TypeCli ==
  ASSUME MasterOK, DaemonOK, NEW j \in Jobs, CliStep(j)
  PROVE  MasterOK' /\ DaemonOK'
<1>1. CASE CreateJob(j)
  BY <1>1, RestType, DaemonMoves
  DEF MasterOK, DaemonOK, BusyInv, CreateJob, Status, LiveStatus, workerVars
<1>2. CASE DeleteJob(j)
  <2>1. tail' \in SUBSET Tails
    BY <1>2, RestType, FilledType DEF MasterOK, DeleteJob
  <2> QED
    BY <1>2, <2>1
    DEF MasterOK, DaemonOK, BusyInv, DeleteJob, CleanupOnTerminal, Status, TerminalStatus,
        workerVars
<1> QED BY <1>1, <1>2 DEF CliStep

LEMMA TypeTail ==
  ASSUME MasterOK, DaemonOK, NEW h \in tail, TailStep(h)
  PROVE  MasterOK' /\ DaemonOK'
<1>0. h \in Tails /\ h.job \in Jobs /\ h.crew \in SUBSET Workers
                 /\ h.caller \in Workers \cup {None}
  BY DEF Tails, MasterOK
<1>1. CASE Enqueue(h)
  BY <1>0, <1>1, AppendProperties DEF MasterOK, DaemonOK, BusyInv, Enqueue, jobVars, workerVars
<1>2. CASE Dequeue(h)
  <2>1. [h EXCEPT !.op = "release"] \in Tails
    BY <1>0 DEF Tails
  <2>2. pending' \in Seq(Jobs)
    BY <1>0, <1>2, WithoutType DEF Dequeue, MasterOK
  <2> QED
    BY <1>2, <2>1, <2>2 DEF MasterOK, DaemonOK, BusyInv, Dequeue, jobVars, workerVars
<1>3. CASE Release(h)
  <2>1. DaemonOK'
    <3>1. CASE h.caller = None
      <4>1. Stay
        BY <1>3, <3>1 DEF Release
      <4>2. DaemonOK'
        BY <4>1 DEF Stay, DaemonOK, BusyInv
      <4> QED BY <4>2
    <3>2. CASE h.caller # None
      BY <1>0, <1>3, <3>2, DaemonMoves DEF Release
    <3> QED BY <3>1, <3>2
  <2> QED BY <1>0, <1>3, <2>1 DEF MasterOK, Release, Unbind, jobVars
<1>4. CASE LoseReply(h)
  <2>1. [h EXCEPT !.caller = None] \in Tails
    BY <1>0 DEF Tails
  <2>2. DaemonOK'
    BY <1>0, <1>4, DaemonMoves DEF LoseReply
  <2> QED BY <1>4, <2>1, <2>2 DEF MasterOK, LoseReply, jobVars
<1> QED BY <1>1, <1>2, <1>3, <1>4 DEF TailStep

(* FetchJob: the job served is taken from the queue, which only gets       *)
(* shorter.                                                                *)
LEMMA TypeFetch ==
  ASSUME MasterOK, DaemonOK, NEW w \in Workers, FetchJob(w)
  PROVE  MasterOK' /\ DaemonOK'
<1>1. CASE FetchReplay(w)
  <2>1. active[w] \in Jobs
    BY <1>1 DEF FetchReplay, Replayable, MasterOK
  <2>2. DaemonOK'
    BY <1>1, <2>1, DaemonMoves DEF FetchReplay
  <2> QED BY <1>1, <2>2 DEF MasterOK, FetchReplay, jobVars, tableVars
<1>2. CASE FetchAssign(w)
  <2>1. PICK k \in 1..Len(pending) :
          LET j      == pending[k]
              ahead  == {pending[i] : i \in 1..(k - 1)}
              filled == Cardinality(Assigned(j) \cup {w}) >= Target[j]
              full   == {x \in ahead : status[x] = "PENDING"}
          IN  /\ TryAssign(j, w)
              /\ EnterPreparing(IF filled THEN full \cup {j} ELSE full)
              /\ active'  = [active EXCEPT ![w] = j]
              /\ pending' = Drop(k, filled)
              /\ reader'  = IF filled THEN reader \cup ({j} \cap ManifestJobs) ELSE reader
              /\ Receive(w, j)
    BY <1>2, Zenon DEF FetchAssign
  <2> DEFINE j == pending[k]
  <2>2. j \in Jobs
    BY DEF MasterOK
  <2>3. slot' \in [Jobs -> [Workers -> Nat \cup {Free}]]
    <3>1. Filled(j) \in Nat
      BY <2>2, FilledType
    <3>2. slot' = [slot EXCEPT ![j][w] = Filled(j)]
      BY <2>1 DEF TryAssign
    <3> QED BY <2>2, <3>1, <3>2 DEF MasterOK
  <2>4. status' \in [Jobs -> Status] /\ run' \in [Jobs -> SUBSET Workers]
    BY <2>1 DEF EnterPreparing, Status, LiveStatus, MasterOK
  <2>5. pending' \in Seq(Jobs)
    <3>1. \A n \in {k, k + 1} : SubSeq(pending, n, Len(pending)) \in Seq(Jobs)
      <4> TAKE n \in {k, k + 1}
      <4>1. \A i \in n..Len(pending) : pending[i] \in Jobs
        BY DEF MasterOK
      <4> QED BY <4>1, SubSeqProperties DEF MasterOK
    <3> QED BY <2>1, <3>1 DEF Drop
  <2>6. DaemonOK'
    BY <2>1, <2>2, DaemonMoves
  <2>7. /\ active' \in [Workers -> Jobs \cup {None}]
        /\ reader' \in SUBSET Jobs
    BY <2>1, <2>2 DEF MasterOK
  <2>8. UNCHANGED <<ready, opened, result, tail, doomed, leaving>>
    BY <1>2 DEF FetchAssign
  <2> QED BY <2>3, <2>4, <2>5, <2>6, <2>7, <2>8 DEF MasterOK
<1>3. CASE FetchNothing(w)
  <2>1. status' \in [Jobs -> Status] /\ run' \in [Jobs -> SUBSET Workers]
    BY <1>3 DEF FetchNothing, EnterPreparing, Status, LiveStatus, MasterOK
  <2>2. DaemonOK'
    BY <1>3, DaemonMoves DEF FetchNothing
  <2> QED BY <1>3, <2>1, <2>2 DEF FetchNothing, MasterOK
<1> QED BY <1>1, <1>2, <1>3 DEF FetchJob

LEMMA TypeReady ==
  ASSUME MasterOK, DaemonOK, NEW w \in Workers, ReportReady(w)
  PROVE  MasterOK' /\ DaemonOK'
<1>1. CASE ReadyRefused(w)
  <2>1. at[w] # None
    BY <1>1 DEF ReadyRefused, DaemonOK, BusyInv
  <2>2. DaemonOK'
    BY <1>1, <2>1, DaemonMoves DEF ReadyRefused, Stages
  <2> QED BY <1>1, <2>2 DEF ReadyRefused, MasterOK, jobVars, tableVars
<1>2. CASE ReadyCounted(w)
  <2>1. at[w] \in Jobs
    BY <1>2 DEF ReadyCounted, DaemonOK, BusyInv
  <2>2. DaemonOK'
    BY <1>2, <2>1, DaemonMoves DEF ReadyCounted, BarrierReply, Stages
  <2> QED
    BY <1>2, <2>1, <2>2 DEF ReadyCounted, MasterOK, Opens, Status, LiveStatus, tableVars
<1>3. CASE ReadyErrorFails(w)
  <2>1. at[w] \in Jobs
    BY <1>3 DEF ReadyErrorFails, DaemonOK, BusyInv
  <2>2. tail' \in SUBSET Tails
    BY <1>3, <2>1, RestType, FilledType DEF ReadyErrorFails, MasterOK
  <2> QED
    BY <1>3, <2>1, <2>2
    DEF ReadyErrorFails, MasterOK, DaemonOK, BusyInv, CleanupOnTerminal, Status,
        TerminalStatus, workerVars
<1>4. CASE ReadyErrorIgnored(w)
  BY <1>4, DaemonMoves DEF ReadyErrorIgnored, MasterOK, jobVars, tableVars
<1> QED BY <1>1, <1>2, <1>3, <1>4 DEF ReportReady

LEMMA TypeResult ==
  ASSUME MasterOK, DaemonOK, NEW w \in Workers, ReportResult(w)
  PROVE  MasterOK' /\ DaemonOK'
<1>1. at[w] \in Jobs
  BY DEF ReportResult, ResultCounted, ResultIgnored, Reporting, DaemonOK, BusyInv
<1>2. tail' \in SUBSET Tails
  BY <1>1, RestType DEF ReportResult, ResultCounted, ResultIgnored, MasterOK
<1>3. CASE ResultCounted(w)
  <2>1. Outcome(at[w], w) \in Status
    BY <1>1 DEF Outcome, Status, TerminalStatus, MasterOK
  <2>2. Verdict(w) \in {"ok", "fail"}
    BY DEF Verdict
  <2>3. /\ status' \in [Jobs -> Status]
        /\ result' \in [Jobs -> [Workers -> {"none", "ok", "fail"}]]
        /\ reader' \in SUBSET Jobs
    <3>1. reader' \in SUBSET Jobs
      BY <1>3 DEF ResultCounted, MasterOK, CleanupOnTerminal
    <3>2. result' = [result EXCEPT ![at[w]][w] = Verdict(w)]
      BY <1>3 DEF ResultCounted
    <3>3. status' = [status EXCEPT ![at[w]] = Outcome(at[w], w)]
      BY <1>3 DEF ResultCounted
    <3> QED BY <1>1, <2>1, <2>2, <3>1, <3>2, <3>3 DEF MasterOK
  <2> QED
    BY <1>2, <1>3, <2>3 DEF ResultCounted, MasterOK, DaemonOK, BusyInv, workerVars
<1>4. CASE ResultIgnored(w)
  BY <1>2, <1>4 DEF ResultIgnored, MasterOK, DaemonOK, BusyInv, jobVars, workerVars
<1> QED BY <1>3, <1>4 DEF ReportResult

LEMMA TypeLocal ==
  ASSUME MasterOK, DaemonOK, NEW w \in Workers, LocalStep(w) \/ ProgressRefused(w)
  PROVE  MasterOK' /\ DaemonOK'
<1>1. stage[w] \notin {"idle", "gone"} => at[w] # None
  BY DEF DaemonOK, BusyInv
<1>2. CASE PreflightDone(w)
  BY <1>1, <1>2, DaemonMoves DEF PreflightDone, MasterOK, Stages, jobVars, tableVars
<1>3. CASE BarrierCancelled(w)
  BY <1>1, <1>3, DaemonMoves DEF BarrierCancelled, MasterOK, Stages, jobVars, tableVars
<1>4. CASE RunEnds(w)
  BY <1>1, <1>4, DaemonMoves DEF RunEnds, MasterOK, Stages, jobVars, tableVars
<1>5. CASE GiveUp(w)
  BY <1>5, DaemonMoves DEF GiveUp, MasterOK, jobVars, tableVars
<1>6. CASE Shutdown(w)
  BY <1>6 DEF Shutdown, MasterOK, DaemonOK, BusyInv, Stages, jobVars, tableVars
<1>7. CASE Crash(w)
  <2>1. tail' \in SUBSET Tails
    <3>1. \A h \in Tails : [h EXCEPT !.caller = None] \in Tails
      BY DEF Tails
    <3>2. tail' = {IF h.caller = w THEN [h EXCEPT !.caller = None] ELSE h : h \in tail}
      BY <1>7 DEF Crash
    <3>3. tail \in SUBSET Tails
      BY DEF MasterOK
    <3> HIDE DEF Tails
    <3> QED BY <3>1, <3>2, <3>3
  <2> QED BY <1>7, <2>1 DEF Crash, MasterOK, DaemonOK, BusyInv, Stages, jobVars
<1>8. CASE ProgressRefused(w)
  BY <1>8 DEF ProgressRefused, MasterOK, DaemonOK, BusyInv, jobVars, tableVars
<1> QED BY <1>2, <1>3, <1>4, <1>5, <1>6, <1>7, <1>8 DEF LocalStep

LEMMA TypeBackground ==
  ASSUME MasterOK, DaemonOK,
         \/ \E j \in Jobs : ReaderStep(j)
         \/ \E J \in SUBSET Jobs : StalenessTick(J) \/ GcSelect(J)
         \/ GcRemove
  PROVE  MasterOK' /\ DaemonOK'
<1>1. UNCHANGED workerVars
  BY DEF ReaderStep, ManifestFails, ManifestEnds, StalenessTick, GcSelect, GcRemove
<1>2. DaemonOK' /\ leaving' \in SUBSET Workers
  BY <1>1 DEF DaemonOK, BusyInv, MasterOK, workerVars
<1>3. ASSUME NEW j \in Jobs, ManifestFails(j) PROVE MasterOK'
  <2>1. tail' \in SUBSET Tails
    BY <1>3, RestType, FilledType DEF ManifestFails, MasterOK
  <2> QED
    BY <1>2, <1>3, <2>1 DEF ManifestFails, MasterOK, CleanupOnTerminal, Status, TerminalStatus
<1>4. ASSUME NEW j \in Jobs, ManifestEnds(j) PROVE MasterOK'
  BY <1>2, <1>4 DEF ManifestEnds, MasterOK, tableVars
<1>5. ASSUME NEW J \in SUBSET Jobs, StalenessTick(J) PROVE MasterOK'
  <2>1. tail' \in SUBSET Tails
    BY <1>5, RestType, FilledType DEF StalenessTick, MasterOK
  <2> QED
    BY <1>2, <1>5, <2>1 DEF StalenessTick, MasterOK, CleanupOnTerminal, Status, TerminalStatus
<1>6. ASSUME NEW J \in SUBSET Jobs, GcSelect(J) PROVE MasterOK'
  BY <1>2, <1>6 DEF GcSelect, MasterOK, jobVars
<1>7. CASE GcRemove
  BY <1>2, <1>7 DEF GcRemove, Erase, MasterOK, Status
<1> QED BY <1>2, <1>3, <1>4, <1>5, <1>6, <1>7 DEF ReaderStep

LEMMA TypeStutter ==
  ASSUME MasterOK, DaemonOK, UNCHANGED vars
  PROVE  MasterOK' /\ DaemonOK'
BY DEF MasterOK, DaemonOK, BusyInv, vars, jobVars, tableVars, workerVars

-----------------------------------------------------------------------------
(* The job records.                                                        *)

(* A step that leaves the fields of a record alone.                        *)
SameRecord(j) ==
  /\ status'[j] = status[j] /\ slot'[j] = slot[j]     /\ run'[j] = run[j]
  /\ ready'[j] = ready[j]   /\ opened'[j] = opened[j] /\ result'[j] = result[j]

(* The derived sets depend on the fields of the record only.               *)
LEMMA SameSlots ==
  ASSUME NEW j \in Jobs, slot'[j] = slot[j]
  PROVE  Assigned(j)' = Assigned(j) /\ Filled(j)' = Filled(j) /\ (SlotsOK(j) => SlotsOK(j)')
<1>1. Assigned(j)' = Assigned(j)
  BY DEF Assigned
<1>2. Filled(j)' = Filled(j)
  BY <1>1 DEF Filled
<1>3. {slot'[j][w] : w \in Assigned(j)'} = {slot[j][w] : w \in Assigned(j)}
  BY <1>1
<1> QED BY <1>1, <1>2, <1>3 DEF SlotsOK

LEMMA SameResults ==
  ASSUME NEW j \in Jobs, result'[j] = result[j]
  PROVE  Reported(j)' = Reported(j)
BY DEF Reported

LEMMA SameRecordOK ==
  ASSUME NEW j \in Jobs, RecordOK(j), SameRecord(j)
  PROVE  RecordOK(j)'
<1>1. /\ Assigned(j)' = Assigned(j) /\ Filled(j)' = Filled(j)
      /\ SlotsOK(j)' /\ Reported(j)' = Reported(j)
  BY SameSlots, SameResults DEF SameRecord, RecordOK
<1>2. BlankOK(j)' /\ CrewOK(j)' /\ VerdictOK(j)'
  BY <1>1 DEF RecordOK, SameRecord, BlankOK, CrewOK, VerdictOK
<1> QED BY <1>1, <1>2 DEF RecordOK

(* A live job that fails or is cancelled keeps everything but its status.  *)
LEMMA EndedRecordOK ==
  ASSUME NEW j \in Jobs, RecordOK(j), status'[j] \in {"FAILED", "CANCELLED"},
         slot'[j] = slot[j], run'[j] = run[j], ready'[j] = ready[j],
         opened'[j] = opened[j], result'[j] = result[j]
  PROVE  RecordOK(j)'
<1>1. /\ Assigned(j)' = Assigned(j) /\ Filled(j)' = Filled(j)
      /\ SlotsOK(j)' /\ Reported(j)' = Reported(j)
  BY SameSlots, SameResults DEF RecordOK
<1>2. BlankOK(j)' /\ CrewOK(j)' /\ VerdictOK(j)'
  BY <1>1 DEF RecordOK, BlankOK, CrewOK, VerdictOK
<1> QED BY <1>1, <1>2 DEF RecordOK

(* A record with every field blank.                                        *)
LEMMA BlankRecordOK ==
  ASSUME NEW j \in Jobs, status[j] \in {"unborn", "collected", "PENDING"},
         \A w \in Workers : slot[j][w] = Free /\ result[j][w] = "none",
         run[j] = {}, ready[j] = {}, ~opened[j]
  PROVE  RecordOK(j)
<1>1. Assigned(j) = {} /\ Reported(j) = {}
  BY DEF Assigned, Reported
<1>2. Filled(j) = 0 /\ Target[j] \in Nat \ {0}
  BY <1>1, FS_EmptySet DEF Filled
<1>3. {slot[j][w] : w \in Assigned(j)} = {} /\ 0..(Filled(j) - 1) = {}
  BY <1>1, <1>2
<1> QED
  BY <1>1, <1>2, <1>3 DEF RecordOK, SlotsOK, BlankOK, CrewOK, VerdictOK

LEMMA BlankedRecordOK ==
  ASSUME NEW j \in Jobs, status'[j] \in {"unborn", "collected", "PENDING"},
         \A w \in Workers : slot'[j][w] = Free /\ result'[j][w] = "none",
         run'[j] = {}, ready'[j] = {}, ~opened'[j]
  PROVE  RecordOK(j)'
<1>1. Assigned(j)' = {} /\ Reported(j)' = {}
  BY DEF Assigned, Reported
<1>2. Filled(j)' = 0 /\ Target[j] \in Nat \ {0}
  BY <1>1, FS_EmptySet DEF Filled
<1>3. {slot'[j][w] : w \in Assigned(j)'} = {} /\ 0..(Filled(j)' - 1) = {}
  BY <1>1, <1>2
<1> QED
  BY <1>1, <1>2, <1>3 DEF RecordOK, SlotsOK, BlankOK, CrewOK, VerdictOK

(* A new slot gets the next index: the indices stay 0, 1, ... without gap. *)
LEMMA NextSlot ==
  ASSUME MasterOK, NEW j \in Jobs, RecordOK(j), NEW w \in Workers, w \notin Assigned(j),
         Filled(j) < Target[j], TryAssign(j, w)
  PROVE  /\ Assigned(j)' = Assigned(j) \cup {w}
         /\ Filled(j)' = Filled(j) + 1
         /\ SlotsOK(j)'
         /\ \A i \in Jobs \ {j} : slot'[i] = slot[i]
<1>1. slot' = [slot EXCEPT ![j][w] = Filled(j)] /\ Filled(j) \in Nat /\ Target[j] \in Nat
  BY FilledType DEF TryAssign
<1>2. /\ \A v \in Workers : slot'[j][v] = IF v = w THEN Filled(j) ELSE slot[j][v]
      /\ \A i \in Jobs \ {j} : slot'[i] = slot[i]
  BY <1>1 DEF MasterOK
<1>3. Assigned(j)' = Assigned(j) \cup {w}
  BY <1>1, <1>2 DEF Assigned, Free
<1>4. Filled(j)' = Filled(j) + 1
  <2>1. IsFiniteSet(Assigned(j))
    BY FilledType, WorkerSets
  <2> QED BY <1>3, <2>1, FS_AddElement DEF Filled
<1>5. {slot'[j][v] : v \in Assigned(j)'} = {slot[j][v] : v \in Assigned(j)} \cup {Filled(j)}
  BY <1>2, <1>3, FilledType
<1>6. 0..(Filled(j)' - 1) = 0..(Filled(j) - 1) \cup {Filled(j)}
  BY <1>1, <1>4
<1> QED BY <1>1, <1>2, <1>3, <1>4, <1>5, <1>6 DEF SlotsOK, RecordOK

LEMMA RecordCli ==
  ASSUME MasterOK, RecordInv, NEW i \in Jobs, CliStep(i)
  PROVE  RecordInv'
<1> SUFFICES ASSUME NEW j \in Jobs PROVE RecordOK(j)'
  BY DEF RecordInv
<1>1. RecordOK(j)
  BY DEF RecordInv
<1>2. CASE j # i
  BY <1>1, <1>2, SameRecordOK DEF CliStep, CreateJob, DeleteJob, SameRecord, MasterOK
<1>3. CASE j = i /\ CreateJob(i)
  <2>1. Assigned(j) = {} /\ run[j] = {}
    BY <1>1, <1>3 DEF CreateJob, RecordOK, BlankOK
  <2>2. /\ \A w \in Workers : slot[j][w] = Free /\ result[j][w] = "none"
        /\ ready[j] = {} /\ ~opened[j]
    BY <1>1, <2>1 DEF RecordOK, CrewOK, Assigned, Reported
  <2>3. status'[j] = "PENDING"
    BY <1>3 DEF CreateJob, MasterOK
  <2> QED BY <1>3, <2>1, <2>2, <2>3, BlankedRecordOK DEF CreateJob
<1>4. CASE j = i /\ DeleteJob(i)
  BY <1>1, <1>4, EndedRecordOK DEF DeleteJob, MasterOK
<1> QED BY <1>2, <1>3, <1>4 DEF CliStep

(* FetchJob serves one job and advances no other: the jobs ahead of it in  *)
(* the queue have left PENDING.                                            *)
LEMMA FetchOne ==
  ASSUME MasterOK, RecordInv, NEW w \in Workers, FetchAssign(w)
  PROVE  \E i \in Jobs :
           /\ Open(i) /\ TryAssign(i, w)
           /\ EnterPreparing(IF Cardinality(Assigned(i) \cup {w}) >= Target[i] THEN {i} ELSE {})
<1>1. PICK k \in 1..Len(pending) :
        LET i     == pending[k]
            ahead == {pending[n] : n \in 1..(k - 1)}
            full  == {x \in ahead : status[x] = "PENDING"}
        IN  /\ Open(i)
            /\ \A x \in ahead : ~Open(x)
            /\ TryAssign(i, w)
            /\ EnterPreparing(IF Cardinality(Assigned(i) \cup {w}) >= Target[i]
                              THEN full \cup {i} ELSE full)
  BY Zenon DEF FetchAssign
<1>2. {x \in {pending[n] : n \in 1..(k - 1)} : status[x] = "PENDING"} = {}
  <2>1. \A n \in 1..(k - 1) : pending[n] \in Jobs /\ RecordOK(pending[n])
    BY DEF MasterOK, RecordInv
  <2> QED BY <1>1, <2>1 DEF Open, RecordOK, BlankOK
<1>3. pending[k] \in Jobs
  BY DEF MasterOK
<1> QED BY <1>1, <1>2, <1>3

(* Nor does a FetchJob that finds nothing to serve.                        *)
LEMMA FetchNone ==
  ASSUME MasterOK, RecordInv, NEW w \in Workers, FetchNothing(w)
  PROVE  UNCHANGED <<status, run>>
<1>1. \A i \in Jobs : status[i] = "PENDING" => Open(i)
  BY DEF RecordInv, RecordOK, BlankOK, Open
<1>2. {pending[k] : k \in 1..Len(pending)} \cap {i \in Jobs : status[i] = "PENDING"} = {}
  BY <1>1 DEF FetchNothing
<1>3. EnterPreparing({})
  BY <1>2 DEF FetchNothing
<1> QED BY <1>3 DEF EnterPreparing, MasterOK

LEMMA RecordFetch ==
  ASSUME MasterOK, RecordInv, NEW w \in Workers, FetchJob(w),
         \A j \in Jobs : status[j] = "PENDING" /\ w \in Assigned(j) => active[w] = j
  PROVE  RecordInv'
<1> SUFFICES ASSUME NEW j \in Jobs PROVE RecordOK(j)'
  BY DEF RecordInv
<1>1. RecordOK(j)
  BY DEF RecordInv
<1>2. CASE FetchReplay(w)
  BY <1>1, <1>2, SameRecordOK DEF FetchReplay, jobVars, SameRecord
<1>3. CASE FetchAssign(w)
  <2> DEFINE fills(i) == Cardinality(Assigned(i) \cup {w}) >= Target[i]
  <2>1. PICK i \in Jobs :
          Open(i) /\ TryAssign(i, w) /\ EnterPreparing(IF fills(i) THEN {i} ELSE {})
    BY <1>3, FetchOne
  <2>2. RecordOK(i)
    BY DEF RecordInv
  <2>3. status[i] = "PENDING" /\ Filled(i) < Target[i]
    BY <2>1 DEF Open
  <2>4. w \notin Assigned(i)
    <3>1. SUFFICES ASSUME w \in Assigned(i) PROVE FALSE
      OBVIOUS
    <3>2. active[w] = i /\ Accepts(i, w) /\ i # None
      BY <2>3, <3>1 DEF Accepts, Assigned, Live, LiveStatus
    <3> QED BY <1>3, <3>2 DEF FetchAssign, Replayable
  <2>5. /\ Assigned(i)' = Assigned(i) \cup {w} /\ Filled(i)' = Filled(i) + 1
        /\ SlotsOK(i)' /\ \A n \in Jobs \ {i} : slot'[n] = slot[n]
    BY <2>2, <2>3, <2>4, <2>1, NextSlot
  <2>6. UNCHANGED <<ready, opened, result>>
    BY <1>3 DEF FetchAssign
  <2>7. CASE j # i
    <3>1. status'[j] = status[j] /\ run'[j] = run[j]
      BY <2>1, <2>7 DEF EnterPreparing
    <3> QED BY <1>1, <2>5, <2>6, <2>7, <3>1, SameRecordOK DEF SameRecord
  <2>8. CASE j = i
    <3>1. Filled(i)' = Cardinality(Assigned(i) \cup {w})
      BY <2>5 DEF Filled
    <3>2. fills(i) <=> Filled(i)' = Target[i]
      BY <2>3, <2>5, <3>1, FilledType
    <3>3. /\ run[i] = {} /\ ~opened[i] /\ Reported(i) = {}
          /\ ready[i] \subseteq Assigned(i)
      BY <2>2, <2>3 DEF RecordOK, BlankOK, CrewOK
    <3>4. Reported(i)' = {}
      BY <2>6, <3>3, SameResults
    <3>5. CASE fills(i)
      <4>1. status'[i] = "PREPARING" /\ run'[i] = Assigned(i)'
        BY <2>1, <3>5 DEF EnterPreparing, Assigned
      <4> HIDE DEF fills
      <4> QED
        BY <2>5, <2>6, <2>8, <3>2, <3>3, <3>4, <3>5, <4>1
        DEF RecordOK, BlankOK, CrewOK, VerdictOK
    <3>6. CASE ~fills(i)
      <4>1. status'[i] = "PENDING" /\ run'[i] = {}
        BY <2>3, <2>1, <3>3, <3>6 DEF EnterPreparing
      <4>2. Filled(i)' < Target[i]
        BY <2>3, <2>5, <3>1, <3>2, <3>6, FilledType
      <4> HIDE DEF fills
      <4> QED
        BY <2>5, <2>6, <2>8, <3>3, <3>4, <4>1, <4>2
        DEF RecordOK, BlankOK, CrewOK, VerdictOK
    <3> QED BY <3>5, <3>6
  <2> QED BY <2>7, <2>8
<1>4. CASE FetchNothing(w)
  BY <1>1, <1>4, FetchNone, SameRecordOK DEF FetchNothing, SameRecord
<1> QED BY <1>2, <1>3, <1>4 DEF FetchJob

(* Two sets of workers of the same size, one inside the other, are equal:  *)
(* this is what makes comparing counts in the handlers enough.             *)
LEMMA SameSize ==
  ASSUME NEW S \in SUBSET Workers, NEW T \in SUBSET S, Cardinality(T) = Cardinality(S)
  PROVE  T = S
BY WorkerSets, FS_Subset

LEMMA RecordReady ==
  ASSUME MasterOK, DaemonOK, RecordInv, NEW w \in Workers, ReportReady(w)
  PROVE  RecordInv'
<1> SUFFICES ASSUME NEW j \in Jobs PROVE RecordOK(j)'
  BY DEF RecordInv
<1>1. RecordOK(j)
  BY DEF RecordInv
<1>2. CASE ReadyRefused(w) \/ ReadyErrorIgnored(w)
  BY <1>1, <1>2, SameRecordOK DEF ReadyRefused, ReadyErrorIgnored, jobVars, SameRecord
<1>3. CASE ReadyErrorFails(w)
  <2>1. CASE j # at[w]
    BY <1>1, <1>3, <2>1, SameRecordOK DEF ReadyErrorFails, SameRecord, MasterOK
  <2>2. CASE j = at[w]
    BY <1>1, <1>3, <2>2, EndedRecordOK DEF ReadyErrorFails, MasterOK
  <2> QED BY <2>1, <2>2
<1>4. CASE ReadyCounted(w)
  <2>1. CASE j # at[w]
    BY <1>1, <1>4, <2>1, SameRecordOK DEF ReadyCounted, SameRecord, MasterOK
  <2>2. CASE j = at[w]
    <3>1. /\ ready'[j] = IF status[j] = "RUNNING" THEN ready[j] ELSE ready[j] \cup {w}
          /\ opened'[j] = (opened[j] \/ Opens(j, w))
          /\ status'[j] = IF Opens(j, w) THEN "RUNNING" ELSE status[j]
          /\ UNCHANGED <<slot, run, result>>
          /\ Accepts(j, w)
      BY <1>4, <2>2 DEF ReadyCounted, MasterOK
    <3>2. /\ Assigned(j)' = Assigned(j) /\ Filled(j)' = Filled(j)
          /\ SlotsOK(j)' /\ Reported(j)' = Reported(j)
      BY <1>1, <3>1, SameSlots, SameResults DEF RecordOK
    <3>3. w \in Assigned(j) /\ status[j] \in LiveStatus
      BY <3>1 DEF Accepts, Assigned, Live
    <3>4. CASE Opens(j, w)
      <4>1. status[j] = "PREPARING" /\ run[j] = Assigned(j) /\ run[j] # {}
                                    /\ Reported(j) = {} /\ Filled(j) = Target[j]
        BY <1>1, <3>4 DEF Opens, RecordOK, BlankOK, CrewOK
      <4>2. ready'[j] = run[j]
        <5>1. ready[j] \cup {w} \subseteq run[j]
          BY <1>1, <3>3, <4>1 DEF RecordOK, CrewOK
        <5>2. run[j] \in SUBSET Workers
          BY DEF MasterOK
        <5> QED BY <3>1, <3>4, <4>1, <5>1, <5>2, SameSize DEF Opens
      <4>3. \A v \in run[j] : v \in Workers /\ result[j][v] = "none"
        BY <4>1 DEF Reported, MasterOK
      <4> QED
        BY <3>1, <3>2, <3>4, <4>1, <4>2, <4>3 DEF RecordOK, BlankOK, CrewOK, VerdictOK
    <3>5. CASE ~Opens(j, w)
      BY <1>1, <3>1, <3>2, <3>3, <3>5 DEF RecordOK, BlankOK, CrewOK, VerdictOK, LiveStatus
    <3> QED BY <3>4, <3>5
  <2> QED BY <2>1, <2>2
<1> QED BY <1>2, <1>3, <1>4 DEF ReportReady

LEMMA RecordResult ==
  ASSUME MasterOK, DaemonOK, RecordInv, NEW w \in Workers, ReportResult(w)
  PROVE  RecordInv'
<1> SUFFICES ASSUME NEW j \in Jobs PROVE RecordOK(j)'
  BY DEF RecordInv
<1>1. RecordOK(j)
  BY DEF RecordInv
<1>2. CASE ResultIgnored(w)
  BY <1>1, <1>2, SameRecordOK DEF ResultIgnored, jobVars, SameRecord
<1>3. CASE ResultCounted(w) /\ j # at[w]
  BY <1>1, <1>3, SameRecordOK DEF ResultCounted, SameRecord, MasterOK
<1>4. CASE ResultCounted(w) /\ j = at[w]
  <2>1. /\ result' = [result EXCEPT ![j][w] = Verdict(w)]
        /\ status'[j] = Outcome(j, w)
        /\ UNCHANGED <<slot, run, ready, opened>>
        /\ Records(j, w)
    BY <1>4 DEF ResultCounted, MasterOK
  <2>2. /\ \A v \in Workers : result'[j][v] = IF v = w THEN Verdict(w) ELSE result[j][v]
        /\ Verdict(w) \in {"ok", "fail"}
    BY <2>1 DEF MasterOK, Verdict
  <2>3. /\ Assigned(j)' = Assigned(j) /\ Filled(j)' = Filled(j) /\ SlotsOK(j)'
    BY <1>1, <2>1, SameSlots DEF RecordOK
  <2>4. Reported(j)' = Reported(j) \cup {w}
    BY <2>2 DEF Reported
  <2>5. /\ status[j] = "RUNNING" /\ w \in run[j] /\ run[j] \in SUBSET Workers /\ opened[j]
        /\ \A v \in run[j] : result[j][v] # "fail"
        /\ Reported(j) \subseteq run[j]
    BY <1>1, <2>1 DEF Records, RecordOK, BlankOK, CrewOK, VerdictOK, MasterOK
  <2>6. BlankOK(j)' /\ CrewOK(j)'
    BY <1>1, <2>1, <2>3, <2>4, <2>5 DEF Outcome, RecordOK, BlankOK, CrewOK
  <2>7. CASE Verdict(w) = "fail"
    BY <2>1, <2>3, <2>6, <2>7 DEF Outcome, RecordOK, VerdictOK
  <2>8. CASE Verdict(w) = "ok" /\ Cardinality(Reported(j) \cup {w}) = Cardinality(run[j])
    <3>1. Reported(j)' = run[j]
      BY <2>4, <2>5, <2>8, SameSize
    <3>2. \A v \in run[j] : result'[j][v] = "ok"
      <4>1. \A v \in run[j] : v \in Workers /\ result'[j][v] # "none"
        BY <2>5, <3>1 DEF Reported
      <4> QED BY <2>2, <2>5, <2>8, <4>1 DEF MasterOK
    <3>3. status'[j] = "COMPLETED"
      BY <2>1, <2>8 DEF Outcome
    <3> QED BY <2>1, <2>3, <2>6, <3>2, <3>3 DEF RecordOK, VerdictOK
  <2>9. CASE Verdict(w) = "ok" /\ Cardinality(Reported(j) \cup {w}) # Cardinality(run[j])
    <3>1. status'[j] = "RUNNING"
      BY <2>1, <2>5, <2>9 DEF Outcome
    <3>2. \A v \in run[j] : result'[j][v] # "fail"
      BY <2>2, <2>5, <2>9
    <3>3. \E v \in run[j] : result'[j][v] = "none"
      <4>1. Reported(j)' \subseteq run[j] /\ Reported(j)' # run[j]
        BY <2>4, <2>5, <2>9
      <4> QED BY <2>5, <4>1 DEF Reported
    <3> QED BY <2>1, <2>3, <2>6, <3>1, <3>2, <3>3 DEF RecordOK, VerdictOK
  <2> QED BY <2>2, <2>7, <2>8, <2>9
<1> QED BY <1>2, <1>3, <1>4 DEF ReportResult

LEMMA RecordBackground ==
  ASSUME MasterOK, DaemonOK, RecordInv,
         \/ \E j \in Jobs : ReaderStep(j)
         \/ \E J \in SUBSET Jobs : StalenessTick(J) \/ GcSelect(J)
         \/ GcRemove
  PROVE  RecordInv'
<1> SUFFICES ASSUME NEW j \in Jobs PROVE RecordOK(j)'
  BY DEF RecordInv
<1>1. RecordOK(j)
  BY DEF RecordInv
<1>2. ASSUME NEW i \in Jobs, ManifestFails(i) PROVE RecordOK(j)'
  <2>1. CASE i = j
    BY <1>1, <1>2, <2>1, EndedRecordOK DEF ManifestFails, MasterOK
  <2>2. CASE i # j
    BY <1>1, <1>2, <2>2, SameRecordOK DEF ManifestFails, MasterOK, SameRecord
  <2> QED BY <2>1, <2>2
<1>3. ASSUME NEW i \in Jobs, ManifestEnds(i) PROVE RecordOK(j)'
  BY <1>1, <1>3, SameRecordOK DEF ManifestEnds, SameRecord
<1>4. ASSUME NEW J \in SUBSET Jobs, StalenessTick(J) PROVE RecordOK(j)'
  <2>1. CASE j \in J
    BY <1>1, <1>4, <2>1, EndedRecordOK DEF StalenessTick
  <2>2. CASE j \notin J
    BY <1>1, <1>4, <2>2, SameRecordOK DEF StalenessTick, SameRecord
  <2> QED BY <2>1, <2>2
<1>5. ASSUME NEW J \in SUBSET Jobs, GcSelect(J) PROVE RecordOK(j)'
  BY <1>1, <1>5, SameRecordOK DEF GcSelect, jobVars, SameRecord
<1>6. CASE GcRemove
  <2>1. CASE j \in doomed
    BY <1>6, <2>1, BlankedRecordOK DEF GcRemove, Erase
  <2>2. CASE j \notin doomed
    BY <1>1, <1>6, <2>2, SameRecordOK DEF GcRemove, Erase, SameRecord
  <2> QED BY <2>1, <2>2
<1> QED BY <1>2, <1>3, <1>4, <1>5, <1>6 DEF ReaderStep

(* The steps that do not touch the job records at all.                     *)
LEMMA RecordOther ==
  ASSUME RecordInv, UNCHANGED jobVars
  PROVE  RecordInv'
BY SameRecordOK DEF RecordInv, jobVars, SameRecord

-----------------------------------------------------------------------------
(* What the records never lose.                                            *)

(* A job that is over stays so and keeps its verdict, results and crew;    *)
(* and short of garbage collection no slot, no result and no open barrier  *)
(* is ever taken back.                                                     *)
Keeps(j) ==
  \/ Over(j) /\ status'[j] = "collected"
  \/ /\ Over(j) => status'[j] = status[j] /\ result'[j] = result[j] /\ run'[j] = run[j]
     /\ status[j] # "PENDING" => slot'[j] = slot[j]
     /\ opened[j] => opened'[j]
     /\ \A w \in Workers : /\ slot[j][w] # Free => slot'[j][w] # Free
                           /\ result[j][w] # "none" => result'[j][w] # "none"

LEMMA SameKeeps == ASSUME NEW j \in Jobs, SameRecord(j) PROVE Keeps(j)
BY DEF SameRecord, Keeps

LEMMA KeepsCli ==
  ASSUME MasterOK, NEW i \in Jobs, CliStep(i), NEW j \in Jobs
  PROVE  Keeps(j)
BY DEF CliStep, CreateJob, DeleteJob, Live, LiveStatus, TerminalStatus, Over, Keeps, MasterOK

(* What FetchJob does to the records when it serves a job.                 *)
LEMMA FetchServes ==
  ASSUME MasterOK, NEW w \in Workers, FetchAssign(w)
  PROVE  \E i \in Jobs, J \in SUBSET Jobs :
           /\ Open(i) /\ TryAssign(i, w) /\ Receive(w, i)
           /\ EnterPreparing(J) /\ \A x \in J : status[x] = "PENDING"
           /\ active' = [active EXCEPT ![w] = i]
<1>1. PICK k \in 1..Len(pending) :
        LET i      == pending[k]
            filled == Cardinality(Assigned(i) \cup {w}) >= Target[i]
            full   == {x \in {pending[n] : n \in 1..(k - 1)} : status[x] = "PENDING"}
        IN  /\ Open(i) /\ TryAssign(i, w) /\ Receive(w, i)
            /\ EnterPreparing(IF filled THEN full \cup {i} ELSE full)
            /\ active' = [active EXCEPT ![w] = i]
  BY Zenon DEF FetchAssign
<1> DEFINE filled == Cardinality(Assigned(pending[k]) \cup {w}) >= Target[pending[k]]
<1> DEFINE full   == {x \in {pending[n] : n \in 1..(k - 1)} : status[x] = "PENDING"}
<1>2. PICK J : J = IF filled THEN full \cup {pending[k]} ELSE full
  OBVIOUS
<1>3. pending[k] \in Jobs /\ \A n \in 1..(k - 1) : pending[n] \in Jobs
  BY DEF MasterOK
<1>4. status[pending[k]] = "PENDING"
  BY <1>1 DEF Open
<1>5. J \in SUBSET Jobs /\ \A x \in J : status[x] = "PENDING"
  BY <1>2, <1>3, <1>4
<1> QED BY <1>1, <1>2, <1>3, <1>5

LEMMA KeepsFetch ==
  ASSUME MasterOK, NEW w \in Workers, FetchJob(w), NEW j \in Jobs
  PROVE  Keeps(j)
<1>1. CASE FetchReplay(w)
  BY <1>1 DEF FetchReplay, jobVars, Keeps
<1>2. CASE FetchAssign(w)
  <2>1. PICK i \in Jobs, J \in SUBSET Jobs :
          /\ Open(i) /\ TryAssign(i, w)
          /\ EnterPreparing(J) /\ \A x \in J : status[x] = "PENDING"
    BY <1>2, FetchServes
  <2>2. status[i] = "PENDING"
    BY <2>1 DEF Open
  <2>3. slot' = [slot EXCEPT ![i][w] = Filled(i)] /\ Filled(i) # Free
    BY <2>1, <2>2, FilledType DEF TryAssign, Free
  <2>4. /\ status[j] # "PENDING" => slot'[j] = slot[j]
        /\ \A v \in Workers : slot[j][v] # Free => slot'[j][v] # Free
    BY <2>2, <2>3 DEF MasterOK
  <2>5. status[j] # "PENDING" => status'[j] = status[j] /\ run'[j] = run[j]
    BY <2>1 DEF EnterPreparing
  <2>6. UNCHANGED <<opened, result>>
    BY <1>2 DEF FetchAssign
  <2> QED BY <2>4, <2>5, <2>6 DEF Keeps, Over, TerminalStatus
<1>3. CASE FetchNothing(w)
  BY <1>3 DEF FetchNothing, EnterPreparing, Keeps, Over, TerminalStatus
<1> QED BY <1>1, <1>2, <1>3 DEF FetchJob

LEMMA KeepsReady ==
  ASSUME MasterOK, NEW w \in Workers, ReportReady(w), NEW j \in Jobs
  PROVE  Keeps(j)
<1>1. CASE ReadyRefused(w) \/ ReadyErrorIgnored(w)
  BY <1>1, SameKeeps DEF ReadyRefused, ReadyErrorIgnored, jobVars, SameRecord
<1>2. CASE ReadyErrorFails(w)
  BY <1>2 DEF ReadyErrorFails, Keeps, Over, TerminalStatus, MasterOK
<1>3. CASE ReadyCounted(w)
  <2>1. CASE j # at[w]
    BY <1>3, <2>1, SameKeeps DEF ReadyCounted, SameRecord, MasterOK
  <2>2. CASE j = at[w]
    BY <1>3, <2>2
    DEF ReadyCounted, Accepts, Live, LiveStatus, Keeps, Over, TerminalStatus, MasterOK
  <2> QED BY <2>1, <2>2
<1> QED BY <1>1, <1>2, <1>3 DEF ReportReady

LEMMA KeepsResult ==
  ASSUME MasterOK, NEW w \in Workers, ReportResult(w), NEW j \in Jobs
  PROVE  Keeps(j)
<1>1. CASE ResultIgnored(w)
  BY <1>1, SameKeeps DEF ResultIgnored, jobVars, SameRecord
<1>2. CASE ResultCounted(w)
  <2>1. CASE j # at[w]
    BY <1>2, <2>1, SameKeeps DEF ResultCounted, SameRecord, MasterOK
  <2>2. CASE j = at[w]
    <3>1. /\ result' = [result EXCEPT ![j][w] = Verdict(w)] /\ Verdict(w) # "none"
          /\ status[j] = "RUNNING" /\ UNCHANGED <<slot, opened>>
      BY <1>2, <2>2 DEF ResultCounted, Records, Verdict
    <3>2. \A v \in Workers : result[j][v] # "none" => result'[j][v] # "none"
      BY <3>1 DEF MasterOK
    <3> QED BY <3>1, <3>2 DEF Keeps, Over, TerminalStatus
  <2> QED BY <2>1, <2>2
<1> QED BY <1>1, <1>2 DEF ReportResult

LEMMA KeepsBackground ==
  ASSUME MasterOK, DoomedInv, NEW j \in Jobs,
         \/ \E i \in Jobs : ReaderStep(i)
         \/ \E J \in SUBSET Jobs : StalenessTick(J) \/ GcSelect(J)
         \/ GcRemove
  PROVE  Keeps(j)
<1>1. ASSUME NEW i \in Jobs, ReaderStep(i) PROVE Keeps(j)
  BY <1>1 DEF ReaderStep, ManifestFails, ManifestEnds, Live, LiveStatus, Keeps, Over,
              TerminalStatus, MasterOK
<1>2. ASSUME NEW J \in SUBSET Jobs, StalenessTick(J) PROVE Keeps(j)
  BY <1>2 DEF StalenessTick, Keeps, Over, TerminalStatus
<1>3. ASSUME NEW J \in SUBSET Jobs, GcSelect(J) PROVE Keeps(j)
  BY <1>3, SameKeeps DEF GcSelect, jobVars, SameRecord
<1>4. CASE GcRemove
  BY <1>4 DEF GcRemove, Erase, DoomedInv, Keeps
<1> QED BY <1>1, <1>2, <1>3, <1>4

LEMMA KeepsNext ==
  ASSUME MasterOK, DoomedInv, [Next]_vars
  PROVE  \A j \in Jobs : Keeps(j)
<1> SUFFICES ASSUME NEW j \in Jobs PROVE Keeps(j)
  OBVIOUS
<1>1. ASSUME NEW h \in tail, TailStep(h) PROVE UNCHANGED jobVars
  BY <1>1 DEF TailStep, Enqueue, Dequeue, Release, LoseReply
<1>2. ASSUME NEW w \in Workers, ProgressRefused(w) \/ LocalStep(w) PROVE UNCHANGED jobVars
  BY <1>2 DEF ProgressRefused, LocalStep, PreflightDone, BarrierCancelled, RunEnds, GiveUp,
              Shutdown, Crash
<1>3. CASE UNCHANGED jobVars
  BY <1>3, SameKeeps DEF jobVars, SameRecord
<1>4. CASE UNCHANGED vars
  BY <1>3, <1>4 DEF vars
<1> QED
  BY <1>1, <1>2, <1>3, <1>4, KeepsCli, KeepsFetch, KeepsReady, KeepsResult, KeepsBackground
  DEF Next, WorkerStep

LEMMA DoomedNext ==
  ASSUME MasterOK, DoomedInv, [Next]_vars
  PROVE  DoomedInv'
<1>1. \A j \in Jobs : Over(j) => Over(j)'
  BY KeepsNext DEF Keeps, Over
<1>2. \/ doomed' = doomed
      \/ doomed' \in SUBSET Jobs /\ \A j \in doomed' : Over(j)
  BY DEF Next, vars, jobVars, tableVars, CliStep, CreateJob, DeleteJob, TailStep, Enqueue,
         Dequeue, Release, LoseReply, WorkerStep, FetchJob, FetchReplay, FetchAssign,
         FetchNothing, ReportReady, ReadyRefused, ReadyCounted, ReadyErrorFails,
         ReadyErrorIgnored, ProgressRefused, ReportResult, ResultCounted, ResultIgnored,
         LocalStep, PreflightDone, BarrierCancelled, RunEnds, GiveUp, Shutdown, Crash,
         ReaderStep, ManifestFails, ManifestEnds, StalenessTick, GcSelect, GcRemove,
         Terminal, Over
<1> QED BY <1>1, <1>2 DEF DoomedInv, MasterOK

-----------------------------------------------------------------------------
(* The beliefs of the daemons.                                             *)

SameDaemon(w) ==
  /\ at'[w] = at[w] /\ stage'[w] = stage[w] /\ told'[w] = told[w]
  /\ w \in leaving' <=> w \in leaving

(* A belief outlives every step of somebody else.                          *)
LEMMA BeliefSame ==
  ASSUME MasterOK, DaemonOK, \A j \in Jobs : Keeps(j),
         NEW w \in Workers, BeliefOK(w), SameDaemon(w)
  PROVE  BeliefOK(w)'
<1>1. CASE at[w] = None
  BY <1>1 DEF SameDaemon, BeliefOK, DaemonOK, BusyInv
<1>2. CASE at[w] # None
  <2>1. at[w] \in Jobs /\ at'[w] = at[w]
    BY <1>2 DEF DaemonOK, SameDaemon
  <2>2. Keeps(at[w])
    BY <2>1
  <2> QED BY <1>2, <2>1, <2>2 DEF SameDaemon, BeliefOK, Keeps, Over
<1> QED BY <1>1, <1>2

LEMMA BeliefIdle ==
  ASSUME DaemonOK, NEW w \in Workers, GoIdle(w), leaving' = leaving
  PROVE  BeliefOK(w)'
BY DEF GoIdle, BeliefOK, DaemonOK

LEMMA BeliefGoTo ==
  ASSUME MasterOK, DaemonOK, \A j \in Jobs : Keeps(j),
         NEW w \in Workers, BeliefOK(w), NEW s \in Stages, GoTo(w, s), at[w] \in Jobs,
         leaving' = leaving, s # "idle",
         s = "stopping" => w \in leaving \/ Over(at[w]),
         s \in {"running", "reportOk", "reportFail"} =>
           opened'[at[w]] \/ status'[at[w]] = "collected"
  PROVE  BeliefOK(w)'
<1>1. Keeps(at[w]) /\ at' = at /\ told' = told /\ stage'[w] = s
  BY DEF GoTo, DaemonOK
<1> QED BY <1>1 DEF BeliefOK, Keeps, Over

LEMMA BeliefReceive ==
  ASSUME MasterOK, DaemonOK, \A j \in Jobs : Keeps(j),
         NEW w \in Workers, BeliefOK(w), NEW j \in Jobs, Receive(w, j), stage[w] = "idle",
         slot'[j][w] # Free, leaving' = leaving
  PROVE  BeliefOK(w)'
<1>1. CASE Stay
  BY <1>1, BeliefSame DEF Stay, SameDaemon
<1>2. CASE at' = [at EXCEPT ![w] = j] /\ stage' = [stage EXCEPT ![w] = "preflight"]
                                      /\ told' = told
  <2>1. told[w] = "no" /\ w \notin leaving
    BY DEF BeliefOK
  <2> QED BY <1>2, <2>1 DEF BeliefOK, DaemonOK
<1> QED BY <1>1, <1>2 DEF Receive

(* A move of one daemon leaves all the others as they are.                 *)
LEMMA OthersSame ==
  ASSUME DaemonOK, NEW w \in Workers, NEW v \in Workers \ {w}, leaving' = leaving,
         \/ Stay \/ GoIdle(w)
         \/ \E s \in Stages : GoTo(w, s)
         \/ \E j \in Jobs : Receive(w, j)
  PROVE  SameDaemon(v)
BY DEF Stay, GoIdle, GoTo, Receive, SameDaemon, DaemonOK

LEMMA BeliefMoves ==
  ASSUME MasterOK, DaemonOK, \A j \in Jobs : Keeps(j), BeliefInv,
         NEW w \in Workers, leaving' = leaving, BeliefOK(w)',
         \/ Stay \/ GoIdle(w)
         \/ \E s \in Stages : GoTo(w, s)
         \/ \E j \in Jobs : Receive(w, j)
  PROVE  BeliefInv'
<1> SUFFICES ASSUME NEW v \in Workers PROVE BeliefOK(v)'
  BY DEF BeliefInv
<1>1. CASE v = w
  BY <1>1
<1>2. CASE v # w
  BY <1>2, OthersSame, BeliefSame DEF BeliefInv
<1> QED BY <1>1, <1>2

LEMMA BeliefStay ==
  ASSUME MasterOK, DaemonOK, \A j \in Jobs : Keeps(j), BeliefInv, Stay, leaving' = leaving
  PROVE  BeliefInv'
BY BeliefSame DEF BeliefInv, Stay, SameDaemon

LEMMA BeliefTail ==
  ASSUME MasterOK, DaemonOK, \A j \in Jobs : Keeps(j), BeliefInv,
         NEW h \in tail, TailStep(h)
  PROVE  BeliefInv'
<1>1. leaving' = leaving
  BY DEF TailStep, Enqueue, Dequeue, Release, LoseReply, workerVars
<1>2. CASE Stay
  BY <1>1, <1>2, BeliefStay
<1>3. CASE GoIdle(h.caller) /\ h.caller # None
  <2>1. h.caller \in Workers
    BY <1>3 DEF MasterOK, Tails
  <2> QED BY <1>1, <1>3, <2>1, BeliefIdle, BeliefMoves
<1> QED
  BY <1>2, <1>3 DEF TailStep, Enqueue, Dequeue, Release, LoseReply, workerVars, Stay

LEMMA BeliefFetch ==
  ASSUME MasterOK, DaemonOK, \A j \in Jobs : Keeps(j), BeliefInv,
         NEW w \in Workers, FetchJob(w)
  PROVE  BeliefInv'
<1>1. stage[w] = "idle" /\ leaving' = leaving /\ BeliefOK(w)
  BY DEF FetchJob, FetchReplay, FetchAssign, FetchNothing, Fetches, BeliefInv
<1>2. CASE FetchNothing(w)
  BY <1>1, <1>2, BeliefStay DEF FetchNothing
<1>3. CASE FetchReplay(w)
  <2>1. active[w] \in Jobs /\ slot'[active[w]][w] # Free /\ Receive(w, active[w])
    BY <1>3 DEF FetchReplay, Replayable, Accepts, MasterOK, jobVars
  <2>2. BeliefOK(w)'
    BY <1>1, <2>1, BeliefReceive
  <2> QED BY <1>1, <2>1, <2>2, BeliefMoves
<1>4. CASE FetchAssign(w)
  <2>1. PICK i \in Jobs : TryAssign(i, w) /\ Receive(w, i)
    BY <1>4, FetchServes
  <2>2. slot'[i][w] # Free
    BY <2>1, FilledType DEF TryAssign, MasterOK, Free
  <2>3. BeliefOK(w)'
    BY <1>1, <2>1, <2>2, BeliefReceive
  <2> QED BY <1>1, <2>1, <2>3, BeliefMoves
<1> QED BY <1>2, <1>3, <1>4 DEF FetchJob

LEMMA BeliefReady ==
  ASSUME MasterOK, DaemonOK, \A j \in Jobs : Keeps(j), BeliefInv,
         NEW w \in Workers, ReportReady(w)
  PROVE  BeliefInv'
<1>1. /\ at[w] \in Jobs /\ leaving' = leaving /\ BeliefOK(w)
  BY DEF ReportReady, ReadyRefused, ReadyCounted, ReadyErrorFails, ReadyErrorIgnored,
         workerVars, BeliefInv, DaemonOK, BusyInv
<1>2. CASE Stay
  BY <1>1, <1>2, BeliefStay
<1>3. CASE GoIdle(w)
  BY <1>1, <1>3, BeliefIdle, BeliefMoves
<1>4. CASE GoTo(w, "stopping") /\ status[at[w]] = "CANCELLED"
  <2>1. BeliefOK(w)'
    BY <1>1, <1>4, BeliefGoTo DEF Stages, Over, TerminalStatus
  <2> QED BY <1>1, <1>4, <2>1, BeliefMoves DEF Stages
<1>5. CASE GoTo(w, "running") /\ opened'[at[w]]
  <2>1. BeliefOK(w)'
    BY <1>1, <1>5, BeliefGoTo DEF Stages
  <2> QED BY <1>1, <1>5, <2>1, BeliefMoves DEF Stages
<1> QED
  BY <1>2, <1>3, <1>4, <1>5
  DEF ReportReady, ReadyRefused, ReadyCounted, BarrierReply, ReadyErrorFails,
      ReadyErrorIgnored, workerVars, Stay

(* A worker's call is refused only when its job is over.                   *)
LEMMA RefusedIsOver ==
  ASSUME MasterOK, DaemonOK, RecordInv, NEW w \in Workers, BeliefOK(w), at[w] \in Jobs,
         ~Accepts(at[w], w)
  PROVE  Over(at[w])
BY DEF BeliefOK, Accepts, Live, Over, MasterOK, Status, RecordInv, RecordOK, BlankOK, Assigned

LEMMA BeliefLocal ==
  ASSUME MasterOK, DaemonOK, \A j \in Jobs : Keeps(j), RecordInv, BeliefInv,
         NEW w \in Workers, LocalStep(w) \/ ProgressRefused(w)
  PROVE  BeliefInv'
<1>1. BeliefOK(w) /\ (stage[w] \notin {"idle", "gone"} => at[w] \in Jobs)
  BY DEF BeliefInv, DaemonOK, BusyInv
<1>2. CASE PreflightDone(w)
  <2>1. PICK s \in {"barrier", "refusing"} : GoTo(w, s)
    BY <1>2 DEF PreflightDone
  <2>2. s \in Stages /\ at[w] \in Jobs /\ leaving' = leaving
    BY <1>1, <1>2 DEF PreflightDone, Stages
  <2>3. BeliefOK(w)'
    BY <1>1, <2>1, <2>2, BeliefGoTo
  <2> QED BY <2>1, <2>2, <2>3, BeliefMoves
<1>3. CASE BarrierCancelled(w)
  <2>1. at[w] \in Jobs /\ leaving' = leaving /\ GoTo(w, "stopping")
    BY <1>1, <1>3 DEF BarrierCancelled
  <2>2. w \in leaving \/ Over(at[w])
    BY <1>1, <1>3 DEF BarrierCancelled, Flagged, BeliefOK
  <2>3. BeliefOK(w)'
    BY <1>1, <2>1, <2>2, BeliefGoTo DEF Stages
  <2> QED BY <2>1, <2>3, BeliefMoves DEF Stages
<1>4. CASE RunEnds(w) /\ told[w] = "unknown"
  BY <1>4, BeliefIdle, BeliefMoves DEF RunEnds
<1>5. CASE RunEnds(w) /\ told[w] # "unknown"
  <2>1. PICK s \in {"reportOk", "reportFail"} : GoTo(w, s)
    BY <1>5 DEF RunEnds
  <2>2. s \in Stages /\ at[w] \in Jobs /\ leaving' = leaving
    BY <1>1, <1>5 DEF RunEnds, Stages
  <2>3. opened'[at[w]] \/ status'[at[w]] = "collected"
    BY <1>1, <1>5 DEF RunEnds, BeliefOK, jobVars
  <2>4. BeliefOK(w)'
    BY <1>1, <2>1, <2>2, <2>3, BeliefGoTo
  <2> QED BY <2>1, <2>2, <2>4, BeliefMoves
<1>6. CASE GiveUp(w)
  BY <1>6, BeliefIdle, BeliefMoves DEF GiveUp
<1> SUFFICES ASSUME Shutdown(w) \/ Crash(w) \/ ProgressRefused(w), NEW v \in Workers
             PROVE  BeliefOK(v)'
  BY <1>2, <1>3, <1>4, <1>5, <1>6 DEF LocalStep, BeliefInv
<1>7. CASE v # w
  <2>1. SameDaemon(v)
    BY <1>7 DEF Shutdown, Crash, ProgressRefused, SameDaemon, DaemonOK
  <2> QED BY <2>1, BeliefSame DEF BeliefInv
<1>8. CASE v = w /\ Shutdown(w)
  BY <1>1, <1>8 DEF Shutdown, BeliefOK, DaemonOK, Over, jobVars
<1>9. CASE v = w /\ Crash(w)
  BY <1>9 DEF Crash, BeliefOK, DaemonOK
<1>10. CASE v = w /\ ProgressRefused(w)
  <2>1. Over(at[w]) /\ at[w] \in Jobs
    BY <1>1, <1>10, RefusedIsOver DEF ProgressRefused
  <2> QED BY <1>1, <1>10, <2>1 DEF ProgressRefused, BeliefOK, DaemonOK, Over, jobVars
<1> QED BY <1>7, <1>8, <1>9, <1>10

LEMMA BeliefNext ==
  ASSUME MasterOK, DaemonOK, RecordInv, DoomedInv, BeliefInv, [Next]_vars
  PROVE  BeliefInv'
<1>1. \A j \in Jobs : Keeps(j)
  BY KeepsNext
<1>2. CASE UNCHANGED workerVars
  BY <1>1, <1>2, BeliefStay DEF workerVars, Stay
<1>3. ASSUME NEW j \in Jobs, CliStep(j) \/ ReaderStep(j) PROVE UNCHANGED workerVars
  BY <1>3 DEF CliStep, CreateJob, DeleteJob, ReaderStep, ManifestFails, ManifestEnds
<1>4. ASSUME NEW J \in SUBSET Jobs, StalenessTick(J) \/ GcSelect(J) PROVE UNCHANGED workerVars
  BY <1>4 DEF StalenessTick, GcSelect
<1>5. ASSUME NEW w \in Workers, ReportResult(w) PROVE UNCHANGED workerVars
  BY <1>5 DEF ReportResult, ResultCounted, ResultIgnored
<1>6. CASE GcRemove \/ UNCHANGED vars
  BY <1>2, <1>6 DEF GcRemove, vars
<1> QED
  BY <1>1, <1>2, <1>3, <1>4, <1>5, <1>6, BeliefTail, BeliefFetch, BeliefReady, BeliefLocal
  DEF Next, WorkerStep

-----------------------------------------------------------------------------
(* The clean-ups still to be executed.                                     *)

LEMMA TailSame ==
  ASSUME MasterOK, \A j \in Jobs : Keeps(j), leaving \subseteq leaving',
         NEW h \in Tails, TailOK(h),
         NEW g, g.op # "enqueue" => h.op # "enqueue", g.job = h.job, g.crew = h.crew
  PROVE  TailOK(g)'
<1>1. h.job \in Jobs /\ h.crew \in SUBSET Workers /\ Keeps(h.job)
  BY DEF Tails
<1>2. \A w \in h.crew : Done(h.job, w) => Done(h.job, w)'
  BY <1>1 DEF Done, Over, Keeps
<1> QED BY <1>1, <1>2 DEF TailOK

(* The worker whose result is ignored has nothing left to report: it is    *)
(* shutting down, or the job is over, or it has reported before.           *)
LEMMA IgnoredOwesNothing ==
  ASSUME MasterOK, DaemonOK, RecordInv, BeliefInv, NEW w \in Workers, ResultIgnored(w)
  PROVE  w \in leaving \/ Done(at[w], w)
<1>1. at[w] \in Jobs /\ BeliefOK(w) /\ Reporting(w) /\ ~Records(at[w], w)
  BY DEF ResultIgnored, Reporting, DaemonOK, BusyInv, BeliefInv
<1>2. RecordOK(at[w]) /\ status[at[w]] \in Status
  BY <1>1 DEF RecordInv, MasterOK
<1>3. CASE stage[w] = "stopping"
  BY <1>1, <1>3 DEF BeliefOK, Done
<1>4. CASE stage[w] \in {"reportOk", "reportFail"} /\ ~Over(at[w])
  <2>1. opened[at[w]] /\ slot[at[w]][w] # Free
    BY <1>1, <1>4 DEF BeliefOK, Over
  <2>2. status[at[w]] = "RUNNING"
    BY <1>2, <1>4, <2>1
    DEF Over, Status, LiveStatus, RecordOK, BlankOK, CrewOK, Assigned
  <2>3. w \in run[at[w]]
    BY <1>2, <2>1 DEF RecordOK, CrewOK, Assigned
  <2> QED BY <1>1, <2>2, <2>3 DEF Records, Done
<1> QED BY <1>1, <1>3, <1>4 DEF Reporting, Done

LEMMA TailNext ==
  ASSUME MasterOK, DaemonOK, RecordInv, DoomedInv, BeliefInv, TailInv, [Next]_vars
  PROVE  TailInv'
<1>1. (\A j \in Jobs : Keeps(j)) /\ tail \in SUBSET Tails
  BY KeepsNext DEF MasterOK
<1>2. leaving \subseteq leaving'
  BY DEF Next, vars, jobVars, tableVars, workerVars, CliStep, CreateJob, DeleteJob, TailStep,
         Enqueue, Dequeue, Release, LoseReply, WorkerStep, FetchJob, FetchReplay, FetchAssign,
         FetchNothing, ReportReady, ReadyRefused, ReadyCounted, ReadyErrorFails,
         ReadyErrorIgnored, ProgressRefused, ReportResult, ResultCounted, ResultIgnored,
         LocalStep, PreflightDone, BarrierCancelled, RunEnds, GiveUp, Shutdown, Crash,
         ReaderStep, ManifestFails, ManifestEnds, StalenessTick, GcSelect, GcRemove
<1>3. \A h \in tail : TailOK(h)'
  BY <1>1, <1>2, TailSame DEF TailInv
<1> SUFFICES ASSUME NEW g \in tail', g \notin tail PROVE TailOK(g)'
  BY <1>3 DEF TailInv
<1>4. ASSUME NEW j \in Jobs, CliStep(j) PROVE TailOK(g)'
  BY <1>4 DEF CliStep, CreateJob, DeleteJob, Rest, TailOK, Done, Over, TerminalStatus, MasterOK
<1>5. ASSUME NEW h \in tail, TailStep(h) PROVE TailOK(g)'
  <2>1. TailOK(h) /\ h \in Tails
    BY <1>1 DEF TailInv
  <2>2. CASE Dequeue(h)
    <3>1. h.op = "dequeue" /\ g = [h EXCEPT !.op = "release"]
      BY <2>2 DEF Dequeue
    <3>2. g.job = h.job /\ g.crew = h.crew
      BY <2>1, <3>1 DEF Tails
    <3> QED BY <1>1, <1>2, <2>1, <3>1, <3>2, TailSame
  <2>3. CASE LoseReply(h)
    <3>1. g = [h EXCEPT !.caller = None]
      BY <2>3 DEF LoseReply
    <3>2. g.job = h.job /\ g.crew = h.crew /\ g.op = h.op
      BY <2>1, <3>1 DEF Tails
    <3> QED BY <1>1, <1>2, <2>1, <3>2, TailSame
  <2> QED BY <1>5, <2>2, <2>3 DEF TailStep, Enqueue, Release
<1>6. ASSUME NEW w \in Workers, ReportReady(w) PROVE TailOK(g)'
  <2>1. at[w] \in Jobs
    BY <1>6 DEF ReportReady, ReadyRefused, ReadyCounted, ReadyErrorFails, ReadyErrorIgnored,
                DaemonOK, BusyInv
  <2> QED
    BY <1>6, <2>1
    DEF ReportReady, ReadyRefused, ReadyCounted, ReadyErrorFails, ReadyErrorIgnored,
        tableVars, Rest, TailOK, Done, Over, TerminalStatus, MasterOK
<1>7. ASSUME NEW w \in Workers, ResultIgnored(w) PROVE TailOK(g)'
  <2>1. /\ g.job = at[w] /\ g.crew = {w} /\ UNCHANGED <<status, result, leaving, at>>
    BY <1>7 DEF ResultIgnored, Rest, jobVars, workerVars
  <2> QED BY <1>7, <2>1, IgnoredOwesNothing DEF TailOK, Done, Over
<1>8. ASSUME NEW w \in Workers, ResultCounted(w) PROVE TailOK(g)'
  <2>1. /\ g.job = at[w] /\ g.crew = {w} /\ at[w] \in Jobs
        /\ result' = [result EXCEPT ![at[w]][w] = Verdict(w)]
    BY <1>8 DEF ResultCounted, Reporting, DaemonOK, BusyInv, Rest
  <2>2. result'[at[w]][w] # "none"
    BY <2>1 DEF Verdict, MasterOK
  <2> QED BY <2>1, <2>2 DEF TailOK, Done
<1>9. ASSUME NEW w \in Workers, Crash(w) PROVE TailOK(g)'
  <2>1. PICK h \in tail : g = [h EXCEPT !.caller = None]
    BY <1>9 DEF Crash
  <2>2. g.job = h.job /\ g.crew = h.crew /\ g.op = h.op /\ TailOK(h) /\ h \in Tails
    BY <1>1, <2>1 DEF Tails, TailInv
  <2> QED BY <1>1, <1>2, <2>2, TailSame
<1>10. ASSUME NEW j \in Jobs, ManifestFails(j) PROVE TailOK(g)'
  BY <1>10 DEF ManifestFails, Rest, TailOK, Done, Over, TerminalStatus, MasterOK
<1>11. ASSUME NEW J \in SUBSET Jobs, StalenessTick(J) PROVE TailOK(g)'
  <2>1. PICK j \in J : g = Rest("release", j, Assigned(j), None)
    BY <1>11 DEF StalenessTick
  <2> QED BY <1>11, <2>1 DEF StalenessTick, Rest, TailOK, Done, Over, TerminalStatus
<1> QED
  BY <1>4, <1>5, <1>6, <1>7, <1>8, <1>9, <1>10, <1>11
  DEF Next, vars, tableVars, WorkerStep, FetchJob, FetchReplay, FetchAssign, FetchNothing,
      ProgressRefused, ReportResult, LocalStep, PreflightDone, BarrierCancelled, RunEnds,
      GiveUp, Shutdown, ReaderStep, ManifestEnds, GcSelect, GcRemove

-----------------------------------------------------------------------------
(* The bindings.                                                           *)

LEMMA SlotSteps ==
  ASSUME [Next]_vars
  PROVE  \/ slot' = slot \/ GcRemove
         \/ \E v \in Workers : FetchAssign(v)
BY DEF Next, vars, jobVars, CliStep, CreateJob, DeleteJob, TailStep, Enqueue, Dequeue,
       Release, LoseReply, WorkerStep, FetchJob, FetchReplay, FetchNothing, ReportReady,
       ReadyRefused, ReadyCounted, ReadyErrorFails, ReadyErrorIgnored, ProgressRefused,
       ReportResult, ResultCounted, ResultIgnored, LocalStep, PreflightDone,
       BarrierCancelled, RunEnds, GiveUp, Shutdown, Crash, ReaderStep, ManifestFails,
       ManifestEnds, StalenessTick, GcSelect

(* Only FetchJob makes a worker owe a result, and it binds the worker to   *)
(* that job.                                                               *)
LEMMA OwesNew ==
  ASSUME MasterOK, RecordInv, DoomedInv, [Next]_vars,
         NEW w \in Workers, NEW j \in Jobs, ~Owes(j, w), Owes(j, w)'
  PROVE  FetchAssign(w) /\ active'[w] = j
<1>1. Keeps(j) /\ RecordOK(j)
  BY KeepsNext DEF RecordInv
<1>2. result[j][w] = "none" /\ ~Over(j) /\ slot'[j][w] # Free
  BY <1>1 DEF Keeps, Owes, Accepts, Live, LiveStatus, Over, TerminalStatus
<1>3. slot[j][w] = Free
  BY <1>1, <1>2
  DEF Owes, Accepts, Live, Over, MasterOK, Status, RecordOK, BlankOK, Assigned
<1>4. slot'[j] # slot[j] /\ status'[j] # "collected"
  BY <1>2, <1>3 DEF Owes, Accepts, Live, LiveStatus
<1>5. \/ slot' = slot \/ GcRemove
      \/ \E v \in Workers : FetchAssign(v)
  BY SlotSteps
<1>6. PICK v \in Workers : FetchAssign(v)
  BY <1>4, <1>5 DEF GcRemove, Erase
<1>7. PICK i \in Jobs : TryAssign(i, v) /\ active' = [active EXCEPT ![v] = i]
  BY <1>6, FetchServes
<1>8. i = j /\ v = w
  BY <1>2, <1>3, <1>7 DEF TryAssign, MasterOK
<1> QED BY <1>6, <1>7, <1>8 DEF MasterOK

(* A worker that is handed a new job owes nothing to any other.            *)
LEMMA FetcherOwesNothing ==
  ASSUME BeliefInv, BindingKept, NEW w \in Workers, FetchAssign(w) \/ FetchNothing(w),
         NEW j \in Jobs
  PROVE  ~Owes(j, w)
<1>1. w \notin leaving /\ ~Replayable(w)
  BY DEF FetchAssign, FetchNothing, Fetches, BeliefInv, BeliefOK
<1> QED BY <1>1 DEF BindingKept, Owes, Replayable

LEMMA BindingNext ==
  ASSUME MasterOK, RecordInv, DoomedInv, BeliefInv, TailInv, BindingKept, [Next]_vars,
         leaving \subseteq leaving'
  PROVE  BindingKept'
<1> SUFFICES ASSUME NEW w \in Workers, NEW j \in Jobs, Owes(j, w)', w \notin leaving'
             PROVE  active'[w] = j
  BY DEF BindingKept
<1>1. CASE ~Owes(j, w)
  BY <1>1, OwesNew
<1>2. CASE Owes(j, w)
  <2>1. active[w] = j /\ w \notin leaving
    BY <1>2 DEF BindingKept
  <2>2. ASSUME NEW h \in tail, Release(h) PROVE active'[w] = j
    <3>1. CASE w \in h.crew /\ h.job = j
      <4>1. h.op # "enqueue" /\ TailOK(h)
        BY <2>2 DEF Release, TailInv
      <4>2. Done(j, w)
        BY <2>1, <3>1, <4>1 DEF TailOK
      <4> QED BY <1>2, <4>2 DEF Done, Over, Owes, Accepts, Live, LiveStatus, TerminalStatus
    <3>2. CASE ~(w \in h.crew /\ h.job = j)
      BY <2>1, <2>2, <3>2 DEF Release, Unbind
    <3> QED BY <3>1, <3>2
  <2>3. ASSUME NEW v \in Workers, FetchAssign(v) PROVE active'[w] = j
    <3>1. v # w
      BY <1>2, <2>3, FetcherOwesNothing
    <3>2. PICK i \in Jobs : active' = [active EXCEPT ![v] = i]
      BY <2>3, FetchServes
    <3> QED BY <2>1, <3>1, <3>2 DEF MasterOK
  <2>4. ASSUME NEW v \in Workers, FetchNothing(v) PROVE active'[w] = j
    <3>1. v # w
      BY <1>2, <2>4, FetcherOwesNothing
    <3> QED BY <2>1, <2>4, <3>1 DEF FetchNothing, MasterOK
  <2>5. CASE active' = active
    BY <2>1, <2>5
  <2> QED
    BY <2>2, <2>3, <2>4, <2>5
    DEF Next, vars, tableVars, CliStep, CreateJob, DeleteJob, TailStep, Enqueue, Dequeue,
        LoseReply, WorkerStep, FetchJob, FetchReplay, ReportReady, ReadyRefused,
        ReadyCounted, ReadyErrorFails, ReadyErrorIgnored, ProgressRefused, ReportResult,
        ResultCounted, ResultIgnored, LocalStep, PreflightDone, BarrierCancelled, RunEnds,
        GiveUp, Shutdown, Crash, ReaderStep, ManifestFails, ManifestEnds, StalenessTick,
        GcSelect, GcRemove
<1> QED BY <1>1, <1>2

LEMMA OneJobNext ==
  ASSUME MasterOK, RecordInv, DoomedInv, BeliefInv, BindingKept, OneJobPerWorker, [Next]_vars
  PROVE  OneJobPerWorker'
<1> SUFFICES ASSUME NEW w \in Workers, NEW i \in Jobs, NEW j \in Jobs,
                    Owes(i, w)', Owes(j, w)'
             PROVE  i = j
  BY DEF OneJobPerWorker
<1>1. CASE Owes(i, w) /\ Owes(j, w)
  BY <1>1 DEF OneJobPerWorker
<1>2. CASE ~Owes(i, w) /\ ~Owes(j, w)
  BY <1>2, OwesNew
<1>3. CASE ~(Owes(i, w) <=> Owes(j, w))
  BY <1>3, OwesNew, FetcherOwesNothing
<1> QED BY <1>1, <1>2, <1>3

-----------------------------------------------------------------------------
(* The inductive invariant.                                                *)

(* FetchJob starts the manifest reader only of a job that it moves to      *)
(* PREPARING.                                                              *)
LEMMA FetchReader ==
  ASSUME MasterOK, RecordInv, RecordInv', NEW w \in Workers, FetchAssign(w),
         NEW j \in reader' \ reader
  PROVE  status'[j] = "PREPARING"
<1>1. PICK k \in 1..Len(pending) :
        LET i      == pending[k]
            filled == Cardinality(Assigned(i) \cup {w}) >= Target[i]
            full   == {x \in {pending[n] : n \in 1..(k - 1)} : status[x] = "PENDING"}
        IN  /\ EnterPreparing(IF filled THEN full \cup {i} ELSE full)
            /\ reader' = IF filled THEN reader \cup ({i} \cap ManifestJobs) ELSE reader
  BY Zenon DEF FetchAssign
<1>2. pending[k] \in Jobs
  BY DEF MasterOK
<1>3. j = pending[k] /\ Cardinality(Assigned(j) \cup {w}) >= Target[j]
  BY <1>1
<1> QED BY <1>1, <1>2, <1>3 DEF EnterPreparing

LEMMA ReaderNext ==
  ASSUME MasterOK, DaemonOK, RecordInv, RecordInv', DoomedInv, NoOrphanReader, [Next]_vars
  PROVE  NoOrphanReader'
<1> SUFFICES ASSUME NEW j \in reader' PROVE status'[j] \in {"PREPARING", "RUNNING"}
  BY DEF NoOrphanReader
<1>1. j \in reader => j \in Jobs /\ status[j] \in {"PREPARING", "RUNNING"} /\ ~Over(j)
  BY DEF NoOrphanReader, MasterOK, Over, TerminalStatus
<1>2. CASE j \in reader /\ status'[j] = status[j]
  BY <1>1, <1>2
<1>3. ASSUME NEW i \in Jobs, CliStep(i) PROVE status'[j] \in {"PREPARING", "RUNNING"}
  BY <1>1, <1>3 DEF CliStep, CreateJob, DeleteJob, CleanupOnTerminal, MasterOK
<1>4. ASSUME NEW w \in Workers, FetchJob(w) PROVE status'[j] \in {"PREPARING", "RUNNING"}
  <2>1. CASE FetchReplay(w)
    BY <1>1, <2>1 DEF FetchReplay, jobVars
  <2>2. CASE FetchNothing(w)
    BY <1>1, <2>2, FetchNone DEF FetchNothing
  <2>3. CASE FetchAssign(w) /\ j \notin reader
    BY <2>3, FetchReader
  <2>4. CASE FetchAssign(w) /\ j \in reader
    <3>1. PICK J \in SUBSET Jobs : EnterPreparing(J)
      BY <2>4, FetchServes
    <3> QED BY <1>1, <2>4, <3>1 DEF EnterPreparing
  <2> QED BY <1>4, <2>1, <2>2, <2>3, <2>4 DEF FetchJob
<1>5. ASSUME NEW w \in Workers, ReportReady(w) PROVE status'[j] \in {"PREPARING", "RUNNING"}
  BY <1>1, <1>5
  DEF ReportReady, ReadyRefused, ReadyCounted, ReadyErrorFails, ReadyErrorIgnored, jobVars,
      CleanupOnTerminal, MasterOK
<1>6. ASSUME NEW w \in Workers, ReportResult(w) PROVE status'[j] \in {"PREPARING", "RUNNING"}
  <2>1. CASE ResultIgnored(w)
    BY <1>1, <2>1 DEF ResultIgnored, jobVars
  <2>2. CASE ResultCounted(w) /\ j # at[w]
    BY <1>1, <2>2 DEF ResultCounted, CleanupOnTerminal, MasterOK
  <2>3. CASE ResultCounted(w) /\ j = at[w]
    BY <1>1, <2>3
    DEF ResultCounted, Records, CleanupOnTerminal, Outcome, TerminalStatus, MasterOK
  <2> QED BY <1>6, <2>1, <2>2, <2>3 DEF ReportResult
<1>7. ASSUME NEW i \in Jobs, ReaderStep(i) PROVE status'[j] \in {"PREPARING", "RUNNING"}
  BY <1>1, <1>7 DEF ReaderStep, ManifestFails, ManifestEnds, CleanupOnTerminal, MasterOK
<1>8. ASSUME NEW J \in SUBSET Jobs, StalenessTick(J) PROVE status'[j] \in {"PREPARING", "RUNNING"}
  BY <1>1, <1>8 DEF StalenessTick, CleanupOnTerminal
<1>9. CASE GcRemove
  BY <1>1, <1>9 DEF GcRemove, Erase, DoomedInv
<1>10. CASE UNCHANGED jobVars
  BY <1>1, <1>10 DEF jobVars
<1>11. ASSUME NEW h \in tail, TailStep(h) PROVE UNCHANGED jobVars
  BY <1>11 DEF TailStep, Enqueue, Dequeue, Release, LoseReply
<1>12. ASSUME NEW w \in Workers, ProgressRefused(w) \/ LocalStep(w) PROVE UNCHANGED jobVars
  BY <1>12 DEF ProgressRefused, LocalStep, PreflightDone, BarrierCancelled, RunEnds, GiveUp,
              Shutdown, Crash
<1>13. ASSUME NEW J \in SUBSET Jobs, GcSelect(J) PROVE UNCHANGED jobVars
  BY <1>13 DEF GcSelect
<1> QED
  BY <1>3, <1>4, <1>5, <1>6, <1>7, <1>8, <1>9, <1>10, <1>11, <1>12, <1>13
  DEF Next, WorkerStep, vars

LEMMA InitIInv == Init => IInv
<1> SUFFICES ASSUME Init PROVE IInv
  OBVIOUS
<1>1. MasterOK /\ DaemonOK
  BY DEF Init, MasterOK, DaemonOK, BusyInv, Status, Stages
<1>2. RecordInv
  BY BlankRecordOK DEF Init, RecordInv
<1>3. DoomedInv /\ BeliefInv /\ TailInv
  BY DEF Init, DoomedInv, BeliefInv, BeliefOK, TailInv
<1>4. \A j \in Jobs, w \in Workers : ~Owes(j, w)
  BY DEF Init, Owes, Accepts
<1> QED BY <1>1, <1>2, <1>3, <1>4, TypeSplit DEF IInv, BindingKept, OneJobPerWorker,
       NoOrphanReader, Init

LEMMA TypeNext ==
  ASSUME MasterOK, DaemonOK, [Next]_vars
  PROVE  MasterOK' /\ DaemonOK'
BY TypeCli, TypeTail, TypeFetch, TypeReady, TypeResult, TypeLocal, TypeBackground, TypeStutter
   DEF Next, WorkerStep

(* A worker with a slot in a PENDING job still owes its result, so FetchJob *)
(* replays that slot.                                                      *)
LEMMA PendingIsBound ==
  ASSUME MasterOK, RecordInv, BeliefInv, BindingKept, NEW w \in Workers, FetchJob(w)
  PROVE  \A j \in Jobs : status[j] = "PENDING" /\ w \in Assigned(j) => active[w] = j
<1> SUFFICES ASSUME NEW j \in Jobs, status[j] = "PENDING", w \in Assigned(j)
             PROVE  active[w] = j
  OBVIOUS
<1>1. w \notin leaving
  BY DEF FetchJob, FetchReplay, FetchAssign, FetchNothing, Fetches, BeliefInv, BeliefOK
<1>2. result[j][w] = "none"
  BY DEF RecordInv, RecordOK, BlankOK, CrewOK, Reported
<1> QED BY <1>1, <1>2 DEF BindingKept, Owes, Accepts, Live, LiveStatus, Assigned

LEMMA RecordNext ==
  ASSUME MasterOK, DaemonOK, RecordInv, BeliefInv, BindingKept, [Next]_vars
  PROVE  RecordInv'
<1>1. ASSUME NEW h \in tail, TailStep(h) PROVE UNCHANGED jobVars
  BY <1>1 DEF TailStep, Enqueue, Dequeue, Release, LoseReply
<1>2. ASSUME NEW w \in Workers, ProgressRefused(w) \/ LocalStep(w) PROVE UNCHANGED jobVars
  BY <1>2 DEF ProgressRefused, LocalStep, PreflightDone, BarrierCancelled, RunEnds, GiveUp,
              Shutdown, Crash
<1>3. ASSUME NEW w \in Workers, FetchJob(w) PROVE RecordInv'
  BY <1>3, PendingIsBound, RecordFetch
<1>4. CASE UNCHANGED vars
  BY <1>4, RecordOther DEF vars
<1> QED
  BY <1>1, <1>2, <1>3, <1>4, RecordCli, RecordReady, RecordResult, RecordBackground, RecordOther
  DEF Next, WorkerStep

LEMMA NextIInv == IInv /\ [Next]_vars => IInv'
<1> SUFFICES ASSUME IInv, [Next]_vars PROVE IInv'
  OBVIOUS
<1>1. MasterOK /\ DaemonOK /\ MasterOK' /\ DaemonOK'
  BY TypeSplit, TypeNext DEF IInv
<1>2. RecordInv' /\ DoomedInv' /\ BeliefInv' /\ TailInv'
  BY <1>1, RecordNext, DoomedNext, BeliefNext, TailNext DEF IInv
<1>3. leaving \subseteq leaving'
  BY DEF Next, vars, workerVars, CliStep, CreateJob, DeleteJob, TailStep,
         Enqueue, Dequeue, Release, LoseReply, WorkerStep, FetchJob, FetchReplay, FetchAssign,
         FetchNothing, ReportReady, ReadyRefused, ReadyCounted, ReadyErrorFails,
         ReadyErrorIgnored, ProgressRefused, ReportResult, ResultCounted, ResultIgnored,
         LocalStep, PreflightDone, BarrierCancelled, RunEnds, GiveUp, Shutdown, Crash,
         ReaderStep, ManifestFails, ManifestEnds, StalenessTick, GcSelect, GcRemove
<1>4. BindingKept' /\ OneJobPerWorker'
  BY <1>1, <1>3, BindingNext, OneJobNext DEF IInv
<1>6. NoOrphanReader'
  BY <1>1, <1>2, ReaderNext DEF IInv
<1>5. (TypeOK /\ BusyInv)'
  BY <1>1 DEF MasterOK, DaemonOK, TypeOK
<1> QED BY <1>2, <1>4, <1>6, <1>5 DEF IInv

(* The inductive invariant holds in every reachable state.                 *)
THEOREM Invariance == Spec => []IInv
BY InitIInv, NextIInv, PTL DEF Spec

-----------------------------------------------------------------------------
(* The theorems.                                                           *)

(* Every variable keeps its type: in particular no handler is ever left    *)
(* with a clean-up for no job or no worker.                                *)
THEOREM TypeCorrect == Spec => []TypeOK
BY Invariance, PTL DEF IInv

(* fetch_job hands out the worker indices 0, 1, ... of every job without   *)
(* gap or repetition, for any number of workers, whatever replies are lost *)
(* and whatever clean-ups run late.                                        *)
THEOREM SlotsAreExact == Spec => []SlotsExact
<1>1. IInv => SlotsExact
  BY DEF IInv, RecordInv, RecordOK, SlotsOK, SlotsExact
<1> QED BY <1>1, Invariance, PTL

(* The two set sizes that report_ready compares are equal only when every  *)
(* run worker has reported ready: the barrier never opens for an           *)
(* incomplete crew, for any crew size.                                     *)
THEOREM BarrierIsExact == Spec => []BarrierExact
<1>1. IInv => BarrierExact
  BY DEF IInv, RecordInv, RecordOK, CrewOK, BarrierExact, Filled
<1> QED BY <1>1, Invariance, PTL

(* No worker measures before the barrier of its job has opened.            *)
THEOREM NobodyStartsEarly == Spec => []NoEarlyStart
<1>1. IInv => NoEarlyStart
  BY DEF IInv, BeliefInv, BeliefOK, NoEarlyStart
<1> QED BY <1>1, Invariance, PTL

(* report_result completes a job exactly with the last missing success.    *)
THEOREM CompletionIsExact == Spec => []CompletionExact
<1>1. IInv => CompletionExact
  BY DEF IInv, RecordInv, RecordOK, VerdictOK, CompletionExact
<1> QED BY <1>1, Invariance, PTL

(* A worker owes a result to one job at most, however late the clean-ups   *)
(* of its former jobs are (fetch_job and its replay).                      *)
THEOREM BindingsAreExact == Spec => []OneJobPerWorker
<1>1. IInv => OneJobPerWorker
  BY DEF IInv
<1> QED BY <1>1, Invariance, PTL

(* As long as a worker that owes a result is not shutting down,            *)
(* worker_active_jobs names that job: no late clean-up of another job      *)
(* takes the binding away.                                                 *)
THEOREM BindingsAreKept == Spec => []BindingKept
<1>1. IInv => BindingKept
  BY DEF IInv
<1> QED BY <1>1, Invariance, PTL

(* What a terminal job was decided on never changes again.                 *)
THEOREM VerdictsAreFinal == Spec => VerdictFinal
<1>1. IInv /\ [Next]_vars =>
        [\A j \in Jobs : Terminal(j) =>
           \/ status'[j] = "collected"
           \/ /\ status'[j] = status[j]
              /\ result'[j] = result[j]
              /\ run'[j] = run[j]]_vars
  <2> SUFFICES ASSUME IInv, [Next]_vars, NEW j \in Jobs, Terminal(j)
               PROVE  \/ status'[j] = "collected"
                      \/ /\ status'[j] = status[j]
                         /\ result'[j] = result[j]
                         /\ run'[j] = run[j]
    OBVIOUS
  <2>1. Keeps(j)
    BY TypeSplit, KeepsNext DEF IInv
  <2> QED BY <2>1 DEF Keeps, Over, Terminal
<1> QED BY <1>1, Invariance, PTL DEF Spec, VerdictFinal

(* Only try_assign changes a crew, by one worker that was not in it.       *)
THEOREM CrewsAreFrozen == Spec => CrewFrozen
<1>1. IInv /\ [Next]_vars =>
        [\A j \in Jobs :
           slot'[j] # slot[j] /\ status'[j] # "collected" =>
             /\ status[j] = "PENDING"
             /\ \E w \in Workers \ Assigned(j) :
                  slot'[j] = [slot[j] EXCEPT ![w] = Filled(j)]]_vars
  <2> SUFFICES ASSUME IInv, [Next]_vars, NEW j \in Jobs,
                      slot'[j] # slot[j], status'[j] # "collected"
               PROVE  /\ status[j] = "PENDING"
                      /\ \E w \in Workers \ Assigned(j) :
                           slot'[j] = [slot[j] EXCEPT ![w] = Filled(j)]
    OBVIOUS
  <2>1. MasterOK /\ DaemonOK
    BY TypeSplit DEF IInv
  <2>2. PICK v \in Workers : FetchAssign(v)
    BY SlotSteps DEF GcRemove, Erase
  <2>3. PICK i \in Jobs : Open(i) /\ TryAssign(i, v)
    BY <2>1, <2>2, FetchServes
  <2>4. i = j
    BY <2>1, <2>3 DEF TryAssign, MasterOK
  <2>5. status[j] = "PENDING" /\ slot'[j] = [slot[j] EXCEPT ![v] = Filled(j)]
    BY <2>1, <2>3, <2>4 DEF Open, TryAssign, MasterOK
  <2>6. v \notin Assigned(j)
    <3>1. SUFFICES ASSUME v \in Assigned(j) PROVE FALSE
      OBVIOUS
    <3>2. active[v] = j
      BY <2>1, <2>2, <2>5, <3>1, PendingIsBound DEF IInv, FetchJob
    <3> QED
      BY <2>2, <2>5, <3>1, <3>2 DEF FetchAssign, Replayable, Accepts, Assigned, Live, LiveStatus
  <2> QED BY <2>5, <2>6
<1> QED BY <1>1, Invariance, PTL DEF Spec, CrewFrozen

-----------------------------------------------------------------------------
(* Refinement.                                                             *)

(* A step is seen by the life cycle only where status, crew or successes   *)
(* of a job change.                                                        *)
LEMMA UnseenStep ==
  ASSUME UNCHANGED <<status, run, result>>
  PROVE  UNCHANGED Lifecycle!vars
BY DEF Lifecycle!vars

LEMMA FetchRefines ==
  ASSUME IInv, IInv', NEW w \in Workers, FetchJob(w)
  PROVE  [Lifecycle!Next]_Lifecycle!vars
<1>1. MasterOK /\ DaemonOK /\ RecordInv
  BY TypeSplit DEF IInv
<1>2. CASE FetchReplay(w)
  BY <1>2, UnseenStep DEF FetchReplay, jobVars
<1>3. CASE FetchNothing(w)
  BY <1>1, <1>3, FetchNone, UnseenStep DEF FetchNothing
<1>4. CASE FetchAssign(w)
  <2>1. PICK i \in Jobs :
          /\ Open(i)
          /\ EnterPreparing(IF Cardinality(Assigned(i) \cup {w}) >= Target[i] THEN {i} ELSE {})
    BY <1>1, <1>4, FetchOne
  <2>2. UNCHANGED result
    BY <1>4 DEF FetchAssign
  <2>3. CASE EnterPreparing({})
    <3>1. status \in [Jobs -> Status] /\ run \in [Jobs -> SUBSET Workers]
      BY <1>1 DEF MasterOK
    <3>2. status' = [j \in Jobs |-> status[j]] /\ run' = [j \in Jobs |-> run[j]]
      BY <2>3, <3>1 DEF EnterPreparing
    <3>3. status' = status /\ run' = run
      BY <3>1, <3>2
    <3> QED BY <2>2, <3>3, UnseenStep
  <2>4. CASE EnterPreparing({i})
    <3>1. /\ status' = [status EXCEPT ![i] = "PREPARING"] /\ status[i] = "PENDING"
          /\ run' = [run EXCEPT ![i] = run'[i]]
      <4>1. status \in [Jobs -> Status] /\ run \in [Jobs -> SUBSET Workers] /\ i \in Jobs
        BY <1>1, <2>1 DEF MasterOK
      <4>2. status[i] = "PENDING"
        BY <2>1 DEF Open
      <4>3. status' = [status EXCEPT ![i] = "PREPARING"]
        BY <2>4, <4>1 DEF EnterPreparing
      <4>4. run' = [run EXCEPT ![i] = run'[i]]
        BY <2>4, <4>1 DEF EnterPreparing
      <4> QED BY <4>2, <4>3, <4>4
    <3>2. run'[i] \in SUBSET Workers /\ Cardinality(run'[i]) = Target[i]
      <4>1. RecordOK(i)' /\ status'[i] = "PREPARING" /\ run' \in [Jobs -> SUBSET Workers]
        BY <1>1, <3>1 DEF IInv, RecordInv, TypeOK, MasterOK
      <4> QED BY <4>1 DEF RecordOK, BlankOK, CrewOK, Filled
    <3>3. run'[i] \in [j \in Jobs |-> CrewsOfSize(Target[j])][i]
      BY <3>2 DEF CrewsOfSize
    <3>4. [j \in Jobs |-> {v \in Workers : result'[j][v] = "ok"}]
            = [j \in Jobs |-> {v \in Workers : result[j][v] = "ok"}]
      BY <2>2
    <3>5. Lifecycle!Staff(i)
      BY <3>1, <3>3, <3>4, Zenon DEF Lifecycle!Staff, Lifecycle!Becomes
    <3> QED BY <3>5 DEF Lifecycle!Next
  <2> QED BY <2>1, <2>3, <2>4
<1> QED BY <1>2, <1>3, <1>4 DEF FetchJob

(* The steps that only fail jobs, and those that only end a PENDING wait.  *)
LEMMA FailRefines ==
  ASSUME NEW J \in SUBSET Jobs, UNCHANGED <<run, result>>,
         \A j \in J : status[j] \in {"PREPARING", "RUNNING"},
         status' = [j \in Jobs |-> IF j \in J THEN "FAILED" ELSE status[j]]
  PROVE  [Lifecycle!Next]_Lifecycle!vars
<1>1. Lifecycle!Fail(J)
  BY DEF Lifecycle!Fail
<1> QED BY <1>1 DEF Lifecycle!Next

LEMMA CliRefines ==
  ASSUME IInv, NEW j \in Jobs, CliStep(j)
  PROVE  [Lifecycle!Next]_Lifecycle!vars
<1>1. UNCHANGED <<run, result>>
  BY DEF CliStep, CreateJob, DeleteJob
<1>2. CASE CreateJob(j)
  <2>1. Lifecycle!Create(j)
    BY <1>1, <1>2 DEF CreateJob, Lifecycle!Create, Lifecycle!Becomes
  <2> QED BY <2>1 DEF Lifecycle!Next
<1>3. CASE DeleteJob(j)
  <2>1. Lifecycle!Cancel(j)
    BY <1>1, <1>3
    DEF DeleteJob, Live, LiveStatus, Lifecycle!Cancel, Lifecycle!Live, Lifecycle!Becomes
  <2> QED BY <2>1 DEF Lifecycle!Next
<1> QED BY <1>2, <1>3 DEF CliStep

LEMMA ReadyRefines ==
  ASSUME IInv, NEW w \in Workers, ReportReady(w)
  PROVE  [Lifecycle!Next]_Lifecycle!vars
<1>1. MasterOK /\ DaemonOK
  BY TypeSplit DEF IInv
<1>2. at[w] \in Jobs
  BY <1>1 DEF ReportReady, ReadyRefused, ReadyCounted, ReadyErrorFails, ReadyErrorIgnored,
              DaemonOK, BusyInv
<1>3. CASE ReadyRefused(w) \/ ReadyErrorIgnored(w)
  BY <1>3, UnseenStep DEF ReadyRefused, ReadyErrorIgnored, jobVars
<1>4. CASE ReadyErrorFails(w)
  <2>1. status' = [j \in Jobs |-> IF j \in {at[w]} THEN "FAILED" ELSE status[j]]
    BY <1>1, <1>4 DEF ReadyErrorFails, MasterOK
  <2>2. status[at[w]] \in {"PREPARING", "RUNNING"} /\ UNCHANGED <<run, result>>
    BY <1>4 DEF ReadyErrorFails
  <2>3. Lifecycle!Fail({at[w]})
    BY <1>2, <2>1, <2>2 DEF Lifecycle!Fail
  <2>4. {at[w]} \in SUBSET Jobs
    BY <1>2
  <2> QED BY <2>3, <2>4 DEF Lifecycle!Next
<1>5. CASE ReadyCounted(w) /\ Opens(at[w], w)
  <2>1. Lifecycle!Start(at[w])
    BY <1>1, <1>5 DEF ReadyCounted, Opens, Lifecycle!Start, Lifecycle!Becomes
  <2> QED BY <1>2, <2>1 DEF Lifecycle!Next
<1>6. CASE ReadyCounted(w) /\ ~Opens(at[w], w)
  <2>1. status' = status
    BY <1>1, <1>6 DEF ReadyCounted, MasterOK
  <2> QED BY <1>6, <2>1, UnseenStep DEF ReadyCounted
<1> QED BY <1>3, <1>4, <1>5, <1>6 DEF ReportReady

LEMMA ResultRefines ==
  ASSUME IInv, IInv', NEW w \in Workers, ReportResult(w)
  PROVE  [Lifecycle!Next]_Lifecycle!vars
<1>1. MasterOK /\ DaemonOK /\ RecordInv
  BY TypeSplit DEF IInv
<1>2. CASE ResultIgnored(w)
  BY <1>2, UnseenStep DEF ResultIgnored, jobVars
<1>3. CASE ResultCounted(w)
  <2>1. PICK j \in Jobs : j = at[w]
    BY <1>1, <1>3 DEF ResultCounted, Reporting, DaemonOK, BusyInv
  <2>2. /\ result' = [result EXCEPT ![j][w] = Verdict(w)]
        /\ status' = [status EXCEPT ![j] = Outcome(j, w)]
        /\ Records(j, w) /\ run' = run
    BY <1>3, <2>1 DEF ResultCounted
  <2>3. status[j] = "RUNNING" /\ w \in run[j] /\ result[j][w] = "none"
    BY <2>2 DEF Records
  <2>4. \A i \in Jobs, v \in Workers :
          result'[i][v] = IF i = j /\ v = w THEN Verdict(w) ELSE result[i][v]
    BY <1>1, <2>2 DEF MasterOK
  <2>5. CASE Verdict(w) = "fail"
    <3>1. [i \in Jobs |-> {v \in Workers : result'[i][v] = "ok"}]
            = [i \in Jobs |-> {v \in Workers : result[i][v] = "ok"}]
      <4>1. \A i \in Jobs, v \in Workers : result'[i][v] = "ok" <=> result[i][v] = "ok"
        BY <2>3, <2>4, <2>5
      <4> QED BY <4>1
    <3>2. status' = [i \in Jobs |-> IF i \in {j} THEN "FAILED" ELSE status[i]]
      BY <1>1, <2>2, <2>5 DEF Outcome, MasterOK
    <3>3. Lifecycle!Fail({j})
      BY <2>2, <2>3, <3>1, <3>2 DEF Lifecycle!Fail
    <3> QED BY <3>3 DEF Lifecycle!Next
  <2>6. CASE Verdict(w) = "ok"
    <3> DEFINE S  == [i \in Jobs |-> {v \in Workers : result[i][v] = "ok"}]
               Sn == [i \in Jobs |-> {v \in Workers : result'[i][v] = "ok"}]
    <3>1. Sn = [S EXCEPT ![j] = @ \cup {w}]
      <4>1. \A i \in Jobs, v \in Workers :
              result'[i][v] = "ok" <=> result[i][v] = "ok" \/ (i = j /\ v = w)
        BY <2>4, <2>6
      <4>2. \A i \in Jobs : Sn[i] = IF i = j THEN S[i] \cup {w} ELSE S[i]
        BY <4>1
      <4>3. DOMAIN S = Jobs /\ S = [i \in Jobs |-> S[i]] /\ Sn = [i \in Jobs |-> Sn[i]]
        OBVIOUS
      <4> HIDE DEF S, Sn
      <4> QED BY <4>2, <4>3
    <3>2. w \in run[j] \ S[j]
      BY <2>3
    <3>3. S[j] = Reported(j) /\ Sn[j] = Reported(j) \cup {w}
      <4>1. RecordOK(j)
        BY <1>1 DEF RecordInv
      <4>2. \A v \in Workers : result[j][v] = "none" \/ result[j][v] = "ok"
        BY <1>1, <2>3, <4>1 DEF RecordOK, CrewOK, VerdictOK, Reported, MasterOK
      <4> QED BY <4>2, <3>1 DEF Reported
    <3>4. Sn[j] = run[j] <=> Cardinality(Reported(j) \cup {w}) = Cardinality(run[j])
      <4>1. Reported(j) \cup {w} \in SUBSET run[j] /\ run[j] \in SUBSET Workers
        BY <1>1, <2>3 DEF RecordInv, RecordOK, CrewOK, MasterOK
      <4>2. \A T \in SUBSET run[j] : Cardinality(T) = Cardinality(run[j]) => T = run[j]
        BY <4>1, SameSize
      <4>3. Sn[j] = Reported(j) \cup {w}
        BY <3>3
      <4> HIDE DEF S, Sn
      <4> QED BY <4>1, <4>2, <4>3
    <3>5. IF Sn[j] = run[j] THEN status' = [status EXCEPT ![j] = "COMPLETED"]
                            ELSE status' = status
      BY <1>1, <2>2, <2>6, <3>4 DEF Outcome, MasterOK
    <3> HIDE DEF S, Sn
    <3>6. /\ status[j] = "RUNNING" /\ w \in run[j] \ S[j] /\ Sn = [S EXCEPT ![j] = @ \cup {w}]
          /\ IF Sn[j] = run[j] THEN status' = [status EXCEPT ![j] = "COMPLETED"]
                               ELSE status' = status
          /\ run' = run
      BY <2>2, <2>3, <3>1, <3>2, <3>5
    <3>7. Lifecycle!Succeed(j, w)
      BY <3>6, Zenon DEF S, Sn, Lifecycle!Succeed, Lifecycle!Becomes
    <3> QED BY <3>7 DEF Lifecycle!Next
  <2> QED BY <2>5, <2>6 DEF Verdict
<1> QED BY <1>2, <1>3 DEF ReportResult

LEMMA BackgroundRefines ==
  ASSUME IInv,
         \/ \E j \in Jobs : ReaderStep(j)
         \/ \E J \in SUBSET Jobs : StalenessTick(J) \/ GcSelect(J)
         \/ GcRemove
  PROVE  [Lifecycle!Next]_Lifecycle!vars
<1>1. MasterOK /\ RecordInv /\ DoomedInv
  BY TypeSplit DEF IInv
<1>2. ASSUME NEW j \in Jobs, ManifestFails(j) PROVE [Lifecycle!Next]_Lifecycle!vars
  <2>1. status[j] \in {"PREPARING", "RUNNING"}
    BY <1>2 DEF ManifestFails, IInv, NoOrphanReader
  <2>2. status' = [i \in Jobs |-> IF i \in {j} THEN "FAILED" ELSE status[i]]
    BY <1>1, <1>2 DEF ManifestFails, MasterOK
  <2> QED BY <1>2, <2>1, <2>2, FailRefines DEF ManifestFails
<1>3. ASSUME NEW j \in Jobs, ManifestEnds(j) PROVE [Lifecycle!Next]_Lifecycle!vars
  BY <1>3, UnseenStep DEF ManifestEnds
<1>4. ASSUME NEW J \in SUBSET Jobs, StalenessTick(J) PROVE [Lifecycle!Next]_Lifecycle!vars
  BY <1>4, FailRefines DEF StalenessTick
<1>5. ASSUME NEW J \in SUBSET Jobs, GcSelect(J) PROVE [Lifecycle!Next]_Lifecycle!vars
  BY <1>5, UnseenStep DEF GcSelect, jobVars
<1>6. CASE GcRemove
  <2>0. PICK J : J = {j \in doomed : Terminal(j)}
    OBVIOUS
  <2> DEFINE S  == [j \in Jobs |-> {v \in Workers : result[j][v] = "ok"}]
             Sn == [j \in Jobs |-> {v \in Workers : result'[j][v] = "ok"}]
  <2>1. J \in SUBSET Jobs /\ \A j \in J : status[j] \in {"COMPLETED", "FAILED", "CANCELLED"}
    BY <1>1, <2>0 DEF MasterOK, Terminal, TerminalStatus
  <2>2. \A j \in doomed \ J : /\ status[j] = "collected" /\ run[j] = {}
                              /\ \A v \in Workers : result[j][v] = "none"
    <3>1. \A j \in doomed \ J : j \in Jobs /\ status[j] = "collected" /\ RecordOK(j)
      BY <1>1, <2>0 DEF DoomedInv, Over, Terminal, MasterOK, RecordInv
    <3> QED BY <3>1 DEF RecordOK, BlankOK, CrewOK, Reported
  <2>3. /\ status' = [j \in Jobs |-> IF j \in J THEN "collected" ELSE status[j]]
        /\ run'    = [j \in Jobs |-> IF j \in J THEN {} ELSE run[j]]
    <3>1. J \subseteq doomed
      BY <2>0
    <3>2. \A j \in Jobs : /\ status'[j] = IF j \in J THEN "collected" ELSE status[j]
                         /\ run'[j] = IF j \in J THEN {} ELSE run[j]
      BY <1>6, <2>2, <3>1 DEF GcRemove, Erase
    <3>3. /\ status' = [j \in Jobs |-> status'[j]]
          /\ run'    = [j \in Jobs |-> run'[j]]
      BY <1>6 DEF GcRemove, Erase
    <3> QED BY <3>2, <3>3
  <2>4. \A j \in Jobs : Sn[j] = IF j \in J THEN {} ELSE S[j]
    <3>1. \A j \in Jobs, v \in Workers :
            result'[j][v] = IF j \in doomed THEN "none" ELSE result[j][v]
      BY <1>6 DEF GcRemove, Erase
    <3>2. \A j \in Jobs, v \in Workers :
            result'[j][v] = "ok" <=> j \notin J /\ result[j][v] = "ok"
      BY <2>0, <2>2, <3>1
    <3> QED BY <3>2
  <2>5. Sn = [j \in Jobs |-> IF j \in J THEN {} ELSE S[j]]
    BY <2>4
  <2>6. Lifecycle!Collect(J)
    BY <2>1, <2>3, <2>5, Zenon DEF Lifecycle!Collect
  <2> QED BY <2>1, <2>6 DEF Lifecycle!Next
<1> QED BY <1>2, <1>3, <1>4, <1>5, <1>6 DEF ReaderStep

LEMMA NextRefines == IInv /\ IInv' /\ [Next]_vars => [Lifecycle!Next]_Lifecycle!vars
<1> SUFFICES ASSUME IInv, IInv', [Next]_vars PROVE [Lifecycle!Next]_Lifecycle!vars
  OBVIOUS
<1>1. ASSUME NEW h \in tail, TailStep(h) PROVE UNCHANGED jobVars
  BY <1>1 DEF TailStep, Enqueue, Dequeue, Release, LoseReply
<1>2. ASSUME NEW w \in Workers, ProgressRefused(w) \/ LocalStep(w) PROVE UNCHANGED jobVars
  BY <1>2 DEF ProgressRefused, LocalStep, PreflightDone, BarrierCancelled, RunEnds, GiveUp,
              Shutdown, Crash
<1>3. CASE UNCHANGED jobVars
  BY <1>3, UnseenStep DEF jobVars
<1>4. CASE UNCHANGED vars
  BY <1>3, <1>4 DEF vars
<1> QED
  BY <1>1, <1>2, <1>3, <1>4, CliRefines, FetchRefines, ReadyRefines, ResultRefines,
     BackgroundRefines
  DEF Next, WorkerStep

(* A reader task of a manifest runs only while its job is PREPARING or     *)
(* RUNNING.                                                                *)
THEOREM ReadersAreOwned == Spec => []NoOrphanReader
BY Invariance, PTL DEF IInv

(* The master, with all its locks, lost replies, late clean-ups, crashes   *)
(* and ticks, implements the life cycle of JobLifecycle.                   *)
THEOREM LifecycleImplemented == Spec => ImplementsLifecycle
<1>1. Init => Lifecycle!Init
  <2> SUFFICES ASSUME Init PROVE Lifecycle!Init
    OBVIOUS
  <2>1. [j \in Jobs |-> {v \in Workers : result[j][v] = "ok"}] = [j \in Jobs |-> {}]
    BY DEF Init
  <2> QED BY <2>1, Zenon DEF Init, Lifecycle!Init
<1> QED BY <1>1, NextRefines, Invariance, PTL DEF Spec, ImplementsLifecycle, Lifecycle!Spec

-----------------------------------------------------------------------------
(* The queue of PENDING jobs: none is lost from it although it is written  *)
(* by steps that no longer hold the jobs lock, and the jobs at its head    *)
(* are filled one after the other.                                         *)


(* CreateJob has still to append j.                                        *)
Announced(j) == \E h \in tail : h.op = "enqueue" /\ h.job = j

QueuedBorn == \A j \in QueuedJobs : status[j] # "unborn"

(* There is one announcement of a job at most, and the job is not queued   *)
(* before it; nobody can have fetched it.                                  *)
AnnouncedOnce ==
  \A h \in tail : h.op = "enqueue" =>
    /\ h.crew = {} /\ h.caller = None
    /\ h.job \notin QueuedJobs
    /\ status[h.job] # "unborn" /\ Assigned(h.job) = {}

(* Only a cancelled job is taken out of the middle of the queue.           *)
LeaversOver == \A h \in tail : h.op = "dequeue" => Over(h.job)

QueueInv == PendingServed /\ OnePartialJob /\ QueuedBorn /\ AnnouncedOnce /\ LeaversOver

-----------------------------------------------------------------------------
(* Lemmas about the queue.                                                 *)

(* What is left when one place is cut out of a queue.                      *)
LEMMA WithoutShape ==
  ASSUME NEW q \in Seq(Jobs), NEW j \in Jobs
  PROVE  LET r == Without(q, j) IN
         \/ r = q /\ \A i \in 1..Len(q) : q[i] # j
         \/ \E p \in 1..Len(q) :
              /\ q[p] = j /\ Len(r) = Len(q) - 1
              /\ \A i \in 1..Len(r) : r[i] = IF i < p THEN q[i] ELSE q[i + 1]
<1>1. CASE ~\E p \in 1..Len(q) : q[p] = j
  BY <1>1 DEF Without
<1>2. CASE \E p \in 1..Len(q) : q[p] = j
  <2>1. PICK p \in 1..Len(q) :
          /\ q[p] = j
          /\ Without(q, j) = SubSeq(q, 1, p - 1) \o SubSeq(q, p + 1, Len(q))
    BY <1>2, WithoutCuts
  <2> DEFINE a == SubSeq(q, 1, p - 1)
             b == SubSeq(q, p + 1, Len(q))
  <2>2. /\ a \in Seq(Jobs) /\ Len(a) = p - 1
        /\ \A i \in 1..(p - 1) : a[i] = q[i]
    BY SubSeqProperties, \A i \in 1..(p - 1) : q[i] \in Jobs
  <2>3. /\ b \in Seq(Jobs) /\ Len(b) = Len(q) - p
        /\ \A i \in 1..(Len(q) - p) : b[i] = q[p + i]
    BY SubSeqProperties, \A i \in (p + 1)..Len(q) : q[i] \in Jobs
  <2> HIDE DEF a, b
  <2>4. /\ Len(a \o b) = Len(a) + Len(b)
        /\ \A i \in 1..(Len(a) + Len(b)) :
             (a \o b)[i] = IF i <= Len(a) THEN a[i] ELSE b[i - Len(a)]
    <3>1. a \in Seq(Jobs) /\ b \in Seq(Jobs)
      BY <2>2, <2>3
    <3> QED BY ONLY <3>1, ConcatProperties
  <2>5. Len(a \o b) = Len(q) - 1
    BY <2>2, <2>3, <2>4
  <2>6. ASSUME NEW i \in 1..(Len(q) - 1), i < p PROVE (a \o b)[i] = q[i]
    <3>1. i \in 1..(p - 1) /\ i <= Len(a) /\ i \in 1..(Len(a) + Len(b))
      BY <2>2, <2>3, <2>6
    <3> QED BY <2>2, <2>4, <3>1
  <2>7. ASSUME NEW i \in 1..(Len(q) - 1), ~(i < p) PROVE (a \o b)[i] = q[i + 1]
    <3>1. /\ i - (p - 1) \in 1..(Len(q) - p) /\ p + (i - (p - 1)) = i + 1
          /\ ~(i <= Len(a)) /\ i \in 1..(Len(a) + Len(b)) /\ i - Len(a) = i - (p - 1)
      BY <2>2, <2>3, <2>7
    <3>2. (a \o b)[i] = b[i - (p - 1)]
      BY <2>4, <3>1
    <3> QED BY <2>3, <3>1, <3>2
  <2> QED BY <2>1, <2>5, <2>6, <2>7 DEF a, b
<1> QED BY <1>1, <1>2

(* An invariant job record that is PENDING has a slot left.                *)
LEMMA PendingIsOpen ==
  ASSUME RecordInv, NEW j \in Jobs, status[j] = "PENDING"
  PROVE  Open(j)
BY DEF RecordInv, RecordOK, BlankOK, Open

LEMMA SameAssigned == ASSUME NEW j \in Jobs, slot'[j] = slot[j] PROVE Assigned(j)' = Assigned(j)
BY DEF Assigned

-----------------------------------------------------------------------------
(* Steps that do not touch the queue.                                      *)

(* No job becomes PENDING or takes a slot, and no announcement is added or *)
(* lost.                                                                   *)
Calm ==
  /\ pending' = pending
  /\ \A j \in Jobs : status'[j] \in {"PENDING", "unborn"} => status'[j] = status[j]
  /\ \A j \in Jobs : slot'[j] = slot[j] \/ Assigned(j)' = {}
  /\ \A h \in tail \cup tail' : h.op = "enqueue" => (h \in tail <=> h \in tail')

LEMMA CalmKeepsQueue ==
  ASSUME MasterOK, MasterOK', QueueInv, Calm
  PROVE  PendingServed' /\ OnePartialJob' /\ QueuedBorn' /\ AnnouncedOnce'
<1>0. \A j \in Jobs : Assigned(j)' = Assigned(j) \/ Assigned(j)' = {}
  BY SameAssigned DEF Calm
<1>1. QueuedJobs' = QueuedJobs /\ QueuedJobs \subseteq Jobs
  BY DEF Calm, QueuedJobs, MasterOK
<1>2. PendingServed'
  <2>1. \A j \in Jobs : Announced(j) => Announced(j)'
    BY DEF Calm, Announced
  <2>2. \A j \in Jobs : status'[j] = "PENDING" => j \in QueuedJobs \/ Announced(j)
    BY DEF Calm, QueueInv, PendingServed, Announced
  <2>3. \A j \in Jobs : status'[j] = "PENDING" => j \in QueuedJobs' \/ Announced(j)'
    BY <1>1, <2>1, <2>2
  <2> QED BY <2>3 DEF Calm, QueueInv, PendingServed, Announced
<1>3. OnePartialJob'
  <2> SUFFICES ASSUME NEW k \in 1..Len(pending), status'[pending[k]] = "PENDING",
                      Assigned(pending[k])' # {}, NEW i \in 1..(k - 1)
               PROVE  status'[pending[i]] # "PENDING"
    BY DEF OnePartialJob, Calm
  <2>1. pending[k] \in Jobs /\ pending[i] \in Jobs
    BY DEF MasterOK
  <2>2. status[pending[k]] = "PENDING" /\ Assigned(pending[k]) # {}
    BY <1>0, <2>1 DEF Calm
  <2>3. status[pending[i]] # "PENDING"
    BY <2>2 DEF QueueInv, OnePartialJob
  <2> QED BY <2>1, <2>3 DEF Calm
<1>4. QueuedBorn'
  BY <1>1 DEF Calm, QueueInv, QueuedBorn
<1>5. AnnouncedOnce'
  <2> SUFFICES ASSUME NEW h \in tail', h.op = "enqueue"
               PROVE  /\ h.crew = {} /\ h.caller = None
                      /\ h.job \notin QueuedJobs'
                      /\ status'[h.job] # "unborn" /\ Assigned(h.job)' = {}
    BY DEF AnnouncedOnce
  <2>1. h \in tail /\ h.job \in Jobs
    BY DEF Calm, MasterOK, Tails
  <2> QED BY <1>0, <1>1, <2>1 DEF Calm, QueueInv, AnnouncedOnce
<1> QED BY <1>2, <1>3, <1>4, <1>5

(* A record of the tail keeps its kind unless it is rewritten whole.       *)
LEMMA TailOps ==
  ASSUME NEW h \in Tails, NEW c \in Workers \cup {None}
  PROVE  /\ [h EXCEPT !.caller = c] \in Tails
         /\ [h EXCEPT !.caller = c].op = h.op /\ [h EXCEPT !.caller = c].job = h.job
         /\ [h EXCEPT !.op = "release"].op = "release"
         /\ h.caller = c => [h EXCEPT !.caller = c] = h
BY DEF Tails

LEMMA SameTail ==
  \A g, h \in Tails : g.op = h.op /\ g.job = h.job /\ g.crew = h.crew /\ g.caller = h.caller => g = h
BY DEF Tails

LEMMA ReleaseOps ==
  \A j, crew, c : Rest("release", j, crew, c).op = "release"
                  /\ Rest("dequeue", j, crew, c).op = "dequeue"
                  /\ Rest("dequeue", j, crew, c).job = j
BY DEF Rest

LEMMA DeleteIsCalm ==
  ASSUME MasterOK, NEW j \in Jobs, DeleteJob(j)
  PROVE  Calm
<1>1. /\ pending' = pending /\ slot' = slot
      /\ status' = [status EXCEPT ![j] = "CANCELLED"]
  BY DEF DeleteJob
<1>2. \E g : g.op # "enqueue" /\ tail' = tail \cup {g}
  BY ReleaseOps DEF DeleteJob
<1>3. \A i \in Jobs : status'[i] \in {"PENDING", "unborn"} => status'[i] = status[i]
  BY <1>1 DEF MasterOK
<1> QED BY <1>1, <1>2, <1>3 DEF Calm

LEMMA TailIsCalm ==
  ASSUME MasterOK, AnnouncedOnce, NEW h \in tail, Release(h) \/ LoseReply(h)
  PROVE  Calm
<1>1. pending' = pending /\ UNCHANGED jobVars
  BY DEF Release, LoseReply
<1>2. h \in Tails
  BY DEF MasterOK
<1>3. h.op # "enqueue"
  BY DEF Release, LoseReply, AnnouncedOnce
<1>4. \/ tail' = tail \ {h}
      \/ \E g : g.op = h.op /\ tail' = (tail \ {h}) \cup {g}
  BY <1>2, TailOps DEF Release, LoseReply
<1> QED BY <1>1, <1>3, <1>4 DEF Calm, jobVars

LEMMA WorkerIsCalm ==
  ASSUME MasterOK, DaemonOK, AnnouncedOnce, NEW w \in Workers, WorkerStep(w),
         ~FetchAssign(w), ~FetchNothing(w)
  PROVE  Calm
<1>1. CASE FetchReplay(w) \/ ReadyRefused(w) \/ ReadyErrorIgnored(w) \/ ProgressRefused(w)
           \/ PreflightDone(w) \/ BarrierCancelled(w) \/ RunEnds(w) \/ GiveUp(w) \/ Shutdown(w)
  BY <1>1 DEF FetchReplay, ReadyRefused, ReadyErrorIgnored, ProgressRefused, PreflightDone,
              BarrierCancelled, RunEnds, GiveUp, Shutdown, Calm, jobVars, tableVars
<1>2. CASE ReadyCounted(w)
  BY <1>2 DEF ReadyCounted, Calm, tableVars, MasterOK
<1>3. CASE ReadyErrorFails(w) \/ ResultCounted(w) \/ ResultIgnored(w)
  <2>1. at[w] \in Jobs
    BY <1>3 DEF ReadyErrorFails, ResultCounted, ResultIgnored, Reporting, DaemonOK, BusyInv
  <2>2. pending' = pending /\ slot' = slot
    BY <1>3 DEF ReadyErrorFails, ResultCounted, ResultIgnored, jobVars
  <2>3. \E g : g.op # "enqueue" /\ tail' = tail \cup {g}
    BY <1>3, ReleaseOps DEF ReadyErrorFails, ResultCounted, ResultIgnored
  <2>4. \A i \in Jobs : status'[i] \in {"PENDING", "unborn"} => status'[i] = status[i]
    BY <1>3, <2>1 DEF ReadyErrorFails, ResultCounted, ResultIgnored, Outcome, jobVars, MasterOK
  <2> QED BY <2>2, <2>3, <2>4 DEF Calm
<1>4. CASE Crash(w)
  <2>1. UNCHANGED <<jobVars, pending>>
    BY <1>4 DEF Crash
  <2>2. tail' = {IF h.caller = w THEN [h EXCEPT !.caller = None] ELSE h : h \in tail}
    BY <1>4 DEF Crash
  <2>3. \A h \in tail : h.op = "enqueue" => h.caller # w
    BY SchedulerAssumption DEF AnnouncedOnce
  <2>4. \A h \in tail : h.caller = w => [h EXCEPT !.caller = None].op = h.op
    BY TailOps DEF MasterOK
  <2>5. \A h \in tail \cup tail' : h.op = "enqueue" => (h \in tail <=> h \in tail')
    BY <2>2, <2>3, <2>4
  <2> QED BY <2>1, <2>5 DEF Calm, jobVars
<1> QED BY <1>1, <1>2, <1>3, <1>4 DEF WorkerStep, FetchJob, ReportReady, ReportResult, LocalStep

LEMMA BackgroundIsCalm ==
  ASSUME MasterOK,
         \/ \E j \in Jobs : ReaderStep(j)
         \/ \E J \in SUBSET Jobs : StalenessTick(J) \/ GcSelect(J)
         \/ GcRemove
  PROVE  Calm
<1>1. ASSUME NEW j \in Jobs, ManifestFails(j) PROVE Calm
  <2>1. \E g : g.op # "enqueue" /\ tail' = tail \cup {g}
    BY <1>1, ReleaseOps DEF ManifestFails
  <2> QED BY <1>1, <2>1 DEF ManifestFails, Calm, MasterOK
<1>2. ASSUME NEW j \in Jobs, ManifestEnds(j) PROVE Calm
  BY <1>2 DEF ManifestEnds, Calm, tableVars
<1>3. ASSUME NEW J \in SUBSET Jobs, StalenessTick(J) PROVE Calm
  <2>1. \A g \in tail' \ tail : g.op # "enqueue"
    BY <1>3, ReleaseOps DEF StalenessTick
  <2>2. tail \subseteq tail'
    BY <1>3 DEF StalenessTick
  <2> QED BY <1>3, <2>1, <2>2 DEF StalenessTick, Calm
<1>4. ASSUME NEW J \in SUBSET Jobs, GcSelect(J) PROVE Calm
  BY <1>4 DEF GcSelect, Calm, jobVars
<1>5. CASE GcRemove
  <2>1. \A j \in Jobs : slot'[j] = slot[j] \/ slot'[j] = [w \in Workers |-> Free]
    BY <1>5 DEF GcRemove, Erase
  <2>2. \A j \in Jobs : slot'[j] = slot[j] \/ Assigned(j)' = {}
    BY <2>1 DEF Assigned
  <2>3. \A j \in Jobs : status'[j] \in {"PENDING", "unborn"} => status'[j] = status[j]
    BY <1>5 DEF GcRemove, Erase
  <2> QED BY <1>5, <2>2, <2>3 DEF GcRemove, Calm
<1> QED BY <1>1, <1>2, <1>3, <1>4, <1>5 DEF ReaderStep

-----------------------------------------------------------------------------
(* Steps that write the queue or announce a job.                           *)

LEMMA CreateKeepsQueue ==
  ASSUME MasterOK, RecordInv, QueueInv, NEW j \in Jobs, CreateJob(j)
  PROVE  PendingServed' /\ OnePartialJob' /\ QueuedBorn' /\ AnnouncedOnce'
<1> DEFINE g == Rest("enqueue", j, {}, None)
<1>1. /\ status[j] = "unborn" /\ pending' = pending /\ slot' = slot
      /\ status' = [status EXCEPT ![j] = "PENDING"] /\ tail' = tail \cup {g}
  BY DEF CreateJob
<1>2. g.op = "enqueue" /\ g.job = j /\ g.crew = {} /\ g.caller = None
  BY DEF Rest
<1> HIDE DEF g
<1>3. QueuedJobs' = QueuedJobs /\ QueuedJobs \subseteq Jobs /\ j \notin QueuedJobs
  BY <1>1 DEF QueuedJobs, MasterOK, QueueInv, QueuedBorn
<1>4. \A i \in Jobs : Assigned(i)' = Assigned(i)
  BY <1>1, SameAssigned
<1>5. \A i \in Jobs \ {j} : status'[i] = status[i]
  BY <1>1
<1>6. status'[j] = "PENDING" /\ Assigned(j) = {}
  BY <1>1 DEF MasterOK, RecordInv, RecordOK, BlankOK
<1>7. PendingServed'
  BY <1>1, <1>2, <1>3, <1>5 DEF QueueInv, PendingServed
<1>8. OnePartialJob'
  <2>1. \A k \in 1..Len(pending) : pending[k] \in Jobs \ {j}
    BY <1>3 DEF QueuedJobs
  <2> SUFFICES ASSUME NEW k \in 1..Len(pending), status'[pending[k]] = "PENDING",
                      Assigned(pending[k])' # {}, NEW i \in 1..(k - 1)
               PROVE  status'[pending[i]] # "PENDING"
    BY <1>1 DEF OnePartialJob
  <2>2. Assigned(pending[k])' = Assigned(pending[k])
    BY <1>1 DEF Assigned
  <2>3. i \in 1..Len(pending)
    BY DEF MasterOK
  <2> QED BY <1>5, <2>1, <2>2, <2>3 DEF QueueInv, OnePartialJob
<1>9. QueuedBorn'
  BY <1>3, <1>5 DEF QueueInv, QueuedBorn
<1>10. AnnouncedOnce'
  <2> SUFFICES ASSUME NEW h \in tail', h.op = "enqueue"
               PROVE  /\ h.crew = {} /\ h.caller = None
                      /\ h.job \notin QueuedJobs'
                      /\ status'[h.job] # "unborn" /\ Assigned(h.job)' = {}
    BY DEF AnnouncedOnce
  <2>1. CASE h = g
    BY <1>2, <1>3, <1>4, <1>6, <2>1
  <2>2. CASE h \in tail
    <3>1. h.job \in Jobs /\ status[h.job] # "unborn"
      BY <2>2 DEF MasterOK, Tails, QueueInv, AnnouncedOnce
    <3>2. h.job # j
      BY <1>1, <3>1
    <3> QED BY <1>3, <1>4, <1>5, <2>2, <3>1, <3>2 DEF QueueInv, AnnouncedOnce
  <2> QED BY <1>1, <2>1, <2>2
<1> QED BY <1>7, <1>8, <1>9, <1>10

LEMMA EnqueueKeepsQueue ==
  ASSUME MasterOK, QueueInv, NEW h \in tail, Enqueue(h)
  PROVE  PendingServed' /\ OnePartialJob' /\ QueuedBorn' /\ AnnouncedOnce'
<1>1. /\ h.op = "enqueue" /\ pending' = Append(pending, h.job) /\ tail' = tail \ {h}
      /\ UNCHANGED <<status, slot>>
  BY DEF Enqueue, jobVars
<1>2. /\ h \in Tails /\ h.job \in Jobs /\ h.job \notin QueuedJobs
      /\ status[h.job] # "unborn" /\ Assigned(h.job) = {}
  BY <1>1 DEF MasterOK, Tails, QueueInv, AnnouncedOnce
<1>3. /\ Len(pending') = Len(pending) + 1 /\ Len(pending) \in Nat
      /\ \A i \in 1..Len(pending) : pending'[i] = pending[i]
      /\ pending'[Len(pending) + 1] = h.job
  BY <1>1, <1>2, AppendProperties DEF MasterOK
<1>4. \A k \in 1..Len(pending') : k \in 1..Len(pending) \/ k = Len(pending) + 1
  BY <1>3
<1>5. QueuedJobs' = QueuedJobs \cup {h.job}
  BY <1>3, <1>4 DEF QueuedJobs
<1>6. \A i \in Jobs : Assigned(i)' = Assigned(i)
  BY <1>1, SameAssigned
<1>7. PendingServed'
  <2>1. \A i, k \in 1..Len(pending') : pending'[i] = pending'[k] => i = k
    <3>1. \A k \in 1..Len(pending) : pending[k] # h.job
      BY <1>2 DEF QueuedJobs
    <3> QED BY <1>3, <1>4, <3>1 DEF QueueInv, PendingServed
  <2>2. \A j \in Jobs : status'[j] = "PENDING" =>
          j \in QueuedJobs' \/ \E g \in tail' : g.op = "enqueue" /\ g.job = j
    BY <1>1, <1>5 DEF QueueInv, PendingServed
  <2> QED BY <2>1, <2>2 DEF PendingServed
<1>8. OnePartialJob'
  <2> SUFFICES ASSUME NEW k \in 1..Len(pending'), status'[pending'[k]] = "PENDING",
                      Assigned(pending[k])' # {}, NEW i \in 1..(k - 1)
               PROVE  status'[pending'[i]] # "PENDING"
    BY DEF OnePartialJob
  <2>1. k \in 1..Len(pending)
    <3>1. ASSUME k = Len(pending) + 1 PROVE Assigned(pending[k])' = Assigned(h.job)
      BY <1>1, <1>3, <3>1 DEF Assigned
    <3> QED BY <1>2, <1>4, <3>1
  <2>2. pending'[k] = pending[k] /\ pending'[i] = pending[i]
    BY <1>3, <2>1
  <2>3. Assigned(pending[k])' = Assigned(pending[k])
    BY <1>1, <2>2 DEF Assigned
  <2> QED BY <1>1, <2>1, <2>2, <2>3 DEF QueueInv, OnePartialJob
<1>9. QueuedBorn'
  BY <1>1, <1>2, <1>5 DEF QueueInv, QueuedBorn
<1>10. AnnouncedOnce'
  <2> SUFFICES ASSUME NEW g \in tail, g # h, g.op = "enqueue"
               PROVE  /\ g.crew = {} /\ g.caller = None
                      /\ g.job \notin QueuedJobs'
                      /\ status'[g.job] # "unborn" /\ Assigned(g.job)' = {}
    BY <1>1 DEF AnnouncedOnce
  <2>1. /\ g.crew = {} /\ g.caller = None /\ g.job \notin QueuedJobs /\ g.job \in Jobs
        /\ status[g.job] # "unborn" /\ Assigned(g.job) = {}
        /\ h.crew = {} /\ h.caller = None
    BY <1>1 DEF QueueInv, AnnouncedOnce, MasterOK, Tails
  <2>2. g.job # h.job
    <3>1. g \in Tails
      BY DEF MasterOK
    <3> QED BY <1>1, <1>2, <2>1, <3>1, SameTail
  <2> QED BY <1>1, <1>5, <1>6, <2>1, <2>2
<1> QED BY <1>7, <1>8, <1>9, <1>10

LEMMA DequeueKeepsQueue ==
  ASSUME MasterOK, MasterOK', QueueInv, NEW h \in tail, Dequeue(h)
  PROVE  PendingServed' /\ OnePartialJob' /\ QueuedBorn' /\ AnnouncedOnce'
<1>1. /\ h.op = "dequeue" /\ pending' = Without(pending, h.job) /\ UNCHANGED <<status, slot>>
      /\ tail' = (tail \ {h}) \cup {[h EXCEPT !.op = "release"]}
  BY DEF Dequeue, jobVars
<1>2. /\ h \in Tails /\ h.job \in Jobs /\ Over(h.job)
      /\ [h EXCEPT !.op = "release"].op = "release"
  BY <1>1, TailOps DEF MasterOK, Tails, QueueInv, LeaversOver
<1>3. \A i \in Jobs : Assigned(i)' = Assigned(i)
  BY <1>1, SameAssigned
<1>4. \A g : g.op = "enqueue" => (g \in tail' <=> g \in tail)
  BY <1>1, <1>2
<1>5. CASE pending' = pending
  <2>1. Calm
    BY <1>1, <1>4, <1>5 DEF Calm
  <2> QED BY <2>1, CalmKeepsQueue
<1>6. ASSUME NEW p \in 1..Len(pending), pending[p] = h.job, Len(pending') = Len(pending) - 1,
             \A i \in 1..Len(pending') : pending'[i] = IF i < p THEN pending[i] ELSE pending[i + 1]
      PROVE  PendingServed' /\ OnePartialJob' /\ QueuedBorn' /\ AnnouncedOnce'
  <2> DEFINE old(i) == IF i < p THEN i ELSE i + 1
  <2>1. Len(pending) \in Nat /\ p \in Nat
    BY DEF MasterOK
  <2>2. \A i \in 1..Len(pending') :
          old(i) \in 1..Len(pending) /\ pending'[i] = pending[old(i)] /\ old(i) # p
    BY <1>6, <2>1
  <2>3. \A i, k \in 1..Len(pending') : (i < k => old(i) < old(k)) /\ (old(i) = old(k) => i = k)
    BY <1>6, <2>1
  <2>4. \A k \in 1..Len(pending) : k # p => \E i \in 1..Len(pending') : old(i) = k
    <3> SUFFICES ASSUME NEW k \in 1..Len(pending), k # p
                 PROVE  \E i \in 1..Len(pending') : old(i) = k
      OBVIOUS
    <3>1. CASE k < p
      <4>1. k \in 1..Len(pending') /\ old(k) = k
        BY <1>6, <2>1, <3>1
      <4> QED BY <4>1
    <3>2. CASE k > p
      <4>1. (k - 1) \in 1..Len(pending') /\ old(k - 1) = k
        BY <1>6, <2>1, <3>2
      <4> QED BY <4>1
    <3> QED BY <2>1, <3>1, <3>2
  <2> HIDE DEF old
  <2>5. QueuedJobs' \subseteq QueuedJobs /\ QueuedJobs \subseteq QueuedJobs' \cup {h.job}
    <3>1. ASSUME NEW i \in 1..Len(pending') PROVE pending'[i] \in QueuedJobs
      BY <2>2 DEF QueuedJobs
    <3>2. ASSUME NEW k \in 1..Len(pending), k # p PROVE pending[k] \in QueuedJobs'
      <4>1. PICK i \in 1..Len(pending') : old(i) = k
        BY <2>4, <3>2
      <4>2. pending'[i] = pending[k]
        BY <2>2, <4>1
      <4> QED BY <4>2 DEF QueuedJobs
    <3> QED BY <1>6, <3>1, <3>2 DEF QueuedJobs
  <2>6. PendingServed'
    <3>1. \A i, k \in 1..Len(pending') : pending'[i] = pending'[k] => i = k
      BY <2>2, <2>3 DEF QueueInv, PendingServed
    <3>2. status[h.job] # "PENDING"
      BY <1>2 DEF Over, TerminalStatus
    <3>3. \A j \in Jobs : status'[j] = "PENDING" =>
            j \in QueuedJobs' \/ \E g \in tail' : g.op = "enqueue" /\ g.job = j
      BY <1>1, <1>4, <2>5, <3>2 DEF QueueInv, PendingServed
    <3> QED BY <3>1, <3>3 DEF PendingServed
  <2>7. OnePartialJob'
    <3> SUFFICES ASSUME NEW k \in 1..Len(pending'), status'[pending'[k]] = "PENDING",
                        Assigned(pending[k])' # {}, NEW i \in 1..(k - 1)
                 PROVE  status'[pending'[i]] # "PENDING"
      BY DEF OnePartialJob
    <3>1. i \in 1..Len(pending') /\ i < k
      BY <1>6, <2>1
    <3>2. old(i) \in 1..(old(k) - 1)
      BY <2>1, <2>2, <2>3, <3>1
    <3>3. pending'[k] = pending[old(k)] /\ pending'[i] = pending[old(i)]
          /\ old(k) \in 1..Len(pending)
      BY <2>2, <3>1
    <3>4. Assigned(pending[k])' = Assigned(pending[old(k)])
      BY <1>1, <3>3 DEF Assigned
    <3> QED BY <1>1, <3>2, <3>3, <3>4 DEF QueueInv, OnePartialJob
  <2>8. QueuedBorn'
    BY <1>1, <2>5 DEF QueueInv, QueuedBorn
  <2>9. AnnouncedOnce'
    <3>1. \A g \in tail : g.job \in Jobs
      BY DEF MasterOK, Tails
    <3> QED BY <1>1, <1>3, <1>4, <2>5, <3>1 DEF QueueInv, AnnouncedOnce
  <2> QED BY <2>6, <2>7, <2>8, <2>9
<1>7. pending \in Seq(Jobs)
  BY DEF MasterOK
<1> QED BY <1>1, <1>2, <1>5, <1>6, <1>7, WithoutShape

(* What FetchJob does to the queue when it serves a job: nothing PENDING   *)
(* stands before that job, and all before it is popped, with the job       *)
(* itself if this fills it.                                                *)
LEMMA FetchPops ==
  ASSUME MasterOK, RecordInv, NEW w \in Workers, FetchAssign(w)
  PROVE  \E k \in 1..Len(pending), d \in 1..(Len(pending) + 1) :
           /\ Open(pending[k]) /\ TryAssign(pending[k], w)
           /\ \A n \in 1..(k - 1) : status[pending[n]] # "PENDING"
           /\ pending' = SubSeq(pending, d, Len(pending))
           /\ \/ d = k /\ status' = status
              \/ /\ d = k + 1
                 /\ status' = [j \in Jobs |-> IF j = pending[k] THEN "PREPARING" ELSE status[j]]
<1>1. PICK k \in 1..Len(pending) :
        LET i      == pending[k]
            ahead  == {pending[n] : n \in 1..(k - 1)}
            filled == Cardinality(Assigned(i) \cup {w}) >= Target[i]
            full   == {x \in ahead : status[x] = "PENDING"}
        IN  /\ Open(i)
            /\ \A x \in ahead : ~Open(x)
            /\ TryAssign(i, w)
            /\ EnterPreparing(IF filled THEN full \cup {i} ELSE full)
            /\ pending' = Drop(k, filled)
  BY Zenon DEF FetchAssign
<1>2. \A n \in 1..(k - 1) : pending[n] \in Jobs /\ status[pending[n]] # "PENDING"
  <2>1. \A n \in 1..(k - 1) : pending[n] \in Jobs
    BY DEF MasterOK
  <2>2. \A n \in 1..(k - 1) : ~Open(pending[n])
    BY <1>1
  <2> QED BY <2>1, <2>2, PendingIsOpen
<1> DEFINE filled == Cardinality(Assigned(pending[k]) \cup {w}) >= Target[pending[k]]
<1>3. {x \in {pending[n] : n \in 1..(k - 1)} : status[x] = "PENDING"} = {}
  BY <1>2
<1>4. EnterPreparing(IF filled THEN {pending[k]} ELSE {}) /\ pending' = Drop(k, filled)
  BY <1>1, <1>3
<1>5. Open(pending[k]) /\ TryAssign(pending[k], w)
  BY <1>1
<1> HIDE DEF filled
<1>6. CASE filled
  <2>1. /\ pending' = SubSeq(pending, k + 1, Len(pending)) /\ k + 1 \in 1..(Len(pending) + 1)
        /\ status' = [j \in Jobs |-> IF j = pending[k] THEN "PREPARING" ELSE status[j]]
    BY <1>4, <1>6 DEF Drop, EnterPreparing, MasterOK
  <2> QED BY <1>2, <1>5, <2>1
<1>7. CASE ~filled
  <2>1. /\ pending' = SubSeq(pending, k, Len(pending)) /\ k \in 1..(Len(pending) + 1)
        /\ status' = status
    BY <1>4, <1>7 DEF Drop, EnterPreparing, MasterOK
  <2> QED BY <1>2, <1>5, <2>1
<1> QED BY <1>6, <1>7

LEMMA FetchKeepsQueue ==
  ASSUME MasterOK, RecordInv, QueueInv, NEW w \in Workers, FetchAssign(w)
  PROVE  PendingServed' /\ OnePartialJob' /\ QueuedBorn' /\ AnnouncedOnce'
<1>1. PICK k \in 1..Len(pending), d \in 1..(Len(pending) + 1) :
        /\ Open(pending[k]) /\ TryAssign(pending[k], w)
        /\ \A n \in 1..(k - 1) : status[pending[n]] # "PENDING"
        /\ pending' = SubSeq(pending, d, Len(pending))
        /\ \/ d = k /\ status' = status
           \/ /\ d = k + 1
              /\ status' = [j \in Jobs |-> IF j = pending[k] THEN "PREPARING" ELSE status[j]]
  BY FetchPops
<1>2. Len(pending) \in Nat /\ \A n \in 1..Len(pending) : pending[n] \in Jobs
  BY DEF MasterOK
<1>3. tail' = tail
  BY DEF FetchAssign
<1>4. /\ Len(pending') = Len(pending) - d + 1
      /\ \A n \in 1..Len(pending') :
           d + n - 1 \in d..Len(pending) /\ pending'[n] = pending[d + n - 1]
  <2>1. \A n \in d..Len(pending) : pending[n] \in Jobs
    BY <1>2
  <2> QED BY <1>1, <1>2, <2>1, SubSeqProperties
<1>5. \A m \in d..Len(pending) : pending[m] \in QueuedJobs'
  <2> SUFFICES ASSUME NEW m \in d..Len(pending) PROVE pending[m] \in QueuedJobs'
    OBVIOUS
  <2>1. m - d + 1 \in 1..Len(pending') /\ d + (m - d + 1) - 1 = m
    BY <1>2, <1>4
  <2> QED BY <1>4, <2>1 DEF QueuedJobs
<1>6. QueuedJobs' \subseteq QueuedJobs
  <2>1. \A n \in 1..Len(pending') : d + n - 1 \in 1..Len(pending)
    BY <1>2, <1>4
  <2>2. \A n \in 1..Len(pending') : pending'[n] \in QueuedJobs
    BY <1>4, <2>1 DEF QueuedJobs
  <2> QED BY <2>2 DEF QueuedJobs
<1>7. \A j \in Jobs : /\ status'[j] = "PENDING" => status[j] = "PENDING" /\ (j = pending[k] => d = k)
                      /\ status[j] # "unborn" => status'[j] # "unborn"
  BY <1>1, <1>2
<1>8. \A j \in Jobs \ {pending[k]} : slot'[j] = slot[j]
  BY <1>1, <1>2 DEF TryAssign, MasterOK
<1>9. status[pending[k]] = "PENDING"
  BY <1>1 DEF Open
<1>10. PendingServed'
  <2>1. \A i, m \in 1..Len(pending') : pending'[i] = pending'[m] => i = m
    <3> SUFFICES ASSUME NEW i \in 1..Len(pending'), NEW m \in 1..Len(pending'),
                        pending'[i] = pending'[m]
                 PROVE  i = m
      OBVIOUS
    <3>1. /\ d + i - 1 \in 1..Len(pending) /\ d + m - 1 \in 1..Len(pending)
          /\ pending[d + i - 1] = pending[d + m - 1]
      BY <1>2, <1>4
    <3>2. d + i - 1 = d + m - 1
      BY <3>1 DEF QueueInv, PendingServed
    <3> QED BY <3>2
  <2>2. ASSUME NEW j \in Jobs, status'[j] = "PENDING"
        PROVE  j \in QueuedJobs' \/ Announced(j)
    <3>1. status[j] = "PENDING" /\ (j = pending[k] => d = k)
      BY <1>7, <2>2
    <3>2. CASE j \in QueuedJobs
      <4>1. PICK n \in 1..Len(pending) : j = pending[n]
        BY <3>2 DEF QueuedJobs
      <4>2. n >= k
        BY <1>1, <3>1, <4>1
      <4>3. n \in d..Len(pending)
        BY <1>1, <3>1, <4>1, <4>2
      <4> QED BY <1>5, <4>1, <4>3
    <3> QED BY <3>1, <3>2 DEF QueueInv, PendingServed, Announced
  <2> QED BY <1>3, <2>1, <2>2 DEF PendingServed, Announced
<1>11. OnePartialJob'
  <2> SUFFICES ASSUME NEW n \in 1..Len(pending'), status'[pending'[n]] = "PENDING",
                      Assigned(pending[n])' # {}, NEW i \in 1..(n - 1)
               PROVE  FALSE
    BY DEF OnePartialJob
  <2> DEFINE m == d + n - 1
  <2>1. /\ m \in 1..Len(pending) /\ pending'[n] = pending[m] /\ pending[m] \in Jobs
        /\ m > d /\ d >= k
    BY <1>1, <1>2, <1>4
  <2> HIDE DEF m
  <2>2. m # k /\ k \in 1..(m - 1) /\ pending[m] # pending[k]
    <3>1. m # k /\ k \in 1..(m - 1)
      BY <2>1
    <3> QED BY <2>1, <3>1 DEF QueueInv, PendingServed
  <2>3. slot'[pending[m]] = slot[pending[m]]
    BY <1>8, <2>1, <2>2
  <2>4. Assigned(pending[n])' = Assigned(pending[m])
    BY <2>1, <2>3 DEF Assigned
  <2>5. status[pending[m]] = "PENDING"
    BY <1>7, <2>1
  <2> QED BY <1>9, <2>1, <2>2, <2>4, <2>5 DEF QueueInv, OnePartialJob
<1>12. QueuedBorn'
  <2>1. QueuedJobs \subseteq Jobs
    BY <1>2 DEF QueuedJobs
  <2> QED BY <1>6, <1>7, <2>1 DEF QueueInv, QueuedBorn
<1>13. AnnouncedOnce'
  <2> SUFFICES ASSUME NEW h \in tail, h.op = "enqueue"
               PROVE  /\ h.crew = {} /\ h.caller = None
                      /\ h.job \notin QueuedJobs'
                      /\ status'[h.job] # "unborn" /\ Assigned(h.job)' = {}
    BY <1>3 DEF AnnouncedOnce
  <2>1. /\ h.job \in Jobs /\ h.job \notin QueuedJobs /\ status[h.job] # "unborn"
        /\ Assigned(h.job) = {} /\ h.crew = {} /\ h.caller = None
    BY DEF MasterOK, Tails, QueueInv, AnnouncedOnce
  <2>2. h.job # pending[k]
    BY <2>1 DEF QueuedJobs
  <2>3. Assigned(h.job)' = Assigned(h.job)
    BY <1>3, <1>8, <2>1, <2>2 DEF Assigned
  <2> QED BY <1>6, <1>7, <2>1, <2>3
<1> QED BY <1>10, <1>11, <1>12, <1>13

(* A FetchJob that finds nothing clears the queue, which by then holds no  *)
(* PENDING job.                                                            *)
LEMMA NothingKeepsQueue ==
  ASSUME MasterOK, RecordInv, QueueInv, NEW w \in Workers, FetchNothing(w)
  PROVE  PendingServed' /\ OnePartialJob' /\ QueuedBorn' /\ AnnouncedOnce'
<1>1. pending' = <<>> /\ UNCHANGED <<status, slot, tail>>
  BY FetchNone DEF FetchNothing
<1>2. QueuedJobs' = {} /\ Len(pending') = 0
  BY <1>1 DEF QueuedJobs
<1>3. \A j \in QueuedJobs : status[j] # "PENDING"
  <2>1. \A k \in 1..Len(pending) : pending[k] \in Jobs /\ ~Open(pending[k])
    BY DEF MasterOK, FetchNothing
  <2> QED BY <2>1, PendingIsOpen DEF QueuedJobs
<1>4. PendingServed'
  BY <1>1, <1>2, <1>3 DEF QueueInv, PendingServed
<1>5. OnePartialJob' /\ QueuedBorn'
  BY <1>2 DEF OnePartialJob, QueuedBorn
<1>6. AnnouncedOnce'
  <2>1. \A h \in tail : h.job \in Jobs
    BY DEF MasterOK, Tails
  <2>2. \A j \in Jobs : Assigned(j)' = Assigned(j)
    BY <1>1, SameAssigned
  <2> QED BY <1>1, <1>2, <2>1, <2>2 DEF QueueInv, AnnouncedOnce
<1> QED BY <1>4, <1>5, <1>6

(* Whatever is left to be taken out of the queue has been cancelled.       *)
LEMMA LeaversNext ==
  ASSUME MasterOK, DaemonOK, DoomedInv, LeaversOver, [Next]_vars
  PROVE  LeaversOver'
<1>1. tail \in SUBSET Tails /\ \A j \in Jobs : Over(j) => Over(j)'
  <2>1. \A j \in Jobs : Keeps(j)
    BY KeepsNext
  <2> QED BY <2>1 DEF Keeps, Over, MasterOK
<1>2. \A h \in tail : h.op = "dequeue" => h.job \in Jobs /\ Over(h.job)'
  BY <1>1 DEF LeaversOver, Tails
<1> SUFFICES ASSUME NEW g \in tail', g \notin tail, g.op = "dequeue" PROVE Over(g.job)'
  BY <1>2 DEF LeaversOver
<1>3. ASSUME NEW j \in Jobs, CliStep(j) PROVE Over(g.job)'
  BY <1>3 DEF CliStep, CreateJob, DeleteJob, Rest, Over, TerminalStatus, MasterOK
<1>4. ASSUME NEW h \in tail, TailStep(h) PROVE Over(g.job)'
  <2>1. h \in Tails
    BY <1>1
  <2>2. CASE Dequeue(h)
    BY <2>1, <2>2, TailOps DEF Dequeue
  <2>3. CASE LoseReply(h)
    <3>1. g = [h EXCEPT !.caller = None]
      BY <2>3 DEF LoseReply
    <3>2. g.op = h.op /\ g.job = h.job
      BY <2>1, <3>1, TailOps
    <3> QED BY <1>2, <3>2
  <2> QED BY <1>4, <2>2, <2>3 DEF TailStep, Enqueue, Release
<1>5. ASSUME NEW w \in Workers, Crash(w) PROVE Over(g.job)'
  <2>1. PICK h \in tail : g = [h EXCEPT !.caller = None]
    BY <1>5 DEF Crash
  <2> QED BY <1>1, <1>2, <2>1, TailOps
<1>6. ASSUME NEW w \in Workers, WorkerStep(w), ~Crash(w) PROVE Over(g.job)'
  BY <1>6, ReleaseOps
  DEF WorkerStep, FetchJob, FetchReplay, FetchAssign, FetchNothing, ReportReady, ReadyRefused,
      ReadyCounted, ReadyErrorFails, ReadyErrorIgnored, ProgressRefused, ReportResult,
      ResultCounted, ResultIgnored, LocalStep, PreflightDone, BarrierCancelled, RunEnds, GiveUp,
      Shutdown, tableVars
<1>7. ASSUME NEW J \in SUBSET Jobs, StalenessTick(J) PROVE Over(g.job)'
  BY <1>7, ReleaseOps DEF StalenessTick
<1>8. ASSUME NEW j \in Jobs, ReaderStep(j) PROVE Over(g.job)'
  BY <1>8, ReleaseOps DEF ReaderStep, ManifestFails, ManifestEnds, tableVars
<1>9. CASE GcRemove \/ (\E J \in SUBSET Jobs : GcSelect(J)) \/ UNCHANGED vars
  BY <1>9 DEF GcRemove, GcSelect, vars, tableVars
<1> QED
  BY <1>3, <1>4, <1>5, <1>6, <1>7, <1>8, <1>9 DEF Next

-----------------------------------------------------------------------------
(* The queue as a whole.                                                   *)

LEMMA InitQueue == Init => QueueInv
BY DEF Init, QueueInv, PendingServed, OnePartialJob, QueuedBorn, AnnouncedOnce, LeaversOver, QueuedJobs

LEMMA NextQueue == IInv /\ IInv' /\ QueueInv /\ [Next]_vars => QueueInv'
<1> SUFFICES ASSUME IInv, IInv', QueueInv, [Next]_vars
             PROVE  PendingServed' /\ OnePartialJob' /\ QueuedBorn' /\ AnnouncedOnce'
  BY LeaversNext, TypeSplit DEF IInv, QueueInv
<1>1. MasterOK /\ MasterOK' /\ DaemonOK /\ RecordInv
  BY TypeSplit DEF IInv, TypeOK, MasterOK
<1>2. AnnouncedOnce
  BY DEF QueueInv
<1>3. ASSUME NEW j \in Jobs, CliStep(j)
      PROVE  PendingServed' /\ OnePartialJob' /\ QueuedBorn' /\ AnnouncedOnce'
  BY <1>1, <1>3, CreateKeepsQueue, DeleteIsCalm, CalmKeepsQueue DEF CliStep
<1>4. ASSUME NEW h \in tail, TailStep(h)
      PROVE  PendingServed' /\ OnePartialJob' /\ QueuedBorn' /\ AnnouncedOnce'
  BY <1>1, <1>2, <1>4, EnqueueKeepsQueue, DequeueKeepsQueue, TailIsCalm, CalmKeepsQueue DEF TailStep
<1>5. ASSUME NEW w \in Workers, WorkerStep(w)
      PROVE  PendingServed' /\ OnePartialJob' /\ QueuedBorn' /\ AnnouncedOnce'
  BY <1>1, <1>2, <1>5, FetchKeepsQueue, NothingKeepsQueue, WorkerIsCalm, CalmKeepsQueue
<1>6. CASE \/ \E j \in Jobs : ReaderStep(j)
           \/ \E J \in SUBSET Jobs : StalenessTick(J) \/ GcSelect(J)
           \/ GcRemove
  BY <1>1, <1>6, BackgroundIsCalm, CalmKeepsQueue
<1>7. CASE UNCHANGED vars
  <2>1. Calm
    BY <1>7 DEF Calm, vars, jobVars, tableVars
  <2> QED BY <1>1, <2>1, CalmKeepsQueue
<1> QED BY <1>3, <1>4, <1>5, <1>6, <1>7 DEF Next

LEMMA QueueInvariance == Spec => []QueueInv
BY InitQueue, NextQueue, Invariance, PTL DEF Spec

(* No PENDING job is lost from the queue, and none is in it twice.         *)
THEOREM PendingIsServed == Spec => []PendingServed
<1>1. QueueInv => PendingServed
  BY DEF QueueInv
<1> QED BY <1>1, QueueInvariance, PTL

(* Only the first PENDING job of the queue can have some of its slots      *)
(* taken.                                                                  *)
THEOREM PartialIsFirst == Spec => []OnePartialJob
<1>1. QueueInv => OnePartialJob
  BY DEF QueueInv
<1> QED BY <1>1, QueueInvariance, PTL
=============================================================================
