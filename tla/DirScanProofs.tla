---------------------------- MODULE DirScanProofs ----------------------------
(***************************************************************************)
(* Proofs about DirScan, for any tree, any manifest, any number of         *)
(* scanners and a file queue of any size.                                  *)
(***************************************************************************)
EXTENDS DirScan, FiniteSetTheorems, FunctionTheorems, SequenceTheorems, TLAPS

(* A scanner has a directory exactly while it holds one.                   *)
HeldOK ==
  \A s \in Scanners : /\ s \in Holding => work[s] \in Works
                      /\ s \notin Holding => work[s] = NoDir

(* The reader says that it is done when it has come to the end.            *)
ReaderOK == readerDone => reader = "ended"

(* The queue of Notify is the set of those asleep, each of them once.      *)
SleepersOK ==
  /\ waiters \in Seq(Scanners)
  /\ \A i, k \in DOMAIN waiters : waiters[i] = waiters[k] => i = k
  /\ {waiters[i] : i \in DOMAIN waiters} = {s \in Scanners : stage[s] = "asleep"}

(* A scanner that will look at the queue once more.                        *)
Looks(s) == \/ stage[s] \notin {"armed", "asleep", "ended"}
            \/ stage[s] = "armed" /\ permit

(* A pass that has just begun.                                             *)
Fresh ==
  /\ dirs = <<>> /\ pendingDirs = 0 /\ readerDone = FALSE /\ closed = FALSE
  /\ permit = FALSE /\ waiters = <<>> /\ reader = "reading" /\ line = 0 /\ joined = 0
  /\ stage = [s \in Scanners |-> "looking"] /\ work = [s \in Scanners |-> NoDir]
  /\ scans = [d \in Dirs |-> 0] /\ queued \in 0..Capacity
  /\ cancel \in BOOLEAN /\ filesOpen \in BOOLEAN /\ failing \in BOOLEAN
  /\ main \in {"running", "ok", "failed", "aborted"}

ScanInv == TypeOK /\ PendingExact /\ HeldOK /\ ReaderOK /\ NobodyLeavesEarly /\ SomebodyLooks

-----------------------------------------------------------------------------
(* Notify.                                                                 *)

LEMMA Sleepers == TypeOK => SleepersOK
BY DEF TypeOK, SleepersOK

LEMMA SameSleepers ==
  ASSUME TypeOK, waiters' = waiters,
         \A v \in Scanners : stage'[v] = "asleep" <=> stage[v] = "asleep"
  PROVE  SleepersOK'
BY DEF TypeOK, SleepersOK

(* notify_one: somebody wakes, or a permit is kept and nobody is asleep.   *)
LEMMA OneWakes ==
  ASSUME TypeOK, NEW next \in [Scanners -> Stages],
         \A v \in Scanners : next[v] = "asleep" <=> stage[v] = "asleep",
         NotifyOne(next)
  PROVE  /\ stage' \in [Scanners -> Stages] /\ permit' \in BOOLEAN /\ SleepersOK'
         /\ \A v \in Scanners : \/ stage'[v] = next[v]
                                \/ next[v] = "asleep" /\ stage'[v] = "looking"
         /\ \/ \E v \in Scanners : stage'[v] = "looking"
            \/ permit' /\ \A v \in Scanners : stage'[v] # "asleep"
<1>1. SleepersOK
  BY Sleepers
<1>2. CASE waiters # <<>>
  <2> DEFINE h == Head(waiters)
  <2>1. /\ stage' = [next EXCEPT ![h] = "looking"] /\ waiters' = Tail(waiters)
        /\ permit' = permit
    BY <1>2 DEF NotifyOne
  <2>2. /\ Len(waiters) \in Nat /\ Len(waiters) > 0 /\ DOMAIN waiters = 1..Len(waiters)
        /\ h = waiters[1] /\ h \in Scanners
        /\ Tail(waiters) \in Seq(Scanners) /\ Len(Tail(waiters)) = Len(waiters) - 1
        /\ \A i \in 1..(Len(waiters) - 1) : Tail(waiters)[i] = waiters[i + 1]
    BY <1>1, <1>2, HeadTailProperties, EmptySeq DEF SleepersOK
  <2>3. next[h] = "asleep" /\ stage[h] = "asleep"
    BY <1>1, <2>2 DEF SleepersOK
  <2>4. /\ stage' \in [Scanners -> Stages] /\ stage'[h] = "looking"
        /\ \A v \in Scanners : v # h => stage'[v] = next[v]
    BY <2>1, <2>2 DEF Stages
  <2>5. DOMAIN waiters' = 1..(Len(waiters) - 1)
    BY <2>1, <2>2
  <2>6. \A i, k \in DOMAIN waiters' : waiters'[i] = waiters'[k] => i = k
    BY <1>1, <2>1, <2>2, <2>5 DEF SleepersOK
  <2>7. {waiters'[i] : i \in DOMAIN waiters'} = {s \in Scanners : stage'[s] = "asleep"}
    <3>1. ASSUME NEW i \in DOMAIN waiters'
          PROVE  waiters'[i] \in Scanners /\ stage'[waiters'[i]] = "asleep"
      <4>1. i + 1 \in DOMAIN waiters /\ waiters'[i] = waiters[i + 1] /\ i + 1 # 1
            /\ 1 \in DOMAIN waiters
        BY <2>1, <2>2, <2>5
      <4>2. waiters[i + 1] # h
        BY <1>1, <2>2, <4>1 DEF SleepersOK
      <4>3. waiters[i + 1] \in Scanners /\ stage[waiters[i + 1]] = "asleep"
        BY <1>1, <4>1 DEF SleepersOK
      <4> QED BY <2>4, <4>1, <4>2, <4>3
    <3>2. ASSUME NEW s \in Scanners, stage'[s] = "asleep"
          PROVE  \E i \in DOMAIN waiters' : waiters'[i] = s
      <4>1. s # h /\ stage[s] = "asleep"
        BY <2>4, <3>2
      <4>2. PICK k \in DOMAIN waiters : waiters[k] = s
        BY <1>1, <4>1 DEF SleepersOK
      <4>3. k # 1 /\ k \in 1..Len(waiters)
        BY <2>2, <4>1, <4>2
      <4>4. k - 1 \in DOMAIN waiters' /\ waiters'[k - 1] = waiters[k]
        BY <2>1, <2>2, <2>5, <4>3
      <4> QED BY <4>2, <4>4
    <3> QED BY <3>1, <3>2
  <2>8. permit' \in BOOLEAN
    BY <2>1 DEF TypeOK
  <2>9. SleepersOK'
    BY <2>1, <2>2, <2>6, <2>7 DEF SleepersOK
  <2> QED BY <2>2, <2>3, <2>4, <2>8, <2>9
<1>3. CASE waiters = <<>>
  <2>1. stage' = next /\ permit' = TRUE /\ waiters' = waiters
    BY <1>3 DEF NotifyOne
  <2>2. \A v \in Scanners : stage[v] # "asleep"
    BY <1>1, <1>3 DEF SleepersOK
  <2>3. SleepersOK'
    BY <2>1, SameSleepers
  <2> QED BY <2>1, <2>2, <2>3
<1> QED BY <1>2, <1>3

(* notify_waiters: nobody sleeps, and nobody is about to.                  *)
LEMMA AllWake ==
  ASSUME TypeOK, NEW next \in [Scanners -> Stages], NotifyWaiters(next)
  PROVE  /\ stage' \in [Scanners -> Stages] /\ permit' = permit /\ SleepersOK'
         /\ \A v \in Scanners : \/ stage'[v] = next[v] /\ next[v] \notin {"armed", "asleep"}
                                \/ next[v] \in {"armed", "asleep"} /\ stage'[v] = "looking"
<1>1. /\ stage' = [s \in Scanners |-> IF next[s] \in {"armed", "asleep"}
                                      THEN "looking" ELSE next[s]]
      /\ waiters' = <<>> /\ permit' = permit
  BY DEF NotifyWaiters
<1>2. /\ stage' \in [Scanners -> Stages]
      /\ \A v \in Scanners : stage'[v] # "asleep"
  BY <1>1 DEF Stages
<1>3. SleepersOK'
  <2>1. <<>> \in Seq(Scanners) /\ DOMAIN <<>> = {}
    OBVIOUS
  <2> QED BY <1>1, <1>2, <2>1 DEF SleepersOK
<1> QED BY <1>1, <1>2, <1>3

-----------------------------------------------------------------------------
(* The count, and who looks.                                               *)

LEMMA HoldingFinite ==
  /\ Holding \subseteq Scanners /\ IsFiniteSet(Scanners)
  /\ IsFiniteSet(Holding) /\ Cardinality(Holding) \in Nat
<1>1. IsFiniteSet(Scanners)
  BY ScanAssumption, FS_Interval DEF Scanners
<1>2. Holding \subseteq Scanners
  BY DEF Holding
<1> QED BY <1>1, <1>2, FS_Subset, FS_CardinalityType

(* Steps that neither queue, take nor finish a directory: a scanner that   *)
(* ends does so for a flag, or because the pass is exhausted, and one that *)
(* would have looked still does, unless there is nothing to look for.      *)
LEMMA CalmKeeps ==
  ASSUME ScanInv, dirs' = dirs, pendingDirs' = pendingDirs, Holding' = Holding,
         TypeOK', cancel => cancel', closed => closed', readerDone => readerDone',
         \A v \in Scanners : stage'[v] = "ended" =>
           stage[v] = "ended" \/ cancel' \/ closed' \/ (readerDone' /\ pendingDirs = 0),
         \A v \in Scanners : stage[v] = "failed" => stage'[v] = "failed",
         dirs # <<>> /\ ~cancel' /\ ~closed' =>
           \A v \in Scanners : Looks(v) => \E u \in Scanners : Looks(u)'
  PROVE  PendingExact' /\ NobodyLeavesEarly' /\ SomebodyLooks'
<1>1. PendingExact'
  BY DEF ScanInv, PendingExact
<1>2. NobodyLeavesEarly'
  <2> SUFFICES ASSUME ~cancel', ~closed', NEW s \in Scanners, stage'[s] = "ended"
               PROVE  readerDone' /\ dirs' = <<>> /\ Holding' = {}
    BY DEF NobodyLeavesEarly
  <2>1. CASE stage[s] = "ended"
    BY <2>1 DEF ScanInv, NobodyLeavesEarly
  <2>2. CASE readerDone' /\ pendingDirs = 0
    <3>1. Len(dirs) + Cardinality(Holding) = 0 /\ Len(dirs) \in Nat
      BY <2>2 DEF ScanInv, PendingExact, TypeOK
    <3>2. Len(dirs) = 0 /\ Cardinality(Holding) = 0
      BY <3>1, HoldingFinite
    <3>3. dirs = <<>> /\ Holding = {}
      BY <3>2, EmptySeq, HoldingFinite, FS_EmptySet DEF ScanInv, TypeOK
    <3> QED BY <2>2, <3>3
  <2> QED BY <2>1, <2>2
<1>3. SomebodyLooks'
  <2> SUFFICES ASSUME dirs' # <<>>, ~cancel', ~closed',
                      \A s \in Scanners : stage'[s] # "failed"
               PROVE  \E s \in Scanners : Looks(s)'
    BY DEF SomebodyLooks, Looks
  <2>1. \E s \in Scanners : Looks(s)
    BY DEF ScanInv, SomebodyLooks, Looks
  <2> QED BY <2>1
<1> QED BY <1>1, <1>2, <1>3

LEMMA GoesTo ==
  ASSUME TypeOK, NEW s \in Scanners, NEW where \in Stages, GoTo(s, where)
  PROVE  /\ stage' \in [Scanners -> Stages] /\ stage'[s] = where
         /\ \A v \in Scanners : v # s => stage'[v] = stage[v]
BY DEF GoTo, TypeOK

-----------------------------------------------------------------------------
(* The reader, the task that joins, and the others.                        *)

(* Steps that touch neither the queue nor the scanners.                    *)
LEMMA ApartKeeps ==
  ASSUME ScanInv, UNCHANGED <<queueVars, notifyVars, scannerVars>>,
         TypeOK', cancel => cancel', reader' = reader \/ ~readerDone
  PROVE  ScanInv'
<1>1. /\ dirs' = dirs /\ pendingDirs' = pendingDirs /\ closed' = closed
      /\ readerDone' = readerDone /\ stage' = stage /\ work' = work /\ permit' = permit
  BY DEF queueVars, notifyVars, scannerVars
<1>2. Holding' = Holding
  BY <1>1 DEF Holding
<1>3. PendingExact' /\ NobodyLeavesEarly' /\ SomebodyLooks'
  BY <1>1, <1>2, CalmKeeps DEF Looks
<1>4. HeldOK' /\ ReaderOK'
  BY <1>1, <1>2 DEF ScanInv, HeldOK, ReaderOK
<1> QED BY <1>3, <1>4 DEF ScanInv

(* Steps that wake everybody and leave the directories alone.              *)
LEMMA WakingKeeps ==
  ASSUME ScanInv, NotifyWaiters(stage), dirs' = dirs, pendingDirs' = pendingDirs,
         work' = work, reader' \in {"reading", "ended", "failed"}, joined' \in 0..N + 1,
         main' \in {"running", "ok", "failed", "aborted"}, line' = line,
         readerDone' \in BOOLEAN, closed' \in BOOLEAN, cancel' \in BOOLEAN,
         failing' \in BOOLEAN, readerDone => readerDone',
         cancel => cancel', closed => closed',
         readerDone' => reader' = "ended",
         UNCHANGED <<fileVars, scans>>
  PROVE  ScanInv'
<1>1. TypeOK /\ stage \in [Scanners -> Stages]
  BY DEF ScanInv, TypeOK
<1>2. /\ stage' \in [Scanners -> Stages] /\ permit' = permit /\ SleepersOK'
      /\ \A v \in Scanners : \/ stage'[v] = stage[v] /\ stage[v] \notin {"armed", "asleep"}
                             \/ stage[v] \in {"armed", "asleep"} /\ stage'[v] = "looking"
  BY <1>1, AllWake
<1>3. TypeOK'
  BY <1>1, <1>2 DEF TypeOK, SleepersOK, fileVars
<1>4. Holding' = Holding
  BY <1>2 DEF Holding
<1>5. /\ \A v \in Scanners : stage'[v] = "ended" => stage[v] = "ended"
      /\ \A v \in Scanners : stage[v] = "failed" => stage'[v] = "failed"
      /\ \A v \in Scanners : Looks(v) => Looks(v)'
  BY <1>2 DEF Looks
<1>6. PendingExact' /\ NobodyLeavesEarly' /\ SomebodyLooks'
  BY <1>3, <1>4, <1>5, CalmKeeps
<1>7. HeldOK' /\ ReaderOK'
  BY <1>4 DEF ScanInv, HeldOK, ReaderOK
<1> QED BY <1>3, <1>6, <1>7 DEF ScanInv

LEMMA MainKeeps ==
  ASSUME ScanInv, JoinReader \/ JoinScanner \/ PassEnds
  PROVE  ScanInv'
<1>1. TypeOK /\ N \in Nat /\ N > 0 /\ (readerDone => reader = "ended")
  BY ScanAssumption DEF ScanInv, ReaderOK
<1>2. CASE JoinReader
  <2>1. CASE reader = "failed"
    <3>1. /\ Close(stage) /\ failing' = TRUE /\ joined' = 1
          /\ UNCHANGED <<work, main, fileVars, readerVars, cancel, scans>>
      BY <1>2, <2>1 DEF JoinReader, ReaderError
    <3> QED BY <1>1, <3>1, WakingKeeps DEF Close, readerVars, TypeOK
  <2>2. CASE reader # "failed"
    <3>1. /\ UNCHANGED <<queueVars, notifyVars, scannerVars, reader, cancel>>
          /\ failing' \in BOOLEAN /\ joined' = 1
          /\ UNCHANGED <<main, fileVars, line, scans>>
      BY <1>2, <2>2 DEF JoinReader, ReaderError, readerVars, scannerVars
    <3>2. TypeOK'
      BY <1>1, <3>1 DEF TypeOK, queueVars, notifyVars, scannerVars, fileVars
    <3> QED BY <3>1, <3>2, ApartKeeps
  <2> QED BY <2>1, <2>2
<1>3. CASE JoinScanner
  <2>1. joined \in Scanners /\ joined' = joined + 1 /\ joined' \in 0..N + 1
    BY <1>1, <1>3 DEF JoinScanner, Scanners
  <2>2. CASE stage[joined] = "failed"
    <3>1. /\ Close(stage) /\ cancel' = TRUE
          /\ failing' = (failing \/ stage[joined] = "failed")
          /\ UNCHANGED <<work, main, fileVars, readerVars, scans>>
      BY <1>3, <2>2 DEF JoinScanner
    <3> QED BY <1>1, <2>1, <3>1, WakingKeeps DEF Close, readerVars, TypeOK
  <2>3. CASE stage[joined] # "failed"
    <3>1. /\ UNCHANGED <<queueVars, notifyVars, scannerVars, reader, cancel>>
          /\ failing' = (failing \/ stage[joined] = "failed")
          /\ UNCHANGED <<main, fileVars, line, scans>>
      BY <1>3, <2>3 DEF JoinScanner, readerVars, scannerVars
    <3>2. TypeOK'
      BY <1>1, <2>1, <3>1 DEF TypeOK, queueVars, notifyVars, scannerVars, fileVars
    <3> QED BY <3>1, <3>2, ApartKeeps
  <2> QED BY <2>2, <2>3
<1>4. CASE PassEnds
  <2>1. /\ UNCHANGED <<joined, failing, queueVars, notifyVars, fileVars, readerVars,
                       scannerVars, cancel, scans>>
        /\ main' \in {"ok", "failed"}
    BY <1>4 DEF PassEnds
  <2>2. TypeOK'
    BY <1>1, <2>1 DEF TypeOK, queueVars, notifyVars, scannerVars, fileVars, readerVars
  <2> QED BY <2>1, <2>2, ApartKeeps DEF readerVars
<1> QED BY <1>2, <1>3, <1>4

LEMMA OutsideKeeps ==
  ASSUME ScanInv, Abort \/ Drain
  PROVE  ScanInv'
<1>1. TypeOK
  BY DEF ScanInv
<1>2. /\ UNCHANGED <<queueVars, notifyVars, scannerVars, readerVars>>
      /\ cancel => cancel'
  BY DEF Abort, Drain
<1>3. TypeOK'
  <2>1. CASE Abort
    <3>1. /\ main' = "aborted" \/ main' = main
          /\ cancel' \in BOOLEAN /\ filesOpen' \in BOOLEAN
          /\ UNCHANGED <<queued, joined, failing, queueVars, notifyVars, readerVars,
                         scannerVars, scans>>
      BY <2>1 DEF Abort
    <3> QED BY <1>1, <3>1 DEF TypeOK, queueVars, notifyVars, scannerVars, readerVars
  <2>2. CASE Drain
    <3>1. queued' \in 0..Capacity
      BY <1>1, <2>2, ScanAssumption DEF Drain, TypeOK
    <3> QED BY <1>1, <2>2, <3>1
            DEF Drain, TypeOK, queueVars, notifyVars, scannerVars, readerVars, mainVars
  <2> QED BY <2>1, <2>2
<1> QED BY <1>2, <1>3, ApartKeeps DEF readerVars

LEMMA ReaderStopsKeeps ==
  ASSUME ScanInv, ReaderCancelled \/ ReaderEnds \/ ReaderFails
  PROVE  ScanInv'
<1>1. TypeOK /\ reader = "reading" /\ ~readerDone /\ N \in Nat
  BY ScanAssumption
     DEF ScanInv, ReaderOK, ReaderCancelled, ReaderEnds, ReaderFails
<1>2. CASE ReaderCancelled
  <2>1. /\ Close(stage) /\ reader' = "ended"
        /\ UNCHANGED <<line, work, fileVars, mainVars, cancel, scans>>
    BY <1>2 DEF ReaderCancelled
  <2> QED BY <1>1, <2>1, WakingKeeps DEF Close, mainVars, TypeOK
<1>3. CASE ReaderEnds
  <2>1. /\ reader' = "ended" /\ readerDone' = TRUE
        /\ UNCHANGED <<dirs, pendingDirs, closed, line, work, fileVars, mainVars, cancel, scans>>
    BY <1>3 DEF ReaderEnds
  <2>2. CASE NotifyWaiters(stage)
    BY <1>1, <2>1, <2>2, WakingKeeps DEF mainVars, TypeOK
  <2>3. CASE UNCHANGED <<stage, notifyVars>>
    <3>1. TypeOK'
      BY <1>1, <2>1, <2>3 DEF TypeOK, notifyVars, fileVars, mainVars
    <3>2. Holding' = Holding
      BY <2>3 DEF Holding
    <3>3. PendingExact' /\ NobodyLeavesEarly' /\ SomebodyLooks'
      BY <2>1, <2>3, <3>1, <3>2, CalmKeeps DEF Looks, notifyVars
    <3>4. HeldOK' /\ ReaderOK'
      BY <2>1, <3>2 DEF ScanInv, HeldOK, ReaderOK
    <3> QED BY <3>1, <3>3, <3>4 DEF ScanInv
  <2> QED BY <1>3, <2>2, <2>3 DEF ReaderEnds
<1>4. CASE ReaderFails
  <2>1. /\ reader' = "failed"
        /\ UNCHANGED <<line, queueVars, notifyVars, fileVars, scannerVars, mainVars,
                       cancel, scans>>
    BY <1>4 DEF ReaderFails
  <2>2. TypeOK'
    BY <1>1, <2>1 DEF TypeOK, queueVars, notifyVars, scannerVars, fileVars, mainVars
  <2> QED BY <1>1, <2>1, <2>2, ApartKeeps
<1> QED BY <1>2, <1>3, <1>4

-----------------------------------------------------------------------------
(* The scanners.                                                           *)

(* Steps that move one scanner, hold or drop nothing, and notify nobody.   *)
LEMMA MoveKeeps ==
  ASSUME ScanInv, NEW s \in Scanners, NEW where \in Stages \ {"asleep", "failed"},
         GoTo(s, where), stage[s] \notin {"asleep", "failed"},
         where \in {"checking", "entry", "finishing"} <=> s \in Holding,
         where = "ended" => cancel \/ closed \/ (readerDone /\ pendingDirs = 0),
         where \in {"armed", "ended"} => cancel \/ closed \/ dirs = <<>>,
         work' \in [Scanners -> Works \cup {NoDir}],
         \A v \in Scanners : v # s => work'[v] = work[v],
         s \in Holding => work'[s] \in Works,
         s \notin Holding => work'[s] = NoDir,
         queued' \in 0..Capacity,
         UNCHANGED <<queueVars, waiters, filesOpen, readerVars, mainVars, cancel, scans>>,
         permit' \in BOOLEAN, permit' = permit \/ where = "looking"
  PROVE  ScanInv'
<1>1. TypeOK /\ s \in Scanners
  BY DEF ScanInv
<1>2. /\ stage' \in [Scanners -> Stages] /\ stage'[s] = where
      /\ \A v \in Scanners : v # s => stage'[v] = stage[v]
  BY <1>1, GoesTo
<1>3. /\ dirs' = dirs /\ pendingDirs' = pendingDirs /\ closed' = closed
      /\ readerDone' = readerDone /\ waiters' = waiters /\ cancel' = cancel
      /\ reader' = reader
  BY DEF queueVars, readerVars
<1>4. SleepersOK'
  BY <1>1, <1>2, <1>3, SameSleepers
<1>5. TypeOK'
  BY <1>1, <1>2, <1>3, <1>4 DEF TypeOK, SleepersOK, queueVars, readerVars, mainVars
<1>6. Holding' = Holding
  BY <1>2 DEF Holding
<1>7. ASSUME dirs # <<>>, ~cancel, ~closed, NEW v \in Scanners, Looks(v)
      PROVE  \E u \in Scanners : Looks(u)'
  <2>1. CASE v = s
    BY <1>2, <1>7, <2>1 DEF Looks
  <2>2. CASE v # s
    <3>1. Looks(v)' \/ where = "looking"
      BY <1>2, <1>7, <2>2 DEF Looks
    <3> QED BY <1>2, <3>1 DEF Looks
  <2> QED BY <2>1, <2>2
<1>8. PendingExact' /\ NobodyLeavesEarly' /\ SomebodyLooks'
  BY <1>2, <1>3, <1>5, <1>6, <1>7, CalmKeeps
<1>9. HeldOK' /\ ReaderOK'
  BY <1>3, <1>6 DEF ScanInv, HeldOK, ReaderOK
<1> QED BY <1>5, <1>8, <1>9 DEF ScanInv

LEMMA LookKeeps ==
  ASSUME ScanInv, NEW s \in Scanners, Look(s) \/ NextEntry(s)
  PROVE  ScanInv'
<1>1. TypeOK /\ HeldOK
  BY DEF ScanInv
<1>2. /\ UNCHANGED <<queueVars, waiters, permit, fileVars, readerVars, mainVars, cancel, scans>>
      /\ work' = work
  BY DEF Look, NextEntry, notifyVars
<1>3. CASE Look(s)
  <2>1. PICK where \in {"ended", "locking"} :
          stage[s] = "looking" /\ GoTo(s, where) /\ (where = "ended" => cancel)
    BY <1>3 DEF Look
  <2>2. s \notin Holding
    BY <2>1 DEF Holding
  <2> QED BY <1>1, <1>2, <2>1, <2>2, MoveKeeps DEF Stages, TypeOK, HeldOK, fileVars
<1>4. CASE NextEntry(s)
  <2>1. PICK where \in {"finishing", "entry"} : stage[s] = "checking" /\ GoTo(s, where)
    BY <1>4 DEF NextEntry
  <2>2. s \in Holding
    BY <2>1 DEF Holding
  <2> QED BY <1>1, <1>2, <2>1, <2>2, MoveKeeps DEF Stages, TypeOK, HeldOK, fileVars
<1> QED BY <1>3, <1>4

LEMMA EntryKeeps ==
  ASSUME ScanInv, NEW s \in Scanners, FoundFile(s) \/ ScanFails(s)
  PROVE  ScanInv'
<1>1. TypeOK /\ HeldOK
  BY DEF ScanInv
<1>2. /\ UNCHANGED <<queueVars, waiters, permit, filesOpen, readerVars, mainVars, cancel, scans>>
      /\ stage[s] = "entry"
  BY DEF FoundFile, ScanFails, notifyVars, fileVars
<1>3. s \in Holding /\ work[s] \in Works
  BY <1>1, <1>2 DEF Holding, HeldOK
<1>4. CASE FoundFile(s)
  <2>1. work' = [work EXCEPT ![s].files = @ - 1] /\ work[s].files > 0
    BY <1>4 DEF FoundFile
  <2>2. [work[s] EXCEPT !.files = @ - 1] \in Works
    BY <1>3, <2>1 DEF Works
  <2>3. /\ work' \in [Scanners -> Works \cup {NoDir}] /\ work'[s] \in Works
        /\ \A v \in Scanners : v # s => work'[v] = work[v]
    BY <1>1, <2>1, <2>2 DEF TypeOK
  <2>4. queued' \in 0..Capacity
    BY <1>1, <1>4, ScanAssumption DEF FoundFile, HasRoom, TypeOK
  <2> QED BY <1>1, <1>2, <1>3, <1>4, <2>3, <2>4, MoveKeeps DEF FoundFile, Stages, TypeOK
<1>5. CASE ScanFails(s)
  <2>1. work' = [work EXCEPT ![s].ok = FALSE]
    BY <1>5 DEF ScanFails
  <2>2. [work[s] EXCEPT !.ok = FALSE] \in Works
    BY <1>3 DEF Works
  <2>3. /\ work' \in [Scanners -> Works \cup {NoDir}] /\ work'[s] \in Works
        /\ \A v \in Scanners : v # s => work'[v] = work[v]
    BY <1>1, <2>1, <2>2 DEF TypeOK
  <2> QED BY <1>1, <1>2, <1>3, <1>5, <2>3, MoveKeeps
          DEF ScanFails, Stages, TypeOK, fileVars
<1> QED BY <1>4, <1>5

LEMMA LeaveOrWaitKeeps ==
  ASSUME ScanInv, NEW s \in Scanners, Pop(s), LeaveOrWait(s)
  PROVE  ScanInv'
<1>1. TypeOK /\ HeldOK
  BY DEF ScanInv
<1>2. PICK where \in {"ended", "armed"} :
        /\ stage[s] = "locking" /\ GoTo(s, where) /\ (closed \/ dirs = <<>>)
        /\ where = "ended" => closed \/ (readerDone /\ pendingDirs = 0)
  BY DEF Pop, LeaveOrWait, Exhausted
<1>3. /\ UNCHANGED <<queueVars, waiters, permit, fileVars, readerVars, mainVars, cancel, scans>>
      /\ work' = work
  BY DEF Pop, LeaveOrWait, queueVars, notifyVars
<1>4. s \notin Holding
  BY <1>2 DEF Holding
<1> QED BY <1>1, <1>2, <1>3, <1>4, MoveKeeps DEF Stages, TypeOK, HeldOK, fileVars

(* The directory taken from the queue is held from then on.                *)
LEMMA TakeKeeps ==
  ASSUME ScanInv, NEW s \in Scanners, Pop(s), Take(s)
  PROVE  ScanInv'
<1>1. TypeOK /\ HeldOK /\ PendingExact /\ NobodyLeavesEarly
  BY DEF ScanInv
<1> DEFINE d == Head(dirs)
<1>2. /\ stage[s] = "locking" /\ ~closed /\ dirs # <<>> /\ GoTo(s, "checking")
      /\ work' = [work EXCEPT ![s] = [dir |-> d, subdirs |-> Children[d],
                                      files |-> Files[d], ok |-> TRUE]]
      /\ dirs' = Tail(dirs)
      /\ UNCHANGED <<readerDone, pendingDirs, closed, notifyVars, fileVars, readerVars,
                     mainVars, cancel, scans>>
  BY DEF Pop, Take
<1>3. /\ d \in Dirs /\ dirs' \in Seq(Dirs) /\ Len(dirs') = Len(dirs) - 1
      /\ Len(dirs) \in Nat /\ Len(dirs) > 0
  BY <1>1, <1>2, HeadTailProperties, EmptySeq DEF TypeOK
<1>4. [dir |-> d, subdirs |-> Children[d], files |-> Files[d], ok |-> TRUE] \in Works
  BY <1>3, ScanAssumption DEF Works
<1>5. /\ stage' \in [Scanners -> Stages] /\ stage'[s] = "checking"
      /\ \A v \in Scanners : v # s => stage'[v] = stage[v]
  BY <1>1, <1>2, GoesTo DEF Stages
<1>6. SleepersOK'
  BY <1>1, <1>2, <1>5, SameSleepers DEF notifyVars
<1>7. /\ work' \in [Scanners -> Works \cup {NoDir}] /\ work'[s] \in Works
      /\ \A v \in Scanners : v # s => work'[v] = work[v]
  BY <1>1, <1>2, <1>4 DEF TypeOK
<1>8. TypeOK'
  BY <1>1, <1>2, <1>3, <1>5, <1>6, <1>7
     DEF TypeOK, SleepersOK, notifyVars, fileVars, readerVars, mainVars
<1>9. Holding' = Holding \cup {s} /\ s \notin Holding
  BY <1>2, <1>5 DEF Holding
<1>10. PendingExact'
  <2>1. Cardinality(Holding') = Cardinality(Holding) + 1
    BY <1>9, HoldingFinite, FS_AddElement
  <2> QED BY <1>1, <1>2, <1>3, <2>1, HoldingFinite DEF PendingExact
<1>11. NobodyLeavesEarly'
  BY <1>1, <1>2, <1>5 DEF NobodyLeavesEarly
<1>12. SomebodyLooks'
  BY <1>5 DEF SomebodyLooks
<1>13. HeldOK' /\ ReaderOK'
  BY <1>2, <1>7, <1>9 DEF ScanInv, HeldOK, ReaderOK, readerVars
<1> QED BY <1>8, <1>10, <1>11, <1>12, <1>13 DEF ScanInv

(* A permit sends the scanner back to look; without one it goes to sleep.  *)
LEMMA PollKeeps ==
  ASSUME ScanInv, NEW s \in Scanners, Poll(s)
  PROVE  ScanInv'
<1>1. TypeOK /\ HeldOK /\ SleepersOK
  BY Sleepers DEF ScanInv
<1>2. /\ stage[s] = "armed" /\ work' = work
      /\ UNCHANGED <<queueVars, fileVars, readerVars, mainVars, cancel, scans>>
  BY DEF Poll
<1>3. s \notin Holding
  BY <1>2 DEF Holding
<1>4. CASE permit
  <2>1. GoTo(s, "looking") /\ permit' = FALSE /\ waiters' = waiters
    BY <1>4 DEF Poll
  <2>2. permit' \in BOOLEAN
    BY <2>1
  <2> QED BY <1>1, <1>2, <1>3, <2>1, <2>2, MoveKeeps DEF Stages, TypeOK, HeldOK, fileVars
<1>5. CASE ~permit
  <2>1. GoTo(s, "asleep") /\ waiters' = Append(waiters, s) /\ permit' = permit
    BY <1>5 DEF Poll
  <2>2. /\ stage' \in [Scanners -> Stages] /\ stage'[s] = "asleep"
        /\ \A v \in Scanners : v # s => stage'[v] = stage[v]
    BY <1>1, <2>1, GoesTo DEF Stages
  <2>3. SleepersOK'
    <3>1. /\ waiters' \in Seq(Scanners) /\ Len(waiters) \in Nat
          /\ DOMAIN waiters = 1..Len(waiters) /\ DOMAIN waiters' = 1..(Len(waiters) + 1)
          /\ \A i \in 1..Len(waiters) : waiters'[i] = waiters[i]
          /\ waiters'[Len(waiters) + 1] = s
      BY <1>1, <2>1, AppendProperties DEF SleepersOK
    <3>2. \A i \in DOMAIN waiters' : i \in DOMAIN waiters \/ i = Len(waiters) + 1
      BY <3>1
    <3>3. \A i \in DOMAIN waiters : waiters[i] # s
      BY <1>1, <1>2 DEF SleepersOK
    <3>4. \A i, k \in DOMAIN waiters' : waiters'[i] = waiters'[k] => i = k
      BY <1>1, <3>1, <3>2, <3>3 DEF SleepersOK
    <3>5. \A i \in DOMAIN waiters' : waiters'[i] \in Scanners /\ stage'[waiters'[i]] = "asleep"
      BY <1>1, <2>2, <3>1, <3>2, <3>3 DEF SleepersOK
    <3>6. ASSUME NEW v \in Scanners, stage'[v] = "asleep"
          PROVE  \E i \in DOMAIN waiters' : waiters'[i] = v
      <4>1. CASE v = s
        <5>1. Len(waiters) + 1 \in DOMAIN waiters'
          BY <3>1
        <5> QED BY <3>1, <4>1, <5>1
      <4>2. CASE v # s
        <5>1. PICK i \in DOMAIN waiters : waiters[i] = v
          BY <1>1, <2>2, <3>6, <4>2 DEF SleepersOK
        <5> QED BY <3>1, <5>1
      <4> QED BY <4>1, <4>2
    <3> QED BY <3>1, <3>4, <3>5, <3>6 DEF SleepersOK
  <2>4. TypeOK'
    BY <1>1, <1>2, <2>1, <2>2, <2>3
       DEF TypeOK, SleepersOK, queueVars, fileVars, readerVars, mainVars
  <2>5. Holding' = Holding
    BY <1>2, <2>2 DEF Holding
  <2>6. \A v \in Scanners : Looks(v) => Looks(v)'
    BY <1>2, <1>5, <2>1, <2>2 DEF Looks
  <2>7. PendingExact' /\ NobodyLeavesEarly' /\ SomebodyLooks'
    BY <1>2, <2>2, <2>4, <2>5, <2>6, CalmKeeps DEF queueVars
  <2>8. HeldOK' /\ ReaderOK'
    BY <1>2, <2>5 DEF ScanInv, HeldOK, ReaderOK, queueVars, readerVars
  <2> QED BY <2>4, <2>7, <2>8 DEF ScanInv
<1> QED BY <1>4, <1>5

-----------------------------------------------------------------------------
(* The steps that change what is pending.                                  *)

(* A directory is put into the queue while the pass cannot be over: the    *)
(* reader is not done, or a scanner holds the directory above.             *)
LEMMA PushKeeps ==
  ASSUME ScanInv, NEW d \in Dirs, NEW next \in [Scanners -> Stages],
         Push(d, next), ~closed, readerDone => Holding # {},
         \A v \in Scanners : \/ next[v] = stage[v]
                             \/ {stage[v], next[v]} \subseteq {"checking", "entry"},
         work' \in [Scanners -> Works \cup {NoDir}],
         \A v \in Scanners : v \in Holding => work'[v] \in Works,
         \A v \in Scanners : v \notin Holding => work'[v] = work[v],
         line' \in 0..Len(Roots),
         UNCHANGED <<reader, fileVars, mainVars, cancel, scans>>
  PROVE  ScanInv'
<1>1. TypeOK /\ HeldOK /\ PendingExact /\ NobodyLeavesEarly /\ ReaderOK /\ N \in Nat /\ N > 0
  BY ScanAssumption DEF ScanInv
<1>2. /\ dirs' = Append(dirs, d) /\ pendingDirs' = pendingDirs + 1 /\ NotifyOne(next)
      /\ readerDone' = readerDone /\ closed' = closed
  BY DEF Push
<1>3. \A v \in Scanners : next[v] = "asleep" <=> stage[v] = "asleep"
  OBVIOUS
<1>4. /\ stage' \in [Scanners -> Stages] /\ permit' \in BOOLEAN /\ SleepersOK'
      /\ \A v \in Scanners : \/ stage'[v] = next[v]
                             \/ next[v] = "asleep" /\ stage'[v] = "looking"
      /\ \/ \E v \in Scanners : stage'[v] = "looking"
         \/ permit' /\ \A v \in Scanners : stage'[v] # "asleep"
  BY <1>1, <1>2, <1>3, OneWakes
<1>5. /\ dirs' \in Seq(Dirs) /\ Len(dirs') = Len(dirs) + 1 /\ Len(dirs) \in Nat
      /\ pendingDirs' \in Nat
  BY <1>1, <1>2, AppendProperties DEF TypeOK
<1>6. TypeOK'
  BY <1>1, <1>2, <1>4, <1>5 DEF TypeOK, SleepersOK, fileVars, mainVars
<1>7. Holding' = Holding
  BY <1>4 DEF Holding
<1>8. PendingExact'
  BY <1>1, <1>2, <1>5, <1>7, HoldingFinite DEF PendingExact, TypeOK
<1>9. cancel \/ \A v \in Scanners : stage[v] # "ended"
  BY <1>1 DEF NobodyLeavesEarly
<1>10. NobodyLeavesEarly'
  <2>1. \A v \in Scanners : stage'[v] = "ended" => stage[v] = "ended"
    BY <1>4
  <2> QED BY <1>9, <2>1 DEF NobodyLeavesEarly
<1>11. SomebodyLooks'
  <2> SUFFICES ASSUME ~cancel, \A v \in Scanners : stage'[v] # "failed"
               PROVE  \E v \in Scanners : Looks(v)'
    BY DEF SomebodyLooks, Looks
  <2>1. CASE \E v \in Scanners : stage'[v] = "looking"
    BY <2>1 DEF Looks
  <2>2. CASE permit' /\ \A v \in Scanners : stage'[v] # "asleep"
    <3>1. 1 \in Scanners
      BY <1>1 DEF Scanners
    <3>2. stage'[1] # "ended"
      BY <1>4, <1>9, <3>1
    <3> QED BY <2>2, <3>1, <3>2 DEF Looks
  <2> QED BY <1>4, <2>1, <2>2
<1>12. HeldOK' /\ ReaderOK'
  BY <1>1, <1>2, <1>7 DEF HeldOK, ReaderOK
<1> QED BY <1>6, <1>8, <1>10, <1>11, <1>12 DEF ScanInv

LEMMA ReaderPushKeeps ==
  ASSUME ScanInv, ReaderPush
  PROVE  ScanInv'
<1>1. TypeOK /\ HeldOK /\ ReaderOK
  BY DEF ScanInv
<1>2. /\ reader = "reading" /\ line < Len(Roots) /\ ~closed /\ Push(Roots[line + 1], stage)
      /\ line' = line + 1
      /\ UNCHANGED <<reader, work, fileVars, mainVars, cancel, scans>>
  BY DEF ReaderPush
<1>3. Len(Roots) \in Nat /\ line + 1 \in 1..Len(Roots) /\ line' \in 0..Len(Roots)
  BY <1>1, <1>2, ScanAssumption DEF TypeOK
<1>4. Roots[line + 1] \in Dirs
  BY <1>3, ScanAssumption
<1>5. /\ work' \in [Scanners -> Works \cup {NoDir}] /\ stage \in [Scanners -> Stages]
      /\ \A v \in Scanners : v \in Holding => work'[v] \in Works
      /\ \A v \in Scanners : v \notin Holding => work'[v] = work[v]
  BY <1>1, <1>2 DEF TypeOK, HeldOK
<1>6. ~readerDone
  BY <1>1, <1>2 DEF ReaderOK
<1> QED BY <1>2, <1>3, <1>4, <1>5, <1>6, PushKeeps

LEMMA FoundSubdirKeeps ==
  ASSUME ScanInv, NEW s \in Scanners, FoundSubdir(s)
  PROVE  ScanInv'
<1>1. TypeOK /\ HeldOK
  BY DEF ScanInv
<1>2. stage[s] = "entry" /\ ~closed /\ UNCHANGED <<fileVars, readerVars, mainVars, cancel, scans>>
  BY DEF FoundSubdir
<1>3. s \in Holding /\ work[s] \in Works
  BY <1>1, <1>2 DEF Holding, HeldOK
<1> DEFINE next == [stage EXCEPT ![s] = "checking"]
<1>4. PICK d \in work[s].subdirs :
        Push(d, next) /\ work' = [work EXCEPT ![s].subdirs = @ \ {d}]
  BY DEF FoundSubdir
<1>5. d \in Dirs /\ [work[s] EXCEPT !.subdirs = @ \ {d}] \in Works
  BY <1>3 DEF Works
<1>6. /\ work' \in [Scanners -> Works \cup {NoDir}] /\ work'[s] \in Works
      /\ \A v \in Scanners : v # s => work'[v] = work[v]
  BY <1>1, <1>4, <1>5 DEF TypeOK
<1>7. /\ \A v \in Scanners : v \in Holding => work'[v] \in Works
      /\ \A v \in Scanners : v \notin Holding => work'[v] = work[v]
  BY <1>1, <1>3, <1>6 DEF HeldOK
<1>8. /\ next \in [Scanners -> Stages]
      /\ \A v \in Scanners : \/ next[v] = stage[v]
                             \/ {stage[v], next[v]} \subseteq {"checking", "entry"}
  BY <1>1, <1>2 DEF TypeOK, Stages
<1>9. line' \in 0..Len(Roots) /\ reader' = reader
  BY <1>1, <1>2 DEF TypeOK, readerVars
<1> HIDE DEF next
<1> QED BY <1>2, <1>3, <1>4, <1>5, <1>6, <1>7, <1>8, <1>9, PushKeeps

(* A directory is finished by who holds it, whatever became of it.         *)
LEMMA FinishKeeps ==
  ASSUME ScanInv, NEW s \in Scanners, FinishDir(s)
  PROVE  ScanInv'
<1>1. TypeOK /\ HeldOK /\ PendingExact /\ NobodyLeavesEarly /\ ReaderOK
  BY DEF ScanInv
<1> DEFINE next == [stage EXCEPT ![s] = IF work[s].ok THEN "looking" ELSE "failed"]
<1>2. /\ stage[s] = "finishing" /\ pendingDirs' = Finished(s) /\ WakeAtEnd(next)
      /\ work' = [work EXCEPT ![s] = NoDir]
      /\ UNCHANGED <<dirs, readerDone, closed, fileVars, readerVars, mainVars, cancel>>
  BY DEF FinishDir
<1>3. /\ next \in [Scanners -> Stages] /\ next[s] \in {"looking", "failed"}
      /\ \A v \in Scanners : v # s => next[v] = stage[v]
  BY <1>1 DEF TypeOK, Stages
<1> HIDE DEF next
<1>4. /\ stage' \in [Scanners -> Stages] /\ permit' \in BOOLEAN /\ SleepersOK'
      /\ stage'[s] = next[s]
      /\ \A v \in Scanners : v # s =>
           stage'[v] = stage[v] \/ (stage[v] \in {"armed", "asleep"} /\ stage'[v] = "looking")
  <2>1. CASE NotifyWaiters(next)
    BY <1>1, <1>3, <2>1, AllWake DEF TypeOK
  <2>2. CASE stage' = next /\ UNCHANGED notifyVars
    <3>1. \A v \in Scanners : stage'[v] = "asleep" <=> stage[v] = "asleep"
      BY <1>2, <1>3, <2>2
    <3>2. SleepersOK'
      BY <1>1, <2>2, <3>1, SameSleepers DEF notifyVars
    <3> QED BY <1>1, <1>3, <2>2, <3>2 DEF notifyVars, TypeOK
  <2> QED BY <1>2, <2>1, <2>2 DEF WakeAtEnd
<1>5. Holding' = Holding \ {s} /\ s \in Holding
  BY <1>2, <1>3, <1>4 DEF Holding
<1>6. /\ Cardinality(Holding') = Cardinality(Holding) - 1 /\ Cardinality(Holding') \in Nat
  <2>1. Cardinality(Holding') = Cardinality(Holding) - 1
    BY <1>5, HoldingFinite, FS_RemoveElement
  <2>2. IsFiniteSet(Holding')
    BY <1>5, HoldingFinite, FS_RemoveElement
  <2> QED BY <2>1, <2>2, FS_CardinalityType
<1>7. pendingDirs' = pendingDirs - 1 /\ pendingDirs' \in Nat
  <2>1. pendingDirs > 0
    BY <1>1, <1>6, HoldingFinite DEF PendingExact, TypeOK
  <2> QED BY <1>1, <1>2, <2>1 DEF Finished, TypeOK
<1>8. /\ work' \in [Scanners -> Works \cup {NoDir}] /\ work'[s] = NoDir
      /\ \A v \in Scanners : v # s => work'[v] = work[v]
  BY <1>1, <1>2 DEF TypeOK
<1>9. scans' \in [Dirs -> Nat]
  <2>1. work[s].dir \in Dirs
    BY <1>1, <1>5 DEF HeldOK, Works
  <2>2. scans' = scans \/ scans' = [scans EXCEPT ![work[s].dir] = @ + 1]
    BY DEF FinishDir
  <2> QED BY <1>1, <2>1, <2>2 DEF TypeOK
<1>10. TypeOK'
  BY <1>1, <1>2, <1>4, <1>7, <1>8, <1>9
     DEF TypeOK, SleepersOK, fileVars, readerVars, mainVars
<1>11. PendingExact'
  BY <1>1, <1>2, <1>6, <1>7, HoldingFinite DEF PendingExact, TypeOK
<1>12. NobodyLeavesEarly'
  <2>1. \A v \in Scanners : stage'[v] = "ended" => stage[v] = "ended"
    BY <1>3, <1>4
  <2> QED BY <1>1, <1>2, <1>5, <2>1 DEF NobodyLeavesEarly
<1>13. SomebodyLooks'
  BY <1>3, <1>4 DEF SomebodyLooks
<1>14. HeldOK' /\ ReaderOK'
  BY <1>1, <1>2, <1>5, <1>8 DEF HeldOK, ReaderOK, readerVars
<1> QED BY <1>10, <1>11, <1>12, <1>13, <1>14 DEF ScanInv

LEMMA FreshPass == Fresh => ScanInv
<1> SUFFICES ASSUME Fresh PROVE ScanInv
  OBVIOUS
<1> USE DEF Fresh
<1>1. N \in Nat /\ Len(Roots) \in Nat
  BY ScanAssumption
<1>2. Holding = {} /\ \A s \in Scanners : stage[s] = "looking" /\ work[s] = NoDir
  BY DEF Holding
<1>3. TypeOK
  <2>1. /\ <<>> \in Seq(Dirs) /\ <<>> \in Seq(Scanners) /\ DOMAIN <<>> = {}
        /\ \A s \in Scanners : stage[s] # "asleep"
    BY <1>2
  <2>2. stage \in [Scanners -> Stages]
    BY DEF Stages
  <2>3. readerDone \in BOOLEAN /\ closed \in BOOLEAN /\ permit \in BOOLEAN
    OBVIOUS
  <2>4. 0 \in 0..Len(Roots) /\ 0 \in 0..N + 1 /\ 0 \in Nat
    BY <1>1
  <2>5. work \in [Scanners -> Works \cup {NoDir}] /\ scans \in [Dirs -> Nat]
    OBVIOUS
  <2> QED BY <2>1, <2>2, <2>3, <2>4, <2>5 DEF TypeOK
<1>4. PendingExact
  BY <1>2, FS_EmptySet DEF PendingExact
<1>5. HeldOK /\ ReaderOK /\ NobodyLeavesEarly /\ SomebodyLooks
  BY <1>2 DEF HeldOK, ReaderOK, NobodyLeavesEarly, SomebodyLooks
<1> QED BY <1>3, <1>4, <1>5 DEF ScanInv

LEMMA NextIsFresh ==
  ASSUME ScanInv, NextPass
  PROVE  Fresh'
<1>1. /\ queued' \in 0..Capacity /\ cancel' \in BOOLEAN /\ filesOpen' \in BOOLEAN
      /\ failing' \in BOOLEAN /\ main' \in {"running", "ok", "failed", "aborted"}
  <2>1. /\ queued \in 0..Capacity /\ cancel \in BOOLEAN /\ filesOpen \in BOOLEAN
        /\ failing \in BOOLEAN /\ main \in {"running", "ok", "failed", "aborted"}
    BY DEF ScanInv, TypeOK
  <2>2. UNCHANGED <<main, failing, filesOpen, queued, cancel>>
    BY DEF NextPass, fileVars
  <2> QED BY <2>1, <2>2
<1>2. /\ dirs' = <<>> /\ pendingDirs' = 0 /\ readerDone' = FALSE /\ closed' = FALSE
      /\ permit' = FALSE /\ waiters' = <<>> /\ reader' = "reading" /\ line' = 0 /\ joined' = 0
      /\ stage' = [s \in Scanners |-> "looking"] /\ work' = [s \in Scanners |-> NoDir]
      /\ scans' = [d \in Dirs |-> 0]
  BY DEF NextPass
<1> QED BY <1>1, <1>2, Zenon DEF Fresh

LEMMA InitIsFresh == Init => Fresh
<1>1. Init => queued \in 0..Capacity
  BY ScanAssumption DEF Init
<1>2. Init => /\ cancel \in BOOLEAN /\ filesOpen \in BOOLEAN /\ failing \in BOOLEAN
              /\ main \in {"running", "ok", "failed", "aborted"}
  BY DEF Init
<1> QED BY <1>1, <1>2, Zenon DEF Init, Fresh

(* Every step keeps the invariant.                                         *)
LEMMA StepKeeps == ScanInv /\ [Next]_vars => ScanInv'
<1> SUFFICES ASSUME ScanInv, [Next]_vars PROVE ScanInv'
  OBVIOUS
<1>1. CASE Reader
  BY <1>1, ReaderPushKeeps, ReaderStopsKeeps DEF Reader
<1>2. ASSUME NEW s \in Scanners, Scanner(s) PROVE ScanInv'
  <2>1. CASE Look(s) \/ NextEntry(s)
    BY <2>1, LookKeeps
  <2>2. CASE Pop(s)
    BY <2>2, TakeKeeps, LeaveOrWaitKeeps DEF Pop
  <2>3. CASE Poll(s)
    BY <2>3, PollKeeps
  <2>4. CASE FoundSubdir(s)
    BY <2>4, FoundSubdirKeeps
  <2>5. CASE FoundFile(s) \/ ScanFails(s)
    BY <2>5, EntryKeeps
  <2>6. CASE FinishDir(s)
    BY <2>6, FinishKeeps
  <2> QED BY <1>2, <2>1, <2>2, <2>3, <2>4, <2>5, <2>6 DEF Scanner
<1>3. CASE JoinReader \/ JoinScanner \/ PassEnds
  BY <1>3, MainKeeps
<1>4. CASE NextPass
  <2>1. Fresh' => ScanInv'
    BY FreshPass, PTL
  <2> QED BY <1>4, <2>1, NextIsFresh
<1>5. CASE Abort \/ Drain
  BY <1>5, OutsideKeeps
<1>6. CASE UNCHANGED vars
  BY <1>6 DEF vars, queueVars, notifyVars, fileVars, readerVars, scannerVars, mainVars,
     ScanInv, TypeOK, PendingExact, HeldOK, ReaderOK, NobodyLeavesEarly, SomebodyLooks, Holding
<1> QED BY <1>1, <1>2, <1>3, <1>4, <1>5, <1>6 DEF Next, Main

LEMMA ScanInvHolds == Spec => []ScanInv
<1>1. Init => ScanInv
  BY InitIsFresh, FreshPass
<1> QED BY <1>1, StepKeeps, PTL DEF Spec

(* What the count says at every moment is exact: no directory is finished  *)
(* twice, none is forgotten when its scanner fails, leaves or is told to   *)
(* stop, so the end of a pass is found when it has come and never before.  *)
(* CountsExact is this in one formula (pending_dirs of ScanQueue).         *)
THEOREM CountIsExact == Spec => []CountsExact
<1>1. ScanInv => CountsExact
  BY DEF ScanInv, CountsExact
<1> QED BY <1>1, ScanInvHolds, PTL

(* A scanner that ends on its own leaves nothing behind, and nothing turns *)
(* up after it has gone: whoever still holds a directory, and could find   *)
(* subdirectories in it, keeps all the others in the loop (pop_dir).       *)
THEOREM NobodyIsEarly == Spec => []NobodyLeavesEarly
<1>1. ScanInv => NobodyLeavesEarly
  BY DEF ScanInv
<1> QED BY <1>1, ScanInvHolds, PTL

(* No wake-up of the scanners is lost, for any number of them and any      *)
(* order of notifying, polling and looking, as long as none has failed.    *)
THEOREM SomebodyIsLooking == Spec => []SomebodyLooks
<1>1. ScanInv => SomebodyLooks
  BY DEF ScanInv
<1> QED BY <1>1, ScanInvHolds, PTL

-----------------------------------------------------------------------------
(* A pass that ends well is complete: every directory is accounted for.    *)

(* Where a directory stands in a sequence.                                 *)
Times(q, d) == {i \in DOMAIN q : q[i] = d}

LEMMA TimesFinite ==
  ASSUME NEW S, NEW q \in Seq(S), NEW d
  PROVE  IsFiniteSet(Times(q, d)) /\ Cardinality(Times(q, d)) \in Nat
<1>1. Len(q) \in Nat /\ Times(q, d) \subseteq 1..Len(q)
  BY DEF Times
<1>2. IsFiniteSet(1..Len(q))
  BY <1>1, FS_Interval
<1> QED BY <1>1, <1>2, FS_Subset, FS_CardinalityType

LEMMA TimesAppend ==
  ASSUME NEW S, NEW q \in Seq(S), NEW e \in S, NEW d
  PROVE  Cardinality(Times(Append(q, e), d)) = Cardinality(Times(q, d)) + IF e = d THEN 1 ELSE 0
<1>1. /\ Len(q) \in Nat /\ Append(q, e) \in Seq(S) /\ Len(Append(q, e)) = Len(q) + 1
      /\ Append(q, e)[Len(q) + 1] = e /\ \A i \in 1..Len(q) : Append(q, e)[i] = q[i]
      /\ DOMAIN q = 1..Len(q) /\ DOMAIN Append(q, e) = 1..(Len(q) + 1)
  BY AppendProperties
<1>2. CASE e = d
  <2>1. Times(Append(q, e), d) = Times(q, d) \cup {Len(q) + 1} /\ Len(q) + 1 \notin Times(q, d)
    BY <1>1, <1>2 DEF Times
  <2> QED BY <1>2, <2>1, TimesFinite, FS_AddElement
<1>3. CASE e # d
  <2>1. Times(Append(q, e), d) = Times(q, d)
    BY <1>1, <1>3 DEF Times
  <2> QED BY <1>3, <2>1, TimesFinite
<1> QED BY <1>2, <1>3

LEMMA TimesTail ==
  ASSUME NEW S, NEW q \in Seq(S), q # <<>>, NEW d
  PROVE  Cardinality(Times(q, d)) =
           Cardinality(Times(Tail(q), d)) + IF Head(q) = d THEN 1 ELSE 0
<1> DEFINE A == Times(Tail(q), d)
           B == Times(q, d) \ {1}
           f == [i \in A |-> i + 1]
<1>1. /\ Len(q) \in Nat /\ Len(q) > 0 /\ Head(q) = q[1] /\ DOMAIN q = 1..Len(q)
      /\ Tail(q) \in Seq(S) /\ DOMAIN Tail(q) = 1..(Len(q) - 1)
      /\ \A i \in 1..(Len(q) - 1) : Tail(q)[i] = q[i + 1]
  BY HeadTailProperties, EmptySeq
<1>2. \A i \in A : i \in Nat /\ i + 1 \in B
  BY <1>1 DEF Times
<1>3. \A k \in B : k - 1 \in A /\ k = (k - 1) + 1
  BY <1>1 DEF Times
<1>4. f \in Bijection(A, B)
  <2>1. f \in [A -> B]
    BY <1>2
  <2>2. \A i, k \in A : f[i] = f[k] => i = k
    BY <1>2
  <2>3. \A k \in B : \E i \in A : f[i] = k
    BY <1>3
  <2> QED BY <2>1, <2>2, <2>3, Fun_IsBij
<1>5. Cardinality(B) = Cardinality(A) /\ Cardinality(A) \in Nat /\ Cardinality(B) \in Nat
  <2>1. ExistsBijection(A, B)
    BY <1>4 DEF ExistsBijection
  <2>2. IsFiniteSet(A) /\ Cardinality(A) \in Nat
    BY <1>1, TimesFinite
  <2>3. Cardinality(B) = Cardinality(A)
    BY <2>1, <2>2, FS_Bijection
  <2> QED BY <2>2, <2>3
<1>6. IsFiniteSet(Times(q, d)) /\ Cardinality(Times(q, d)) \in Nat
  BY TimesFinite
<1>7. 1 \in Times(q, d) <=> Head(q) = d
  BY <1>1 DEF Times
<1>8. Cardinality(B) = IF 1 \in Times(q, d) THEN Cardinality(Times(q, d)) - 1
                                            ELSE Cardinality(Times(q, d))
  BY <1>6, FS_RemoveElement
<1> QED BY <1>5, <1>6, <1>7, <1>8

(* Nothing has gone wrong in this pass so far.                             *)
Good == /\ ~cancel /\ reader # "failed"
        /\ \A s \in Scanners : stage[s] # "failed" /\ work[s].ok

(* The scanners that hold a directory, those that have found it in the one *)
(* they hold, and how often the reader has read it.                        *)
HeldBy(d)     == {s \in Holding : work[s].dir = d}
FoundBelow(d) == {s \in Holding : d \in Children[work[s].dir] /\ d \notin work[s].subdirs}
ReadOf(d)     == Cardinality({i \in 1..line : Roots[i] = d})

(* A directory that was read from the manifest, or found by a finished or  *)
(* a running scan of the one above it, waits, is held or has been scanned. *)
Balanced(d) ==
  scans[d] + Cardinality(Times(dirs, d)) + Cardinality(HeldBy(d)) =
    ReadOf(d) + Above(d) + Cardinality(FoundBelow(d))

AllBalanced == Good => \A d \in Dirs : Balanced(d)

(* What a scan has left is below its directory, and it finishes early only *)
(* if it fails or is told to.                                              *)
ScansOK ==
  \A s \in Holding : /\ work[s].subdirs \subseteq Children[work[s].dir]
                     /\ stage[s] = "finishing" /\ work[s].ok /\ ~cancel => AllSeen(s)

(* The reader ends with the manifest, or else it was cancelled or failed.  *)
ReadOK == reader = "ended" /\ ~cancel => readerDone /\ line = Len(Roots)

(* Whoever was joined is over, an error among them is remembered, and the  *)
(* queue is closed only for an error or a cancellation.                    *)
JoinedOK ==
  /\ joined > 0 => reader # "reading"
  /\ \A s \in Scanners : s < joined => stage[s] \in {"ended", "failed"}
  /\ joined > 0 /\ ~failing =>
       reader = "ended" /\ \A s \in Scanners : s < joined => stage[s] = "ended"
  /\ closed /\ ~cancel => failing /\ joined > 0

PassInv == ScanInv /\ ScansOK /\ ReadOK /\ JoinedOK /\ AllBalanced

LEMMA PassInvEnds == PassInv => PassComplete
<1> SUFFICES ASSUME PassInv, PassOver, ~failing, ~cancel, NEW d \in Dirs
             PROVE  scans[d] = Listed(d) + Above(d)
  BY DEF PassComplete
<1>1. TypeOK /\ HeldOK /\ NobodyLeavesEarly /\ N \in Nat /\ N > 0 /\ joined = N + 1
  BY ScanAssumption DEF PassInv, ScanInv, PassOver
<1>2. /\ reader = "ended" /\ ~closed
      /\ \A s \in Scanners : stage[s] = "ended"
  BY <1>1 DEF PassInv, JoinedOK, Scanners
<1>3. line = Len(Roots) /\ readerDone
  BY <1>2 DEF PassInv, ReadOK
<1>4. 1 \in Scanners
  BY <1>1 DEF Scanners
<1>5. dirs = <<>> /\ Holding = {}
  BY <1>1, <1>2, <1>4 DEF NobodyLeavesEarly
<1>6. Good
  BY <1>1, <1>2, <1>5 DEF Good, HeldOK, NoDir
<1>7. Balanced(d)
  BY <1>6 DEF PassInv, AllBalanced
<1>8. Times(dirs, d) = {} /\ HeldBy(d) = {} /\ FoundBelow(d) = {}
  BY <1>5 DEF Times, HeldBy, FoundBelow
<1>9. ReadOf(d) = Listed(d)
  <2>1. DOMAIN Roots = 1..Len(Roots)
    BY ScanAssumption
  <2> QED BY <1>3, <2>1 DEF ReadOf, Listed
<1>10. Listed(d) \in Nat /\ scans[d] \in Nat /\ Above(d) \in Nat
  <2>1. Listed(d) \in Nat
    <3>1. Listed(d) = Cardinality(Times(Roots, d)) /\ Roots \in Seq(Dirs)
      BY ScanAssumption DEF Listed, Times
    <3> QED BY <3>1, TimesFinite
  <2>2. Above(d) \in Nat
    BY <1>1 DEF Above, TypeOK
  <2> QED BY <1>1, <2>1, <2>2 DEF TypeOK
<1> QED BY <1>7, <1>8, <1>9, <1>10, FS_EmptySet DEF Balanced

(* The directory above is the only one.                                    *)
LEMMA OneAbove ==
  ASSUME NEW d \in Dirs
  PROVE  /\ \A e \in Dirs : d \in Children[e] => Above(d) = scans[e] /\ Above(d)' = scans'[e]
         /\ (\A e \in Dirs : d \notin Children[e]) => Above(d) = 0 /\ Above(d)' = 0
<1>1. ASSUME NEW e \in Dirs, d \in Children[e]
      PROVE  Above(d) = scans[e] /\ Above(d)' = scans'[e]
  <2> DEFINE c == CHOOSE x \in Dirs : d \in Children[x]
  <2>1. c \in Dirs /\ d \in Children[c]
    BY <1>1
  <2>2. c = e
    BY <1>1, <2>1, ScanAssumption
  <2> QED BY <1>1, <2>2 DEF Above
<1> QED BY <1>1 DEF Above

(* Steps that leave the queue and the manifest alone, and what is held.    *)
LEMMA QuietBalance ==
  ASSUME PassInv, Good' => Good, dirs' = dirs, line' = line, scans' = scans, Holding' = Holding,
         \A s \in Holding : work'[s].dir = work[s].dir /\ work'[s].subdirs = work[s].subdirs
  PROVE  AllBalanced'
<1> SUFFICES ASSUME Good', NEW d \in Dirs PROVE Balanced(d)'
  BY DEF AllBalanced
<1>1. Balanced(d)
  BY DEF PassInv, AllBalanced
<1>2. HeldBy(d)' = HeldBy(d) /\ FoundBelow(d)' = FoundBelow(d)
  BY DEF HeldBy, FoundBelow
<1>3. Above(d)' = Above(d)
  BY DEF Above
<1>4. ReadOf(d)' = ReadOf(d) /\ Times(dirs, d)' = Times(dirs, d)
  BY DEF ReadOf
<1> QED BY <1>1, <1>2, <1>3, <1>4 DEF Balanced

(* What a step of a scanner leaves alone: the tasks that are over, the     *)
(* flags, and what the other scanners hold.                                *)
LEMMA ScannerFrame ==
  ASSUME PassInv, NEW s \in Scanners, Scanner(s)
  PROVE  /\ UNCHANGED <<reader, line, readerDone, closed, joined, failing, cancel>>
         /\ stage[s] \notin {"ended", "failed", "asleep"}
         /\ \A v \in Scanners : v # s =>
              /\ work'[v] = work[v]
              /\ stage'[v] = stage[v] \/ (stage[v] \in {"armed", "asleep"} /\ stage'[v] = "looking")
<1>1. TypeOK
  BY DEF PassInv, ScanInv
<1>2. ASSUME NEW next \in [Scanners -> Stages], NotifyOne(next),
             \A v \in Scanners : v # s => next[v] = stage[v],
             stage[s] # "asleep", next[s] # "asleep"
      PROVE  \A v \in Scanners : v # s =>
               stage'[v] = stage[v] \/ (stage[v] \in {"armed", "asleep"} /\ stage'[v] = "looking")
  <2>1. \A v \in Scanners : next[v] = "asleep" <=> stage[v] = "asleep"
    BY <1>2
  <2>2. \A v \in Scanners : stage'[v] = next[v] \/ (next[v] = "asleep" /\ stage'[v] = "looking")
    BY <1>1, <1>2, <2>1, OneWakes
  <2> QED BY <1>2, <2>2
<1>3. CASE Look(s) \/ NextEntry(s) \/ Poll(s)
  <2>1. PICK where : GoTo(s, where)
    BY <1>3 DEF Look, NextEntry, Poll
  <2>2. /\ stage[s] \in {"looking", "checking", "armed"} /\ work' = work
        /\ UNCHANGED <<queueVars, readerVars, mainVars, cancel>>
    BY <1>3 DEF Look, NextEntry, Poll
  <2> QED BY <1>1, <2>1, <2>2 DEF GoTo, TypeOK, queueVars, readerVars, mainVars
<1>4. CASE Pop(s)
  <2>1. PICK where : GoTo(s, where)
    BY <1>4 DEF Pop, Take, LeaveOrWait
  <2>2. /\ stage[s] = "locking"
        /\ UNCHANGED <<readerDone, closed, readerVars, mainVars, cancel>>
    BY <1>4 DEF Pop
  <2>3. \A v \in Scanners : v # s => work'[v] = work[v]
    BY <1>1, <1>4 DEF Pop, Take, LeaveOrWait, TypeOK
  <2> QED BY <1>1, <2>1, <2>2, <2>3 DEF GoTo, TypeOK, readerVars, mainVars
<1>5. CASE FoundFile(s) \/ ScanFails(s)
  <2>1. PICK where : GoTo(s, where)
    BY <1>5 DEF FoundFile, ScanFails
  <2>2. /\ stage[s] = "entry"
        /\ UNCHANGED <<queueVars, readerVars, mainVars, cancel>>
    BY <1>5 DEF FoundFile, ScanFails
  <2>3. \A v \in Scanners : v # s => work'[v] = work[v]
    BY <1>1, <1>5 DEF FoundFile, ScanFails, TypeOK
  <2> QED BY <1>1, <2>1, <2>2, <2>3 DEF GoTo, TypeOK, queueVars, readerVars, mainVars
<1>6. CASE FoundSubdir(s)
  <2> DEFINE next == [stage EXCEPT ![s] = "checking"]
  <2>1. /\ stage[s] = "entry" /\ NotifyOne(next)
        /\ UNCHANGED <<readerDone, closed, readerVars, mainVars, cancel>>
    BY <1>6 DEF FoundSubdir, Push
  <2>2. \A v \in Scanners : v # s => work'[v] = work[v]
    BY <1>1, <1>6 DEF FoundSubdir, TypeOK
  <2>3. /\ next \in [Scanners -> Stages] /\ next[s] = "checking"
        /\ \A v \in Scanners : v # s => next[v] = stage[v]
    BY <1>1 DEF TypeOK, Stages
  <2> HIDE DEF next
  <2> QED BY <1>2, <2>1, <2>2, <2>3 DEF readerVars, mainVars
<1>7. CASE FinishDir(s)
  <2> DEFINE next == [stage EXCEPT ![s] = IF work[s].ok THEN "looking" ELSE "failed"]
  <2>1. /\ stage[s] = "finishing"
        /\ NotifyWaiters(next) \/ stage' = next
        /\ UNCHANGED <<readerDone, closed, readerVars, mainVars, cancel>>
    BY <1>7 DEF FinishDir, WakeAtEnd
  <2>2. \A v \in Scanners : v # s => work'[v] = work[v]
    BY <1>1, <1>7 DEF FinishDir, TypeOK
  <2>3. /\ next \in [Scanners -> Stages]
        /\ \A v \in Scanners : v # s => next[v] = stage[v]
    BY <1>1 DEF TypeOK, Stages
  <2> HIDE DEF next
  <2>4. \A v \in Scanners : v # s =>
          stage'[v] = stage[v] \/ (stage[v] \in {"armed", "asleep"} /\ stage'[v] = "looking")
    BY <1>1, <2>1, <2>3, AllWake
  <2> QED BY <2>1, <2>2, <2>4 DEF readerVars, mainVars
<1> QED BY <1>3, <1>4, <1>5, <1>6, <1>7 DEF Scanner

(* So a step of a scanner disturbs only the balance and its own scan.      *)
LEMMA ScannerCalm ==
  ASSUME PassInv, NEW s \in Scanners, Scanner(s),
         s \in Holding' => /\ work'[s].subdirs \subseteq Children[work'[s].dir]
                           /\ stage'[s] = "finishing" /\ work'[s].ok /\ ~cancel => AllSeen(s)',
         AllBalanced'
  PROVE  PassInv'
<1>1. /\ UNCHANGED <<reader, line, readerDone, closed, joined, failing, cancel>>
      /\ stage[s] \notin {"ended", "failed", "asleep"}
      /\ \A v \in Scanners : v # s =>
           /\ work'[v] = work[v]
           /\ stage'[v] = stage[v] \/ (stage[v] \in {"armed", "asleep"} /\ stage'[v] = "looking")
  BY ScannerFrame
<1>2. ScanInv'
  <2>1. Next
    BY DEF Next
  <2> QED BY <2>1, StepKeeps DEF PassInv
<1>3. ScansOK'
  <2>1. ASSUME NEW v \in Scanners, v # s, v \in Holding'
        PROVE  /\ v \in Holding /\ work'[v] = work[v]
               /\ stage'[v] = "finishing" => stage[v] = "finishing"
    BY <1>1, <2>1 DEF Holding
  <2> QED BY <1>1, <2>1 DEF PassInv, ScansOK, Holding, AllSeen
<1>4. ReadOK'
  BY <1>1 DEF PassInv, ReadOK
<1>5. JoinedOK'
  <2>1. \A v \in Scanners : stage[v] \in {"ended", "failed"} => stage'[v] = stage[v]
    BY <1>1
  <2> QED BY <1>1, <2>1 DEF PassInv, JoinedOK
<1> QED BY <1>2, <1>3, <1>4, <1>5 DEF PassInv

LEMMA GoodBefore ==
  ASSUME PassInv, NEW s \in Scanners, Scanner(s), Good' => s \notin Holding \/ work[s].ok
  PROVE  Good' => Good
<1> SUFFICES ASSUME Good' PROVE Good
  OBVIOUS
<1>1. /\ reader' = reader /\ cancel' = cancel /\ stage[s] # "failed"
      /\ \A v \in Scanners : v # s =>
           work'[v] = work[v] /\ (stage'[v] = stage[v] \/ stage[v] \in {"armed", "asleep"})
  BY ScannerFrame
<1>2. work[s].ok
  BY DEF PassInv, ScanInv, HeldOK, NoDir
<1> QED BY <1>1, <1>2 DEF Good

(* Steps of a scanner that neither take, find nor finish a directory.      *)
LEMMA ScannerQuiet ==
  ASSUME PassInv, NEW s \in Scanners,
         \/ Look(s) \/ NextEntry(s) \/ Poll(s) \/ FoundFile(s) \/ ScanFails(s)
         \/ Pop(s) /\ LeaveOrWait(s)
  PROVE  PassInv'
<1>1. TypeOK /\ HeldOK /\ ScansOK
  BY DEF PassInv, ScanInv
<1>2. Scanner(s)
  BY DEF Scanner
<1>3. /\ dirs' = dirs /\ scans' = scans
      /\ \A v \in Scanners : v # s => work'[v] = work[v] /\ stage'[v] = stage[v]
  <2>1. dirs' = dirs /\ scans' = scans
    BY DEF Look, NextEntry, Poll, FoundFile, ScanFails, Pop, LeaveOrWait, queueVars
  <2>2. PICK where : GoTo(s, where)
    BY DEF Look, NextEntry, Poll, FoundFile, ScanFails, Pop, LeaveOrWait
  <2>3. \A v \in Scanners : v # s => stage'[v] = stage[v]
    BY <1>1, <2>2 DEF GoTo, TypeOK
  <2> QED BY <1>2, <2>1, <2>3, ScannerFrame
<1>4. CASE Look(s) \/ Poll(s) \/ (Pop(s) /\ LeaveOrWait(s))
  <2>1. s \notin Holding /\ work' = work
    BY <1>4 DEF Look, Poll, Pop, LeaveOrWait, Holding
  <2>2. s \notin Holding'
    <3>1. PICK where \in {"ended", "locking", "looking", "asleep", "armed"} : GoTo(s, where)
      BY <1>4 DEF Look, Poll, LeaveOrWait
    <3> QED BY <1>1, <3>1 DEF GoTo, TypeOK, Holding
  <2>3. Holding' = Holding
    BY <1>3, <2>1, <2>2 DEF Holding
  <2>4. Good' => Good
    BY <1>2, <2>1, GoodBefore
  <2>5. AllBalanced'
    BY <1>2, <1>3, <2>1, <2>3, <2>4, ScannerFrame, QuietBalance
  <2> QED BY <1>2, <2>2, <2>5, ScannerCalm
<1>5. CASE NextEntry(s) \/ FoundFile(s) \/ ScanFails(s)
  <2>1. PICK where \in {"checking", "entry", "finishing"} :
          GoTo(s, where) /\ stage[s] \in {"checking", "entry"}
    BY <1>5 DEF NextEntry, FoundFile, ScanFails
  <2>2. stage'[s] = where
    BY <1>1, <2>1 DEF GoTo, TypeOK
  <2>3. s \in Holding /\ s \in Holding' /\ work[s] \in Works
    BY <1>1, <2>1, <2>2 DEF Holding, HeldOK
  <2>4. Holding' = Holding
    BY <1>3, <2>3 DEF Holding
  <2>5. /\ work'[s].dir = work[s].dir /\ work'[s].subdirs = work[s].subdirs
        /\ work'[s].ok => work[s].ok
    <3>1. \/ work' = work \/ work' = [work EXCEPT ![s].files = @ - 1]
          \/ work' = [work EXCEPT ![s].ok = FALSE]
      BY <1>5 DEF NextEntry, FoundFile, ScanFails
    <3>2. s \in DOMAIN work
      BY <1>1 DEF TypeOK
    <3>3. \/ work'[s] = work[s] \/ work'[s] = [work[s] EXCEPT !.files = @ - 1]
          \/ work'[s] = [work[s] EXCEPT !.ok = FALSE]
      BY <3>1, <3>2
    <3> QED BY <2>3, <3>3 DEF Works
  <2>6. Good' => Good
    <3>1. Good' => work'[s].ok
      BY DEF Good
    <3> QED BY <1>2, <2>5, <3>1, GoodBefore
  <2>7. \A v \in Holding : work'[v].dir = work[v].dir /\ work'[v].subdirs = work[v].subdirs
    BY <1>3, <2>5 DEF Holding
  <2>8. AllBalanced'
    BY <1>2, <1>3, <2>4, <2>6, <2>7, ScannerFrame, QuietBalance
  <2>9. work'[s].subdirs \subseteq Children[work'[s].dir]
    BY <1>1, <2>3, <2>5 DEF ScansOK
  <2>10. stage'[s] = "finishing" /\ work'[s].ok /\ ~cancel => AllSeen(s)'
    <3>1. CASE NextEntry(s)
      <4>1. where = "finishing" => cancel \/ AllSeen(s)
        BY <1>1, <2>2, <3>1 DEF NextEntry, GoTo, TypeOK
      <4> QED BY <2>2, <3>1, <4>1 DEF NextEntry, AllSeen
    <3>2. CASE FoundFile(s)
      BY <1>1, <3>2 DEF FoundFile, GoTo, TypeOK
    <3>3. CASE ScanFails(s)
      <4>1. work'[s].ok = FALSE
        BY <1>1, <2>3, <3>3 DEF ScanFails, TypeOK, Works
      <4> QED BY <4>1
    <3> QED BY <1>5, <3>1, <3>2, <3>3
  <2> QED BY <1>2, <2>8, <2>9, <2>10, ScannerCalm
<1> QED BY <1>4, <1>5

(* A directory that is taken is no longer queued but held.                 *)
LEMMA TakeBalance ==
  ASSUME PassInv, NEW s \in Scanners, Pop(s), Take(s)
  PROVE  PassInv'
<1>1. TypeOK /\ HeldOK
  BY DEF PassInv, ScanInv
<1>2. Scanner(s)
  BY DEF Scanner
<1> DEFINE h == Head(dirs)
<1>3. /\ stage[s] = "locking" /\ dirs # <<>> /\ dirs' = Tail(dirs) /\ scans' = scans
      /\ GoTo(s, "checking")
      /\ work' = [work EXCEPT ![s] = [dir |-> h, subdirs |-> Children[h],
                                      files |-> Files[h], ok |-> TRUE]]
  BY DEF Pop, Take
<1>4. /\ stage'[s] = "checking"
      /\ work'[s].dir = h /\ work'[s].subdirs = Children[h]
      /\ \A v \in Scanners : v # s => stage'[v] = stage[v] /\ work'[v] = work[v]
  BY <1>1, <1>3 DEF GoTo, TypeOK
<1>5. s \notin Holding /\ Holding' = Holding \cup {s}
  BY <1>3, <1>4 DEF Holding
<1>6. Good' => Good
  BY <1>2, <1>5, GoodBefore
<1>7. AllBalanced'
  <2> SUFFICES ASSUME Good', NEW d \in Dirs PROVE Balanced(d)'
    BY DEF AllBalanced
  <2>1. Balanced(d)
    BY <1>6 DEF PassInv, AllBalanced
  <2>2. /\ Cardinality(Times(dirs, d)) =
             Cardinality(Times(dirs', d)) + IF h = d THEN 1 ELSE 0
        /\ Cardinality(Times(dirs', d)) \in Nat
    <3>1. Tail(dirs) \in Seq(Dirs)
      BY <1>1, <1>3, HeadTailProperties DEF TypeOK
    <3> QED BY <1>1, <1>3, <3>1, TimesTail, TimesFinite DEF TypeOK
  <2>3. FoundBelow(d)' = FoundBelow(d)
    BY <1>3, <1>4, <1>5, ScannerFrame DEF FoundBelow, Holding
  <2>4. IsFiniteSet(HeldBy(d)) /\ Cardinality(HeldBy(d)) \in Nat
    BY HoldingFinite, FS_Subset, FS_CardinalityType DEF HeldBy
  <2>5. Cardinality(HeldBy(d)') = Cardinality(HeldBy(d)) + IF h = d THEN 1 ELSE 0
    <3>1. CASE h = d
      <4>1. HeldBy(d)' = HeldBy(d) \cup {s} /\ s \notin HeldBy(d)
        BY <1>4, <1>5, <3>1 DEF HeldBy, Holding
      <4> QED BY <2>4, <3>1, <4>1, FS_AddElement
    <3>2. CASE h # d
      <4>1. HeldBy(d)' = HeldBy(d)
        BY <1>4, <1>5, <3>2 DEF HeldBy, Holding
      <4> QED BY <2>4, <3>2, <4>1
    <3> QED BY <3>1, <3>2
  <2>6. ReadOf(d)' = ReadOf(d) /\ Above(d)' = Above(d) /\ scans[d] \in Nat
    BY <1>1, <1>2, <1>3, ScannerFrame DEF ReadOf, Above, TypeOK
  <2> QED BY <1>3, <2>1, <2>2, <2>3, <2>4, <2>5, <2>6 DEF Balanced
<1> QED BY <1>2, <1>4, <1>7, ScannerCalm

LEMMA ReadFinite ==
  ASSUME TypeOK, NEW d
  PROVE  ReadOf(d) \in Nat /\ IsFiniteSet({i \in 1..line : Roots[i] = d})
<1>1. line \in Nat
  BY ScanAssumption DEF TypeOK
<1>2. IsFiniteSet(1..line) /\ {i \in 1..line : Roots[i] = d} \subseteq 1..line
  BY <1>1, FS_Interval
<1>3. IsFiniteSet({i \in 1..line : Roots[i] = d})
  BY <1>2, FS_Subset
<1> QED BY <1>3, FS_CardinalityType DEF ReadOf

(* A subdirectory that is found is queued, and left out of what is left.   *)
LEMMA FoundSubdirBalance ==
  ASSUME PassInv, NEW s \in Scanners, FoundSubdir(s)
  PROVE  PassInv'
<1>1. TypeOK /\ HeldOK /\ ScansOK
  BY DEF PassInv, ScanInv
<1>2. Scanner(s)
  BY DEF Scanner
<1> DEFINE next == [stage EXCEPT ![s] = "checking"]
<1>3. PICK d \in work[s].subdirs : Push(d, next) /\ work' = [work EXCEPT ![s].subdirs = @ \ {d}]
  BY DEF FoundSubdir
<1>4. stage[s] = "entry" /\ scans' = scans /\ line' = line /\ dirs' = Append(dirs, d)
  BY <1>3 DEF FoundSubdir, Push, readerVars
<1>5. s \in Holding /\ work[s] \in Works /\ d \in Children[work[s].dir] /\ d \in Dirs
  BY <1>1, <1>3, <1>4 DEF Holding, HeldOK, Works, ScansOK
<1>6. /\ work'[s].dir = work[s].dir /\ work'[s].subdirs = work[s].subdirs \ {d}
      /\ work'[s].ok = work[s].ok
  <2>1. s \in DOMAIN work
    BY <1>1 DEF TypeOK
  <2>2. work'[s] = [work[s] EXCEPT !.subdirs = @ \ {d}]
    BY <1>3, <2>1
  <2> QED BY <1>5, <2>2 DEF Works
<1>7. stage'[s] = "checking"
  <2>1. /\ next \in [Scanners -> Stages] /\ next[s] = "checking"
        /\ \A v \in Scanners : next[v] = "asleep" <=> stage[v] = "asleep"
    BY <1>1, <1>4 DEF TypeOK, Stages
  <2>2. NotifyOne(next)
    BY <1>3 DEF Push
  <2> HIDE DEF next
  <2> QED BY <1>1, <2>1, <2>2, OneWakes
<1>8. /\ \A v \in Scanners : v # s => work'[v] = work[v]
      /\ Holding' = Holding
  BY <1>2, <1>4, <1>7, ScannerFrame DEF Holding
<1>9. Good' => Good
  <2>1. Good' => work'[s].ok
    BY DEF Good
  <2> QED BY <1>2, <1>6, <2>1, GoodBefore
<1>10. AllBalanced'
  <2> SUFFICES ASSUME Good', NEW e \in Dirs PROVE Balanced(e)'
    BY DEF AllBalanced
  <2>1. Balanced(e)
    BY <1>9 DEF PassInv, AllBalanced
  <2>2. /\ Cardinality(Times(dirs', e)) =
             Cardinality(Times(dirs, e)) + IF d = e THEN 1 ELSE 0
        /\ Cardinality(Times(dirs, e)) \in Nat
    BY <1>1, <1>4, <1>5, TimesAppend, TimesFinite DEF TypeOK
  <2>3. HeldBy(e)' = HeldBy(e)
    BY <1>6, <1>8 DEF HeldBy, Holding
  <2>4. IsFiniteSet(FoundBelow(e)) /\ Cardinality(FoundBelow(e)) \in Nat
    BY HoldingFinite, FS_Subset, FS_CardinalityType DEF FoundBelow
  <2>5. Cardinality(FoundBelow(e)') = Cardinality(FoundBelow(e)) + IF d = e THEN 1 ELSE 0
    <3>1. CASE d = e
      <4>1. FoundBelow(e)' = FoundBelow(e) \cup {s} /\ s \notin FoundBelow(e)
        BY <1>3, <1>5, <1>6, <1>8, <3>1 DEF FoundBelow, Holding
      <4> QED BY <2>4, <3>1, <4>1, FS_AddElement
    <3>2. CASE d # e
      <4>1. FoundBelow(e)' = FoundBelow(e)
        BY <1>5, <1>6, <1>8, <3>2 DEF FoundBelow, Holding
      <4> QED BY <2>4, <3>2, <4>1
    <3> QED BY <3>1, <3>2
  <2>6. ReadOf(e)' = ReadOf(e) /\ Above(e)' = Above(e)
    BY <1>4 DEF ReadOf, Above
  <2>7. scans[e] \in Nat /\ Cardinality(HeldBy(e)) \in Nat
    BY <1>1, HoldingFinite, FS_Subset, FS_CardinalityType DEF HeldBy, TypeOK
  <2>8. ReadOf(e) \in Nat /\ Above(e) \in Nat
    <3>1. ReadOf(e) \in Nat
      BY <1>1, ReadFinite
    <3>2. Above(e) \in Nat
      BY <1>1 DEF Above, TypeOK
    <3> QED BY <3>1, <3>2
  <2> QED BY <1>4, <2>1, <2>2, <2>3, <2>4, <2>5, <2>6, <2>7, <2>8 DEF Balanced
<1>11. work'[s].subdirs \subseteq Children[work'[s].dir]
  BY <1>1, <1>5, <1>6 DEF ScansOK
<1> QED BY <1>2, <1>7, <1>10, <1>11, ScannerCalm

(* A directory that is finished has been scanned, and all that is below it *)
(* has been queued.                                                        *)
LEMMA FinishBalance ==
  ASSUME PassInv, NEW s \in Scanners, FinishDir(s)
  PROVE  PassInv'
<1>1. TypeOK /\ HeldOK /\ ScansOK
  BY DEF PassInv, ScanInv
<1>2. Scanner(s)
  BY DEF Scanner
<1> DEFINE next == [stage EXCEPT ![s] = IF work[s].ok THEN "looking" ELSE "failed"]
           w    == work[s].dir
<1>3. /\ stage[s] = "finishing" /\ work' = [work EXCEPT ![s] = NoDir]
      /\ dirs' = dirs /\ line' = line /\ cancel' = cancel
      /\ scans' = IF work[s].ok /\ AllSeen(s) THEN [scans EXCEPT ![w] = @ + 1] ELSE scans
  BY DEF FinishDir, readerVars
<1>4. s \in Holding /\ work[s] \in Works /\ w \in Dirs
  BY <1>1, <1>3 DEF Holding, HeldOK, Works
<1>5. /\ stage'[s] \in {"looking", "failed"}
      /\ stage'[s] # "failed" => work[s].ok
  <2>1. /\ next \in [Scanners -> Stages] /\ next[s] \in {"looking", "failed"}
        /\ next[s] # "failed" => work[s].ok
    BY <1>1 DEF TypeOK, Stages
  <2>2. NotifyWaiters(next) \/ stage' = next
    BY DEF FinishDir, WakeAtEnd
  <2> HIDE DEF next
  <2>3. stage'[s] = next[s]
    BY <1>1, <2>1, <2>2, AllWake
  <2> QED BY <2>1, <2>3
<1>6. /\ \A v \in Scanners : v # s => work'[v] = work[v]
      /\ Holding' = Holding \ {s}
  BY <1>2, <1>5, ScannerFrame DEF Holding
<1>7. Good' => work[s].ok
  BY <1>5 DEF Good
<1>8. Good' => Good
  BY <1>2, <1>7, GoodBefore
<1>9. AllBalanced'
  <2> SUFFICES ASSUME Good', NEW d \in Dirs PROVE Balanced(d)'
    BY DEF AllBalanced
  <2>1. Balanced(d)
    BY <1>8 DEF PassInv, AllBalanced
  <2>2. /\ AllSeen(s) /\ work[s].subdirs = {}
        /\ scans' = [scans EXCEPT ![w] = @ + 1]
    <3>1. AllSeen(s)
      BY <1>1, <1>3, <1>4, <1>7 DEF ScansOK, Good
    <3> QED BY <1>3, <1>7, <3>1 DEF AllSeen
  <2>3. scans[d] \in Nat /\ scans'[d] = scans[d] + IF w = d THEN 1 ELSE 0
    BY <1>1, <1>4, <2>2 DEF TypeOK
  <2>4. /\ IsFiniteSet(HeldBy(d)) /\ Cardinality(HeldBy(d)) \in Nat
        /\ IsFiniteSet(FoundBelow(d)) /\ Cardinality(FoundBelow(d)) \in Nat
    BY HoldingFinite, FS_Subset, FS_CardinalityType DEF HeldBy, FoundBelow
  <2>5. Cardinality(HeldBy(d)') = Cardinality(HeldBy(d)) - IF w = d THEN 1 ELSE 0
    <3>1. HeldBy(d)' = HeldBy(d) \ {s}
      BY <1>6 DEF HeldBy, Holding
    <3>2. s \in HeldBy(d) <=> w = d
      BY <1>4 DEF HeldBy
    <3>3. Cardinality(HeldBy(d) \ {s}) = IF s \in HeldBy(d)
                                   THEN Cardinality(HeldBy(d)) - 1 ELSE Cardinality(HeldBy(d))
      BY <2>4, FS_RemoveElement
    <3> QED BY <2>4, <3>1, <3>2, <3>3
  <2>6. Cardinality(FoundBelow(d)') =
          Cardinality(FoundBelow(d)) - IF d \in Children[w] THEN 1 ELSE 0
    <3>1. FoundBelow(d)' = FoundBelow(d) \ {s}
      BY <1>6 DEF FoundBelow, Holding
    <3>2. s \in FoundBelow(d) <=> d \in Children[w]
      BY <1>4, <2>2 DEF FoundBelow
    <3>3. Cardinality(FoundBelow(d) \ {s}) = IF s \in FoundBelow(d)
                                   THEN Cardinality(FoundBelow(d)) - 1 ELSE Cardinality(FoundBelow(d))
      BY <2>4, FS_RemoveElement
    <3> QED BY <2>4, <3>1, <3>2, <3>3
  <2>7. Above(d) \in Nat /\ Above(d)' = Above(d) + IF d \in Children[w] THEN 1 ELSE 0
    <3>1. CASE d \in Children[w]
      <4>1. Above(d) = scans[w] /\ Above(d)' = scans'[w]
        BY <1>4, <3>1, OneAbove
      <4> QED BY <1>1, <1>4, <2>2, <3>1, <4>1 DEF TypeOK
    <3>2. CASE d \notin Children[w] /\ \E e \in Dirs : d \in Children[e]
      <4>1. PICK e \in Dirs : d \in Children[e]
        BY <3>2
      <4>2. e # w /\ Above(d) = scans[e] /\ Above(d)' = scans'[e]
        BY <3>2, <4>1, OneAbove
      <4> QED BY <1>1, <1>4, <2>2, <3>2, <4>2 DEF TypeOK
    <3>3. CASE \A e \in Dirs : d \notin Children[e]
      BY <1>4, <3>3, OneAbove
    <3> QED BY <3>1, <3>2, <3>3
  <2>8. /\ ReadOf(d)' = ReadOf(d) /\ Times(dirs, d)' = Times(dirs, d)
        /\ Cardinality(Times(dirs, d)) \in Nat /\ ReadOf(d) \in Nat
    <3>2. ReadOf(d) \in Nat
      BY <1>1, ReadFinite
    <3>3. Cardinality(Times(dirs, d)) \in Nat
      BY <1>1, TimesFinite DEF TypeOK
    <3> QED BY <1>3, <3>2, <3>3 DEF ReadOf
  <2> QED BY <2>1, <2>3, <2>4, <2>5, <2>6, <2>7, <2>8 DEF Balanced
<1> QED BY <1>2, <1>5, <1>9, ScannerCalm DEF Holding

LEMMA ReaderPushBalance ==
  ASSUME PassInv, ReaderPush
  PROVE  PassInv'
<1>1. TypeOK
  BY DEF PassInv, ScanInv
<1> DEFINE r == Roots[line + 1]
<1>2. /\ reader = "reading" /\ line < Len(Roots) /\ dirs' = Append(dirs, r) /\ line' = line + 1
      /\ NotifyOne(stage)
      /\ UNCHANGED <<reader, work, joined, failing, cancel, scans, closed, readerDone>>
  BY DEF ReaderPush, Push, mainVars
<1>3. /\ Len(Roots) \in Nat /\ line \in Nat /\ line + 1 \in 1..Len(Roots) /\ r \in Dirs
  BY <1>1, <1>2, ScanAssumption DEF TypeOK
<1>4. \A v \in Scanners : stage'[v] = stage[v] \/ (stage[v] = "asleep" /\ stage'[v] = "looking")
  BY <1>1, <1>2, OneWakes DEF TypeOK
<1>5. Holding' = Holding
  BY <1>4 DEF Holding
<1>6. ScanInv'
  BY ReaderPushKeeps DEF PassInv
<1>7. ScansOK'
  BY <1>2, <1>4, <1>5 DEF PassInv, ScansOK, AllSeen, Holding
<1>8. ReadOK' /\ JoinedOK'
  BY <1>2, <1>4 DEF PassInv, ReadOK, JoinedOK
<1>9. Good' => Good
  BY <1>2, <1>4 DEF Good
<1>10. AllBalanced'
  <2> SUFFICES ASSUME Good', NEW d \in Dirs PROVE Balanced(d)'
    BY DEF AllBalanced
  <2>1. Balanced(d)
    BY <1>9 DEF PassInv, AllBalanced
  <2>2. /\ Cardinality(Times(dirs', d)) =
             Cardinality(Times(dirs, d)) + IF r = d THEN 1 ELSE 0
        /\ Cardinality(Times(dirs, d)) \in Nat
    BY <1>1, <1>2, <1>3, TimesAppend, TimesFinite DEF TypeOK
  <2>3. ReadOf(d) \in Nat /\ IsFiniteSet({i \in 1..line : Roots[i] = d})
    BY <1>1, ReadFinite
  <2>4. ReadOf(d)' = ReadOf(d) + IF r = d THEN 1 ELSE 0
    <3>1. CASE r = d
      <4>1. /\ {i \in 1..(line + 1) : Roots[i] = d} =
                 {i \in 1..line : Roots[i] = d} \cup {line + 1}
            /\ line + 1 \notin {i \in 1..line : Roots[i] = d}
        BY <1>3, <3>1
      <4>2. Cardinality({i \in 1..line : Roots[i] = d} \cup {line + 1}) = ReadOf(d) + 1
        BY <2>3, <4>1, FS_AddElement DEF ReadOf
      <4> QED BY <1>2, <3>1, <4>1, <4>2 DEF ReadOf
    <3>2. CASE r # d
      <4>1. {i \in 1..(line + 1) : Roots[i] = d} = {i \in 1..line : Roots[i] = d}
        BY <1>3, <3>2
      <4>2. ReadOf(d)' = Cardinality({i \in 1..(line + 1) : Roots[i] = d})
        BY <1>2 DEF ReadOf
      <4>3. ReadOf(d)' = ReadOf(d)
        BY <4>1, <4>2 DEF ReadOf
      <4> QED BY <2>3, <3>2, <4>3
    <3> QED BY <3>1, <3>2
  <2>5. HeldBy(d)' = HeldBy(d) /\ FoundBelow(d)' = FoundBelow(d) /\ Above(d)' = Above(d)
    BY <1>2, <1>5 DEF HeldBy, FoundBelow, Above
  <2>6. /\ scans[d] \in Nat /\ Above(d) \in Nat
        /\ Cardinality(HeldBy(d)) \in Nat /\ Cardinality(FoundBelow(d)) \in Nat
    BY <1>1, HoldingFinite, FS_Subset, FS_CardinalityType
       DEF HeldBy, FoundBelow, TypeOK, Above
  <2>7. /\ Cardinality(HeldBy(d)') = Cardinality(HeldBy(d))
        /\ Cardinality(FoundBelow(d)') = Cardinality(FoundBelow(d))
        /\ scans'[d] = scans[d] /\ Times(dirs, d)' = Times(dirs', d)
    BY <1>2, <2>5 DEF Times
  <2> HIDE DEF r
  <2> QED BY <2>1, <2>2, <2>3, <2>4, <2>5, <2>6, <2>7 DEF Balanced
<1> QED BY <1>6, <1>7, <1>8, <1>10 DEF PassInv

(* Steps outside the scanners that leave the queue and the manifest alone. *)
LEMMA ElsewhereBalance ==
  ASSUME PassInv, ScanInv', UNCHANGED <<dirs, line, work, scans>>,
         \A v \in Scanners : \/ stage'[v] = stage[v]
                             \/ stage[v] \in {"armed", "asleep"} /\ stage'[v] = "looking",
         cancel => cancel', reader = "failed" => reader' = "failed",
         ReadOK', JoinedOK'
  PROVE  PassInv'
<1>1. Holding' = Holding /\ \A v \in Scanners : stage'[v] = "finishing" => stage[v] = "finishing"
  BY DEF Holding
<1>2. ScansOK'
  <2> SUFFICES ASSUME NEW s \in Holding
               PROVE  /\ work[s].subdirs \subseteq Children[work[s].dir]
                      /\ (stage'[s] = "finishing" /\ work[s].ok /\ ~cancel') => AllSeen(s)
    BY <1>1 DEF ScansOK, AllSeen
  <2>1. stage'[s] = "finishing" => stage[s] = "finishing"
    BY <1>1 DEF Holding
  <2> QED BY <2>1 DEF PassInv, ScansOK
<1>3. Good' => Good
  BY DEF Good
<1>4. AllBalanced'
  BY <1>1, <1>3, QuietBalance
<1> QED BY <1>2, <1>4 DEF PassInv

LEMMA WakesAll ==
  ASSUME TypeOK, NotifyWaiters(stage)
  PROVE  \A v \in Scanners : \/ stage'[v] = stage[v]
                             \/ stage[v] \in {"armed", "asleep"} /\ stage'[v] = "looking"
BY AllWake DEF TypeOK

LEMMA OthersBalance ==
  ASSUME PassInv, \/ ReaderCancelled \/ ReaderEnds \/ ReaderFails \/ JoinReader \/ JoinScanner
                  \/ PassEnds \/ Abort \/ Drain
  PROVE  PassInv'
<1>1. TypeOK /\ ReadOK /\ JoinedOK /\ N \in Nat /\ joined \in 0..N + 1
  BY ScanAssumption DEF PassInv, ScanInv, TypeOK
<1>2. ScanInv'
  <2>1. Next
    BY DEF Next, Reader, Main
  <2> QED BY <2>1, StepKeeps DEF PassInv
<1>3. UNCHANGED <<dirs, line, work, scans>> /\ (cancel => cancel')
  BY DEF ReaderCancelled, ReaderEnds, ReaderFails, JoinReader, JoinScanner, PassEnds, Abort,
     Drain, Close, queueVars, readerVars, scannerVars
<1>4. NotifyWaiters(stage) \/ stage' = stage
  BY DEF ReaderCancelled, ReaderEnds, ReaderFails, JoinReader, JoinScanner, PassEnds, Abort,
     Drain, Close, scannerVars
<1>5. \A v \in Scanners : \/ stage'[v] = stage[v]
                          \/ stage[v] \in {"armed", "asleep"} /\ stage'[v] = "looking"
  BY <1>1, <1>4, WakesAll
<1>6. CASE ReaderCancelled \/ ReaderEnds \/ ReaderFails
  <2>1. reader = "reading" /\ UNCHANGED <<joined, failing, cancel>>
    BY <1>6 DEF ReaderCancelled, ReaderEnds, ReaderFails, mainVars
  <2>2. joined = 0
    BY <1>1, <2>1 DEF JoinedOK
  <2>3. closed' = closed \/ cancel
    BY <1>6 DEF ReaderCancelled, ReaderEnds, ReaderFails, queueVars
  <2>4. JoinedOK'
    BY <1>1, <2>1, <2>2, <2>3 DEF JoinedOK, Scanners
  <2>5. ReadOK'
    BY <1>6 DEF ReadOK, ReaderCancelled, ReaderEnds, ReaderFails, queueVars
  <2> QED BY <1>2, <1>3, <1>5, <2>1, <2>4, <2>5, ElsewhereBalance
<1>7. CASE JoinReader
  <2>1. /\ joined = 0 /\ joined' = 1 /\ reader # "reading" /\ failing' = (reader = "failed")
        /\ reader' = reader /\ cancel' = cancel /\ readerDone' = readerDone
        /\ closed' = closed \/ failing'
    BY <1>7 DEF JoinReader, ReaderError, readerVars, Close, queueVars
  <2>2. ReadOK'
    BY <1>1, <1>3, <2>1 DEF ReadOK
  <2>3. reader \in {"ended", "failed"} /\ \A s \in Scanners : ~(s < 1)
    BY <1>1, <2>1 DEF TypeOK, Scanners
  <2>4. JoinedOK'
    <3>1. \A s \in Scanners : ~(s < joined')
      BY <2>1, <2>3
    <3>2. closed' /\ ~cancel' => failing' /\ joined' > 0
      <4>1. closed /\ ~cancel => joined > 0
        BY <1>1 DEF JoinedOK
      <4>2. closed' = closed => ~(closed' /\ ~cancel')
        <5>1. ~(closed /\ ~cancel)
          BY <2>1, <4>1
        <5>2. cancel' = cancel
          BY <2>1
        <5> QED BY <5>1, <5>2
      <4>3. joined' > 0 /\ (closed' = closed \/ failing')
        BY <2>1
      <4> QED BY <4>2, <4>3
    <3> QED BY <2>1, <2>3, <3>1, <3>2 DEF JoinedOK
  <2> QED BY <1>2, <1>3, <1>5, <2>1, <2>2, <2>4, ElsewhereBalance
<1>8. CASE JoinScanner
  <2>1. /\ joined \in Scanners /\ joined' = joined + 1
        /\ stage[joined] \in {"ended", "failed"}
        /\ failing' = (failing \/ stage[joined] = "failed")
        /\ reader' = reader /\ readerDone' = readerDone
        /\ closed' = closed \/ cancel'
    BY <1>8 DEF JoinScanner, readerVars, Close, queueVars
  <2>2. ReadOK'
    BY <1>1, <1>3, <2>1 DEF ReadOK
  <2>3. joined > 0 /\ \A s \in Scanners : s < joined + 1 => s < joined \/ s = joined
    BY <2>1 DEF Scanners
  <2>4. \A s \in Scanners : stage[s] \in {"ended", "failed"} => stage'[s] = stage[s]
    BY <1>5
  <2>5. JoinedOK'
    <3>1. joined' > 0 /\ reader' # "reading"
      BY <1>1, <2>1, <2>3 DEF JoinedOK
    <3>2. ASSUME NEW s \in Scanners, s < joined'
          PROVE  stage'[s] \in {"ended", "failed"} /\ (~failing' => stage'[s] = "ended")
      BY <1>1, <2>1, <2>3, <2>4, <3>2 DEF JoinedOK
    <3>3. ~failing' => reader' = "ended"
      BY <1>1, <2>1, <2>3 DEF JoinedOK
    <3>4. closed' /\ ~cancel' => failing'
      BY <1>1, <1>3, <2>1 DEF JoinedOK
    <3> QED BY <3>1, <3>2, <3>3, <3>4 DEF JoinedOK
  <2> QED BY <1>2, <1>3, <1>5, <2>1, <2>2, <2>5, ElsewhereBalance
<1>9. CASE PassEnds \/ Abort \/ Drain
  <2>1. UNCHANGED <<stage, reader, readerDone, joined, failing, closed>>
    BY <1>9 DEF PassEnds, Abort, Drain, queueVars, readerVars, scannerVars, mainVars
  <2>2. ReadOK' /\ JoinedOK'
    BY <1>1, <1>3, <2>1 DEF ReadOK, JoinedOK
  <2> QED BY <1>2, <1>3, <1>5, <2>1, <2>2, ElsewhereBalance
<1> QED BY <1>6, <1>7, <1>8, <1>9

LEMMA FreshBalance == Fresh => PassInv
<1> SUFFICES ASSUME Fresh PROVE PassInv
  OBVIOUS
<1>1. ScanInv
  BY FreshPass
<1>2. Holding = {} /\ dirs = <<>> /\ line = 0 /\ joined = 0 /\ reader = "reading" /\ ~closed
  BY DEF Holding, Fresh
<1>3. ScansOK /\ ReadOK /\ JoinedOK
  BY <1>2 DEF ScansOK, ReadOK, JoinedOK, Scanners
<1>4. ASSUME NEW d \in Dirs PROVE Balanced(d)
  <2>1. HeldBy(d) = {} /\ FoundBelow(d) = {} /\ Times(dirs, d) = {}
    BY <1>2 DEF HeldBy, FoundBelow, Times
  <2>2. {i \in 1..line : Roots[i] = d} = {}
    BY <1>2
  <2>3. Above(d) = 0 /\ scans[d] = 0
    BY DEF Above, Fresh
  <2> QED BY <2>1, <2>2, <2>3, FS_EmptySet DEF Balanced, ReadOf
<1> QED BY <1>1, <1>3, <1>4 DEF PassInv, AllBalanced

LEMMA PassInvHolds == Spec => []PassInv
<1>1. Init => PassInv
  BY InitIsFresh, FreshBalance
<1>2. PassInv /\ [Next]_vars => PassInv'
  <2> SUFFICES ASSUME PassInv, [Next]_vars PROVE PassInv'
    OBVIOUS
  <2>1. CASE Reader
    BY <2>1, ReaderPushBalance, OthersBalance DEF Reader
  <2>2. ASSUME NEW s \in Scanners, Scanner(s) PROVE PassInv'
    BY <2>2, ScannerQuiet, TakeBalance, FoundSubdirBalance, FinishBalance DEF Scanner, Pop
  <2>3. CASE NextPass
    <3>1. Fresh'
      BY <2>3, NextIsFresh DEF PassInv
    <3>2. Fresh' => PassInv'
      BY FreshBalance, PTL
    <3> QED BY <3>1, <3>2
  <2>4. CASE JoinReader \/ JoinScanner \/ PassEnds \/ Abort \/ Drain
    BY <2>4, OthersBalance
  <2>5. CASE UNCHANGED vars
    <3>1. /\ UNCHANGED <<dirs, line, work, scans, stage, cancel, reader>>
          /\ UNCHANGED <<readerDone, joined, failing, closed>>
      BY <2>5 DEF vars, queueVars, readerVars, scannerVars, mainVars
    <3>2. ScanInv'
      BY <2>5, StepKeeps DEF PassInv
    <3>3. ReadOK' /\ JoinedOK'
      BY <3>1 DEF PassInv, ReadOK, JoinedOK
    <3> QED BY <3>1, <3>2, <3>3, ElsewhereBalance
  <2> QED BY <2>1, <2>2, <2>3, <2>4, <2>5 DEF Next, Main
<1> QED BY <1>1, <1>2, PTL DEF Spec

(* A pass that ends well has scanned every directory the manifest lists,   *)
(* and every one below, exactly as often as it was listed or met, for any  *)
(* tree, any manifest and any number of scanners, however their pops,      *)
(* failures, wake-ups and the joining of the tasks interleave: an error or *)
(* a cancellation that cuts a scan short is never taken for its end        *)
(* (single_pass and the loop of the scanners).                             *)
THEOREM PassIsComplete == Spec => []PassComplete
BY PassInvHolds, PassInvEnds, PTL
=============================================================================
