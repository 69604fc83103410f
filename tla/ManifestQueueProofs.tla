------------------------- MODULE ManifestQueueProofs -------------------------
(* The manifest is handed out in its order, and its end is announced only  *)
(* when it is reached: for every number of files and of callers, every     *)
(* capacity and every batch.                                               *)
EXTENDS ManifestQueue, FiniteSetTheorems, SequenceTheorems, TLAPS

USE QueueAssumption

(* Everything that ever went into the queue.                               *)
Out == handed \o queue

QueueType ==
  /\ {loop, cancel, done, open} \subseteq BOOLEAN
  /\ queue \in Seq(AllFiles) /\ handed \in Seq(AllFiles)
  /\ line \in 0..NFiles
  /\ step \in [Callers -> Steps]

(* Where the pass of the reader stands tells where the insertions stand.   *)
PassAligned ==
  /\ reader \in {"reading", "pushing", "inserting"} =>
       Len(Out) % NFiles = IF line = NFiles THEN 0 ELSE line
  /\ reader = "top" /\ ~cancel => Len(Out) % NFiles = 0
  /\ reader \in {"pushing", "inserting"} => line < NFiles

OrderInv == QueueType /\ OrderKept /\ PassAligned

(* What the flags of the reader and of the job are worth.                  *)
FlagsMean ==
  /\ done => ~loop /\ reader = "ended"
  /\ done /\ ~cancel => line = NFiles
  /\ ~open \/ job \in {"over", "cancelled"} => cancel
  /\ ~loop => Len(handed) + Len(queue) = line
  /\ ~loop /\ reader = "top" => line = 0

CallsMean ==
  \A c \in Callers :
    /\ step[c] = "checking" => done
    /\ step[c] \in {"last", "exhausted"} => done /\ queue = <<>>

EndInv == QueueType /\ PassAligned /\ FlagsMean /\ CallsMean

-----------------------------------------------------------------------------
(* Arithmetic and sequences.                                               *)

LEMMA ModNext ==
  ASSUME NEW n \in Nat \ {0}, NEW x \in Nat
  PROVE  (x + 1) % n = IF (x % n) + 1 = n THEN 0 ELSE (x % n) + 1
<1> DEFINE q == x \div n
           r == x % n
           s == (x + 1) \div n
           t == (x + 1) % n
<1>1. q \in Int /\ r \in 0..(n-1) /\ x = n * q + r
  OBVIOUS
<1>2. s \in Int /\ t \in 0..(n-1) /\ x + 1 = n * s + t
  OBVIOUS
<1> HIDE DEF q, r, s, t
<1>3. n * s + t = n * q + r + 1
  BY <1>1, <1>2
<1>4. CASE s = q
  BY <1>1, <1>2, <1>3, <1>4 DEF r, t
<1>5. CASE s >= q + 1
  <2>1. PICK d \in Nat : s = q + 1 + d
    <3>1. s - q - 1 \in Nat /\ s = q + 1 + (s - q - 1)
      BY <1>1, <1>2, <1>5
    <3> QED BY <3>1
  <2>2. n * s = n * q + n + n * d
    BY <1>1, <2>1
  <2>3. n * d \in Nat
    OBVIOUS
  <2> QED BY <1>1, <1>2, <1>3, <2>2, <2>3 DEF r, t
<1>6. CASE s + 1 <= q
  <2>1. PICK d \in Nat : q = s + 1 + d
    <3>1. q - s - 1 \in Nat /\ q = s + 1 + (q - s - 1)
      BY <1>1, <1>2, <1>6
    <3> QED BY <3>1
  <2>2. n * q = n * s + n + n * d
    BY <1>2, <2>1
  <2>3. n * d \in Nat
    OBVIOUS
  <2> QED BY <1>1, <1>2, <1>3, <2>2, <2>3
<1> QED BY <1>1, <1>2, <1>4, <1>5, <1>6

LEMMA Reassociate ==
  ASSUME NEW s \in Seq(AllFiles), NEW t \in Seq(AllFiles), NEW u \in Seq(AllFiles)
  PROVE  (s \o t) \o u = s \o (t \o u)
<1> DEFINE l == (s \o t) \o u
           r == s \o (t \o u)
<1>1. l \in Seq(AllFiles) /\ r \in Seq(AllFiles) /\ Len(l) = Len(r)
  BY ConcatProperties
<1>2. \A i \in 1..Len(l) : l[i] = r[i]
  BY ConcatProperties
<1> QED BY <1>1, <1>2, SeqEqual

(* A drain cuts the queue in two and loses nothing.                        *)
LEMMA DrainSplits ==
  ASSUME queue \in Seq(AllFiles)
  PROVE  /\ Taken \in Seq(AllFiles) /\ Rest \in Seq(AllFiles)
         /\ Taken \o Rest = queue
         /\ Len(Taken) + Len(Rest) = Len(queue)
         /\ queue = <<>> => Rest = <<>>
<1> DEFINE m == Min({Batch, Len(queue)})
<1>1. m \in 0..Len(queue)
  <2>1. \E x \in {Batch, Len(queue)} : \A y \in {Batch, Len(queue)} : x <= y
    OBVIOUS
  <2>2. m \in {Batch, Len(queue)} /\ \A y \in {Batch, Len(queue)} : m <= y
    BY <2>1 DEF Min
  <2> QED BY <2>2
<1> HIDE DEF m
<1>2. Taken = SubSeq(queue, 1, m)
  BY DEF Taken, m
<1>3. Taken \in Seq(AllFiles) /\ Len(Taken) = m
  BY <1>1, <1>2, SubSeqProperties
<1>4. Rest = SubSeq(queue, m + 1, Len(queue))
  BY <1>3 DEF Rest
<1>5. Rest \in Seq(AllFiles) /\ Len(Rest) = Len(queue) - m
  BY <1>1, <1>4, SubSeqProperties
<1>6. Taken \o Rest = queue
  <2>1. /\ 1 \in 1..Len(queue)+1 /\ m \in (1-1)..Len(queue)
        /\ Len(queue) \in m..Len(queue)
    BY <1>1
  <2>2. SubSeq(queue, 1, m) \o SubSeq(queue, m + 1, Len(queue)) = SubSeq(queue, 1, Len(queue))
    BY <2>1, ConcatAdjacentSubSeq
  <2> QED BY <1>2, <1>4, <2>2, SubSeqFull
<1> QED BY <1>1, <1>3, <1>5, <1>6

-----------------------------------------------------------------------------
(* Steps that leave what went in alone.                                    *)

LEMMA OutOfType == ASSUME QueueType PROVE Out \in Seq(AllFiles) /\ Len(Out) = Len(handed) + Len(queue)
BY ConcatProperties DEF QueueType, Out

LEMMA OutUntouched ==
  ASSUME OrderKept, Out' = Out
  PROVE  OrderKept'
BY DEF OrderKept, Out, Kth

LEMMA CallKeepsOrder ==
  ASSUME OrderInv, QueueType', UNCHANGED <<jobVars, readerVars>>, Out' = Out
  PROVE  OrderInv'
BY OutUntouched DEF OrderInv, PassAligned, jobVars, readerVars

LEMMA DrainKeepsOut ==
  ASSUME QueueType, NEW c \in Callers, Drain(c)
  PROVE  QueueType' /\ Out' = Out
<1>1. queue \in Seq(AllFiles) /\ handed \in Seq(AllFiles)
  BY DEF QueueType
<1>2. handed' = handed \o Taken /\ queue' = Rest
  BY DEF Drain
<1>3. /\ Taken \in Seq(AllFiles) /\ Rest \in Seq(AllFiles)
      /\ Taken \o Rest = queue
  BY <1>1, DrainSplits
<1>4. Out' = Out
  <2>1. handed' \o queue' = handed \o (Taken \o Rest)
    BY <1>1, <1>2, <1>3, Reassociate
  <2> QED BY <1>3, <2>1 DEF Out
<1>5. handed' \in Seq(AllFiles) /\ queue' \in Seq(AllFiles)
  BY <1>1, <1>2, <1>3, ConcatProperties
<1>6. step' \in [Callers -> Steps]
  BY DEF QueueType, Drain, CallAt, Steps
<1> QED BY <1>4, <1>5, <1>6 DEF QueueType, Drain, CallAt, jobVars, readerVars

(* The other halves of a call move no file.                                *)
LEMMA OtherCallSteps ==
  ASSUME QueueType, NEW c \in Callers, Call(c) \/ StopFetching(c), ~Drain(c)
  PROVE  QueueType' /\ UNCHANGED <<jobVars, readerVars, queue, handed>>
<1>1. UNCHANGED <<jobVars, readerVars, queue, handed>>
  BY DEF Call, StopFetching, Admit, GiveBack, LookDone, LookEmpty, Replied, ReplyLost, CallAt, queueVars
<1>2. step' \in [Callers -> Steps]
  BY DEF QueueType, Call, StopFetching, Admit, GiveBack, LookDone, LookEmpty, Replied, ReplyLost, CallAt, Steps
<1> QED BY <1>1, <1>2 DEF QueueType, jobVars, readerVars

(* An insertion adds the next file of the manifest.                        *)
LEMMA InsertAddsNext ==
  ASSUME OrderInv, Insert
  PROVE  /\ Out' \in Seq(AllFiles)
         /\ Len(Out') = Len(Out) + 1
         /\ OrderKept'
         /\ Len(Out') % NFiles = IF line' = NFiles THEN 0 ELSE line'
<1>1. /\ queue \in Seq(AllFiles) /\ handed \in Seq(AllFiles) /\ line \in 0..NFiles
      /\ line < NFiles /\ Len(Out) % NFiles = line
  BY DEF OrderInv, QueueType, PassAligned, Insert, ReaderAt
<1>2. /\ line + 1 \in AllFiles /\ line' = line + 1
      /\ handed' = handed /\ queue' = Append(queue, line + 1)
  BY <1>1 DEF Insert, ReaderAt, callVars, AllFiles
<1>3. Out \in Seq(AllFiles) /\ Len(Out) \in Nat
  BY <1>1, ConcatProperties DEF Out
<1>4. Out' = Append(Out, line + 1)
  <2>1. Append(queue, line + 1) = queue \o <<line + 1>>
    BY <1>1, <1>2, AppendIsConcat
  <2>2. Append(Out, line + 1) = Out \o <<line + 1>>
    BY <1>2, <1>3, AppendIsConcat
  <2>3. <<line + 1>> \in Seq(AllFiles)
    BY <1>2
  <2>4. (handed \o queue) \o <<line + 1>> = handed \o (queue \o <<line + 1>>)
    <3> DEFINE e == <<line + 1>>
    <3>1. handed \in Seq(AllFiles) /\ queue \in Seq(AllFiles) /\ e \in Seq(AllFiles)
      BY <1>1, <2>3
    <3> HIDE DEF e
    <3>2. (handed \o queue) \o e = handed \o (queue \o e)
      BY ONLY <3>1, ConcatAssociative, SMTT(30)
    <3> QED BY <3>2 DEF e
  <2>5. Out' = handed \o Append(queue, line + 1)
    BY <1>2 DEF Out
  <2> QED BY <2>1, <2>2, <2>4, <2>5 DEF Out
<1>5. /\ Out' \in Seq(AllFiles) /\ Len(Out') = Len(Out) + 1
      /\ \A k \in 1..Len(Out) : Out'[k] = Out[k]
      /\ Out'[Len(Out) + 1] = line + 1
  BY <1>2, <1>3, <1>4, AppendProperties
<1>6. OrderKept'
  <2> SUFFICES ASSUME NEW k \in DOMAIN Out' PROVE Out'[k] = Kth(k)
    BY DEF OrderKept, Out, Kth
  <2>1. k \in 1..(Len(Out) + 1)
    BY <1>5
  <2>2. CASE k \in 1..Len(Out)
    <3>1. k \in DOMAIN Out
      BY <1>3, <2>2
    <3>2. Out[k] = Kth(k)
      BY <3>1 DEF OrderInv, OrderKept, Out
    <3> QED BY <1>5, <2>2, <3>2
  <2>3. CASE k = Len(Out) + 1
    <3>1. Kth(k) = (Len(Out) % NFiles) + 1
      <4>1. k - 1 = Len(Out)
        BY <1>3, <2>3
      <4> QED BY <4>1 DEF Kth
    <3> QED BY <1>1, <1>5, <2>3, <3>1
  <2> QED BY <1>3, <2>1, <2>2, <2>3
<1>7. Len(Out') % NFiles = IF line' = NFiles THEN 0 ELSE line'
  BY <1>1, <1>2, <1>3, <1>5, ModNext
<1> QED BY <1>5, <1>6, <1>7

-----------------------------------------------------------------------------
(* The order.                                                              *)

LEMMA InitOrder == Init => OrderInv
<1> SUFFICES ASSUME Init PROVE OrderInv
  OBVIOUS
<1>1. Out = <<>> /\ Len(Out) = 0
  BY ConcatEmptySeq DEF Init, Out
<1>2. 0 % NFiles = 0
  OBVIOUS
<1>3. QueueType
  <2>1. <<>> \in Seq(AllFiles) /\ 0 \in 0..NFiles
    OBVIOUS
  <2>2. step \in [Callers -> Steps]
    BY DEF Init, Steps
  <2> QED BY <2>1, <2>2 DEF Init, QueueType
<1> QED BY <1>1, <1>2, <1>3 DEF Init, OrderInv, OrderKept, PassAligned, Out

LEMMA ReaderKeepsOrder ==
  ASSUME OrderInv, Reader, ~Insert
  PROVE  OrderInv'
<1>1. UNCHANGED <<queue, handed, step>>
  BY DEF Reader, PassBegins, RunCancelled, BadManifest, NextLine, Acquire, PushRefused, PassEnds,
         FailJob, Aborted, ReaderAt, queueVars, callVars
<1>2. Out' = Out
  BY <1>1 DEF Out
<1>3. QueueType' /\ PassAligned'
  <2> USE DEF OrderInv, QueueType, PassAligned, ReaderAt, queueVars, jobVars, callVars
  <2>1. CASE PassBegins
    BY <1>1, <1>2, <2>1 DEF PassBegins
  <2>2. CASE RunCancelled \/ BadManifest \/ PushRefused \/ Aborted
    BY <1>1, <1>2, <2>2 DEF RunCancelled, BadManifest, PushRefused, Aborted
  <2>3. CASE NextLine \/ Acquire
    BY <1>1, <1>2, <2>3 DEF NextLine, Acquire
  <2>4. CASE PassEnds
    BY <1>1, <1>2, <2>4 DEF PassEnds
  <2>5. CASE FailJob
    BY <1>1, <1>2, <2>5 DEF FailJob, Cleanup
  <2> QED BY <2>1, <2>2, <2>3, <2>4, <2>5 DEF Reader
<1> QED BY <1>2, <1>3, OutUntouched DEF OrderInv

LEMMA NextOrder == OrderInv /\ [Next]_vars => OrderInv'
<1> SUFFICES ASSUME OrderInv, [Next]_vars PROVE OrderInv'
  OBVIOUS
<1>1. CASE JobStarts \/ JobEnds
  <2>1. /\ UNCHANGED <<loop, queue, handed, step, reader, line, done>>
        /\ cancel' = cancel \/ cancel' = TRUE
        /\ open' = open \/ open' = FALSE
    BY <1>1 DEF JobStarts, JobEnds, Cleanup, queueVars, readerVars, callVars
  <2>2. Out' = Out
    BY <2>1 DEF Out
  <2>3. QueueType'
    BY <2>1 DEF OrderInv, QueueType
  <2>4. PassAligned'
    <3>1. CASE cancel' = cancel
      BY <2>1, <2>2, <3>1 DEF OrderInv, PassAligned
    <3>2. CASE cancel' = TRUE
      BY <2>1, <2>2, <3>2 DEF OrderInv, PassAligned
    <3> QED BY <2>1, <3>1, <3>2
  <2> QED BY <2>2, <2>3, <2>4, OutUntouched DEF OrderInv
<1>2. CASE Reader /\ ~Insert
  BY <1>2, ReaderKeepsOrder
<1>3. CASE Insert
  <2>1. QueueType'
    <3>1. /\ line \in 0..NFiles /\ line < NFiles
      BY <1>3 DEF OrderInv, QueueType, PassAligned, Insert, ReaderAt
    <3>2. line + 1 \in AllFiles
      BY <3>1 DEF AllFiles
    <3> QED BY <1>3, <3>1, <3>2, AppendProperties
            DEF OrderInv, QueueType, Insert, ReaderAt, jobVars, callVars
  <2>2. reader' = "reading"
    BY <1>3 DEF Insert, ReaderAt
  <2> QED BY <1>3, <2>1, <2>2, InsertAddsNext DEF OrderInv, PassAligned
<1>4. ASSUME NEW c \in Callers, Call(c) \/ StopFetching(c) PROVE OrderInv'
  <2>1. CASE Drain(c)
    <3>1. UNCHANGED <<jobVars, readerVars>>
      BY <2>1 DEF Drain, CallAt
    <3> QED BY <2>1, <3>1, DrainKeepsOut, CallKeepsOrder DEF OrderInv
  <2>2. CASE ~Drain(c)
    <3>1. QueueType' /\ UNCHANGED <<jobVars, readerVars, queue, handed>>
      BY <1>4, <2>2, OtherCallSteps DEF OrderInv
    <3>2. Out' = Out
      BY <3>1 DEF Out
    <3> QED BY <3>1, <3>2, CallKeepsOrder
  <2> QED BY <2>1, <2>2
<1>5. CASE UNCHANGED vars
  BY <1>5 DEF vars, jobVars, queueVars, readerVars, callVars, OrderInv, QueueType, OrderKept,
              PassAligned, Out, Kth
<1> QED BY <1>1, <1>2, <1>3, <1>4, <1>5 DEF Next, Reader

LEMMA OrderInvariance == Spec => []OrderInv
BY InitOrder, NextOrder, PTL DEF Spec

(* The files leave the queue in the order of the manifest, none twice and  *)
(* none skipped, whatever the interleaving of the calls that drain it.     *)
THEOREM OrderIsKept == Spec => []OrderKept
<1>1. OrderInv => OrderKept
  BY DEF OrderInv
<1> QED BY <1>1, OrderInvariance, PTL

-----------------------------------------------------------------------------
(* The end.                                                                *)

EndParts == FlagsMean /\ CallsMean

LEMMA InitEnd == Init => EndInv
<1> SUFFICES ASSUME Init PROVE EndInv
  OBVIOUS
<1>1. QueueType /\ PassAligned
  BY InitOrder DEF OrderInv
<1>2. FlagsMean /\ CallsMean
  BY DEF Init, FlagsMean, CallsMean
<1> QED BY <1>1, <1>2 DEF EndInv

LEMMA ReaderKeepsEnd ==
  ASSUME EndInv, Reader, ~Insert
  PROVE  EndParts'
<1> USE DEF EndInv, QueueType, PassAligned, ReaderAt, queueVars, jobVars, callVars
<1>1. UNCHANGED <<queue, handed, step>>
  BY DEF Reader, PassBegins, RunCancelled, BadManifest, NextLine, Acquire, PushRefused, PassEnds,
         FailJob, Aborted
<1>2. done => done'
  BY DEF Reader, PassBegins, RunCancelled, BadManifest, NextLine, Acquire, PushRefused, PassEnds,
         FailJob, Aborted, FlagsMean
<1>3. CallsMean'
  BY <1>1, <1>2 DEF CallsMean
<1>4. FlagsMean'
  <2>1. CASE PassBegins
    BY <1>1, <2>1 DEF PassBegins, FlagsMean
  <2>2. CASE RunCancelled \/ BadManifest \/ PushRefused \/ Aborted
    BY <1>1, <2>2 DEF RunCancelled, BadManifest, PushRefused, Aborted, FlagsMean
  <2>3. CASE NextLine \/ Acquire
    BY <1>1, <2>3 DEF NextLine, Acquire, FlagsMean
  <2>4. CASE PassEnds
    BY <1>1, <2>4 DEF PassEnds, FlagsMean
  <2>5. CASE FailJob
    BY <1>1, <2>5 DEF FailJob, Cleanup, FlagsMean
  <2> QED BY <2>1, <2>2, <2>3, <2>4, <2>5 DEF Reader
<1> QED BY <1>3, <1>4 DEF EndParts

(* Nothing is inserted once the reader is done.                            *)
LEMMA InsertKeepsEnd ==
  ASSUME EndInv, Insert
  PROVE  EndParts'
<1>1. /\ reader = "inserting" /\ reader' = "reading" /\ line' = line + 1 /\ handed' = handed
      /\ queue' = Append(queue, line + 1)
      /\ UNCHANGED <<loop, job, cancel, open, done, step>>
  BY DEF Insert, ReaderAt, jobVars, callVars
<1>2. line \in 0..NFiles /\ line < NFiles
  BY <1>1 DEF EndInv, QueueType, PassAligned
<1>3. Len(queue') = Len(queue) + 1 /\ Len(queue) \in Nat /\ Len(handed) \in Nat
  BY <1>1, <1>2, AppendProperties DEF EndInv, QueueType, AllFiles
<1>4. ~done
  BY <1>1 DEF EndInv, FlagsMean
<1>5. FlagsMean'
  BY <1>1, <1>2, <1>3, <1>4 DEF EndInv, FlagsMean
<1>6. CallsMean'
  BY <1>1, <1>4 DEF EndInv, CallsMean
<1> QED BY <1>5, <1>6 DEF EndParts

LEMMA DrainKeepsEnd ==
  ASSUME EndInv, NEW c \in Callers, Drain(c)
  PROVE  EndParts'
<1>1. /\ UNCHANGED <<jobVars, readerVars>> /\ queue' = Rest /\ handed' = handed \o Taken
      /\ step' = [step EXCEPT ![c] = IF queue = <<>> THEN "empty" ELSE "owing"]
  BY DEF Drain, CallAt
<1>2. queue \in Seq(AllFiles) /\ handed \in Seq(AllFiles) /\ step \in [Callers -> Steps]
  BY DEF EndInv, QueueType
<1>3. /\ Taken \in Seq(AllFiles) /\ Rest \in Seq(AllFiles)
      /\ Len(Taken) + Len(Rest) = Len(queue)
      /\ queue = <<>> => Rest = <<>>
  BY <1>2, DrainSplits
<1>4. Len(handed') + Len(queue') = Len(handed) + Len(queue)
  <2>1. Len(handed') = Len(handed) + Len(Taken)
    BY <1>1, <1>2, <1>3, ConcatProperties
  <2>2. Len(handed) \in Nat /\ Len(Taken) \in Nat /\ Len(Rest) \in Nat
    BY <1>2, <1>3
  <2>3. Len(queue') = Len(Rest)
    BY <1>1
  <2> QED BY <1>3, <2>1, <2>2, <2>3
<1>5. FlagsMean'
  BY <1>1, <1>4 DEF EndInv, FlagsMean, jobVars, readerVars
<1>6. CallsMean'
  <2> SUFFICES ASSUME NEW d \in Callers
               PROVE  /\ step'[d] = "checking" => done'
                      /\ step'[d] \in {"last", "exhausted"} => done' /\ queue' = <<>>
    BY DEF CallsMean
  <2>1. done' = done
    BY <1>1 DEF readerVars
  <2> QED BY <1>1, <1>2, <1>3, <2>1 DEF EndInv, CallsMean
<1> QED BY <1>5, <1>6 DEF EndParts

(* A call comes to an end of its own only over the flag and the queue.     *)
LEMMA OtherCallsKeepEnd ==
  ASSUME EndInv, NEW c \in Callers, Call(c) \/ StopFetching(c), ~Drain(c)
  PROVE  EndParts'
<1>1. UNCHANGED <<jobVars, readerVars, queue, handed>>
  BY OtherCallSteps DEF EndInv
<1>2. FlagsMean'
  BY <1>1 DEF EndInv, FlagsMean, jobVars, readerVars
<1>3. \A d \in Callers \ {c} : step'[d] = step[d]
  BY DEF EndInv, QueueType, Call, StopFetching, Admit, GiveBack, LookDone, LookEmpty, Replied,
         ReplyLost, CallAt
<1>4. /\ step'[c] = "checking" => done
      /\ step'[c] \in {"last", "exhausted"} => done /\ queue = <<>>
  <2> USE DEF EndInv, QueueType, CallsMean, CallAt
  <2>1. CASE Admit(c) \/ GiveBack(c) \/ StopFetching(c)
    BY <2>1 DEF Admit, GiveBack, StopFetching
  <2>2. CASE LookDone(c) \/ LookEmpty(c)
    BY <2>2 DEF LookDone, LookEmpty, FinishedNow
  <2>3. CASE Replied(c) \/ ReplyLost(c)
    BY <2>3 DEF Replied, ReplyLost
  <2> QED BY <2>1, <2>2, <2>3 DEF Call
<1>5. CallsMean'
  <2>1. done' = done /\ queue' = queue
    BY <1>1 DEF readerVars
  <2> QED BY <1>3, <1>4, <2>1 DEF EndInv, CallsMean
<1> QED BY <1>2, <1>5 DEF EndParts

LEMMA NextEnd == OrderInv' /\ EndInv /\ [Next]_vars => EndInv'
<1> SUFFICES ASSUME OrderInv', EndInv, [Next]_vars PROVE EndParts'
  BY DEF OrderInv, EndInv, EndParts
<1>1. CASE JobStarts
  BY <1>1 DEF JobStarts, queueVars, readerVars, callVars, EndInv, EndParts, FlagsMean, CallsMean
<1>2. CASE JobEnds
  BY <1>2 DEF JobEnds, Cleanup, queueVars, readerVars, callVars, EndInv, EndParts, FlagsMean,
              CallsMean
<1>3. CASE Reader /\ ~Insert
  BY <1>3, ReaderKeepsEnd
<1>4. CASE Insert
  BY <1>4, InsertKeepsEnd
<1>5. ASSUME NEW c \in Callers, Call(c) \/ StopFetching(c) PROVE EndParts'
  BY <1>5, DrainKeepsEnd, OtherCallsKeepEnd
<1>6. CASE UNCHANGED vars
  BY <1>6 DEF vars, jobVars, queueVars, readerVars, callVars, EndInv, EndParts, FlagsMean, CallsMean
<1> QED BY <1>1, <1>2, <1>3, <1>4, <1>5, <1>6 DEF Next, Reader

(* While the job lives no caller is told that nothing is left before every *)
(* file was handed out, wherever between batch, flag and queue it looked.  *)
THEOREM EndIsTrue == Spec => []ExhaustedIsTrue
<1>1. EndInv => ExhaustedIsTrue
  <2> SUFFICES ASSUME EndInv, ~cancel,
                      NEW c \in Callers, step[c] \in {"last", "exhausted"}
               PROVE  ~loop /\ Len(handed) = NFiles /\ queue = <<>>
    BY DEF ExhaustedIsTrue
  <2>1. done /\ queue = <<>> /\ Len(queue) = 0
    BY DEF EndInv, CallsMean
  <2>2. ~loop /\ line = NFiles /\ Len(handed) + Len(queue) = line
    BY <2>1 DEF EndInv, FlagsMean
  <2>3. Len(handed) \in Nat
    BY DEF EndInv, QueueType
  <2> QED BY <2>1, <2>2, <2>3
<1> QED BY <1>1, InitEnd, NextEnd, OrderInvariance, PTL DEF Spec

-----------------------------------------------------------------------------
(* The slots.                                                              *)

CallType ==
  /\ got \in [Callers -> Seq(AllFiles)]
  /\ \A c \in Callers : step[c] = "owing" => Len(got[c]) <= Batch

ReaderType ==
  /\ job \in {"preparing", "running", "over", "cancelled"}
  /\ reader \in {"top", "reading", "pushing", "inserting", "failing", "ended"}
  /\ pass \in 0..MaxPasses
  /\ reader \in {"reading", "pushing", "inserting"} => pass < MaxPasses

SlotInv == CallType /\ ReaderType /\ permits \in Nat /\ SlotsConserved

(* Two sets of pairs are one when they hold the same pairs.                *)
LEMMA SamePairs ==
  ASSUME NEW A, NEW B, NEW S, NEW T, S \subseteq A \X B, T \subseteq A \X B,
         \A a \in A, b \in B : <<a, b>> \in S <=> <<a, b>> \in T
  PROVE  S = T
<1>1. ASSUME NEW o \in A \X B PROVE o \in S <=> o \in T
  <2>1. PICK a \in A, b \in B : o = <<a, b>>
    OBVIOUS
  <2> QED BY <2>1
<1> QED BY <1>1, Zenon

LEMMA OwingFinite == IsFiniteSet(Owing) /\ Cardinality(Owing) \in Nat
<1>1. IsFiniteSet(1..Batch)
  BY FS_Interval
<1>2. IsFiniteSet(Callers \X (1..Batch))
  BY <1>1, FS_Product
<1>3. Owing \in SUBSET (Callers \X (1..Batch))
  BY DEF Owing
<1>4. IsFiniteSet(Owing)
  BY <1>2, <1>3, FS_Subset, Zenon
<1> QED BY <1>4, FS_CardinalityType, Zenon

(* The slots of one caller beside those of the others.                     *)
LEMMA OneMoreOwes ==
  ASSUME NEW S, NEW T, NEW c, NEW n \in Nat, IsFiniteSet(S),
         \A o \in S : o[1] # c,
         T = S \cup ({c} \X (1..n))
  PROVE  IsFiniteSet(T) /\ Cardinality(T) = Cardinality(S) + n
<1> DEFINE C == {c} \X (1..n)
<1>1. IsFiniteSet({c}) /\ Cardinality({c}) = 1
  BY FS_Singleton
<1>2. IsFiniteSet(1..n) /\ Cardinality(1..n) = n
  <2>1. 1 \in Int /\ n \in Int
    OBVIOUS
  <2>2. IsFiniteSet(1..n) /\ Cardinality(1..n) = IF 1 > n THEN 0 ELSE n - 1 + 1
    BY <2>1, FS_Interval, Zenon
  <2> QED BY <2>2
<1>3. IsFiniteSet(C) /\ Cardinality(C) = 1 * n
  BY <1>1, <1>2, FS_Product, ZenonT(40)
<1>4. S \cap C = {}
  BY DEF C
<1> HIDE DEF C
<1>5. Cardinality(S \cap C) = 0
  BY <1>4, FS_EmptySet
<1>6. Cardinality(S) \in Nat
  BY FS_CardinalityType
<1>7. /\ IsFiniteSet(S \cup C)
      /\ Cardinality(S \cup C) = Cardinality(S) + Cardinality(C) - Cardinality(S \cap C)
  BY <1>3, FS_Union
<1>8. T = S \cup C
  BY DEF C
<1>9. Cardinality(S \cup C) = Cardinality(S) + n
  BY ONLY <1>3, <1>5, <1>6, <1>7, n \in Nat
<1> QED BY <1>7, <1>8, <1>9, Zenon

(* A batch is never longer than it may be.                                 *)
LEMMA TakenBounded ==
  ASSUME queue \in Seq(AllFiles)
  PROVE  Len(Taken) \in Nat /\ Len(Taken) <= Batch /\ (queue = <<>> => Len(Taken) = 0)
<1> DEFINE m == Min({Batch, Len(queue)})
<1>1. m \in 0..Len(queue) /\ m <= Batch
  <2>1. \E x \in {Batch, Len(queue)} : \A y \in {Batch, Len(queue)} : x <= y
    OBVIOUS
  <2>2. m \in {Batch, Len(queue)} /\ \A y \in {Batch, Len(queue)} : m <= y
    BY <2>1 DEF Min
  <2> QED BY <2>2
<1> HIDE DEF m
<1>2. Taken = SubSeq(queue, 1, m)
  BY DEF Taken, m
<1>3. Len(Taken) = m
  BY <1>1, <1>2, SubSeqProperties
<1>4. queue = <<>> => Len(queue) = 0
  OBVIOUS
<1> QED BY <1>1, <1>3, <1>4

-----------------------------------------------------------------------------
(* Each step moves a slot from one place to another.                       *)

LEMMA OwingUntouched ==
  ASSUME UNCHANGED <<step, got>>
  PROVE  Owing' = Owing
BY DEF Owing

LEMMA CallTypeUntouched ==
  ASSUME CallType, UNCHANGED <<step, got>>
  PROVE  CallType'
BY DEF CallType

LEMMA DrainOwes ==
  ASSUME QueueType, SlotInv, NEW c \in Callers, Drain(c)
  PROVE  CallType' /\ SlotsConserved'
<1>1. /\ step[c] = "draining" /\ UNCHANGED <<readerVars, permits>>
      /\ step' = [step EXCEPT ![c] = IF queue = <<>> THEN "empty" ELSE "owing"]
      /\ got' = [got EXCEPT ![c] = Taken] /\ queue' = Rest
  BY DEF Drain, CallAt
<1>2. queue \in Seq(AllFiles) /\ step \in [Callers -> Steps] /\ got \in [Callers -> Seq(AllFiles)]
  BY DEF QueueType, SlotInv, CallType
<1>3. Taken \in Seq(AllFiles) /\ Len(Taken) + Len(Rest) = Len(queue) /\ Rest \in Seq(AllFiles)
  BY <1>2, DrainSplits
<1>4. Len(Taken) \in Nat /\ Len(Taken) <= Batch /\ (queue = <<>> => Len(Taken) = 0)
  BY <1>2, TakenBounded
<1>5. /\ got'[c] = Taken
      /\ step'[c] = IF queue = <<>> THEN "empty" ELSE "owing"
      /\ \A d \in Callers \ {c} : got'[d] = got[d] /\ step'[d] = step[d]
  BY <1>1, <1>2
<1>6. CallType'
  BY <1>1, <1>2, <1>3, <1>4, <1>5 DEF SlotInv, CallType
<1> DEFINE n == Len(Taken)
<1>7. Owing' = Owing \cup ({c} \X (1..n))
  <2>1. Owing' = {o \in Callers \X (1..Batch) : step'[o[1]] = "owing" /\ o[2] <= Len(got'[o[1]])}
    BY DEF Owing
  <2>2. ASSUME NEW d \in Callers, NEW i \in 1..Batch
        PROVE  <<d, i>> \in Owing' <=> <<d, i>> \in Owing \/ (d = c /\ i \in 1..n)
    <3>1. CASE d = c
      BY <1>1, <1>4, <1>5, <2>1, <3>1 DEF Owing
    <3>2. CASE d # c
      BY <1>5, <2>1, <3>2 DEF Owing
    <3> QED BY <3>1, <3>2
  <2>3. \A i \in 1..n : i \in 1..Batch
    BY <1>4
  <2>4. Owing \subseteq Callers \X (1..Batch) /\ Owing' \subseteq Callers \X (1..Batch)
        /\ {c} \X (1..n) \subseteq Callers \X (1..Batch)
    BY <2>1, <2>3 DEF Owing
  <2>5. ASSUME NEW d \in Callers, NEW i \in 1..Batch
        PROVE  <<d, i>> \in Owing' <=> <<d, i>> \in Owing \cup ({c} \X (1..n))
    <3>1. <<d, i>> \in {c} \X (1..n) <=> d = c /\ i \in 1..n
      OBVIOUS
    <3> QED BY <2>2, <3>1
  <2>6. Owing \cup ({c} \X (1..n)) \subseteq Callers \X (1..Batch)
    BY <2>4, Zenon
  <2> HIDE DEF n
  <2> QED BY <2>4, <2>5, <2>6, SamePairs, SMTT(30)
<1>8. \A o \in Owing : o[1] # c
  BY <1>1 DEF Owing
<1>9. Cardinality(Owing') = Cardinality(Owing) + n
  <2> HIDE DEF n
  <2>1. n \in Nat
    BY <1>4 DEF n
  <2> QED BY <1>7, <1>8, <2>1, OwingFinite, OneMoreOwes, ZenonT(60)
<1>10. Cardinality(Owing) \in Nat /\ Len(Rest) \in Nat
  BY <1>3, OwingFinite
<1>11. Len(queue') = Len(Rest) /\ permits' = permits /\ reader' = reader
  BY <1>1 DEF readerVars
<1>12. permits + Len(queue) + (IF reader = "inserting" THEN 1 ELSE 0) + Cardinality(Owing) = Capacity
  BY DEF SlotInv, SlotsConserved
<1>13. permits' + Len(queue') + (IF reader' = "inserting" THEN 1 ELSE 0) + Cardinality(Owing') = Capacity
  <2>1. permits \in Nat /\ Len(queue) \in Nat /\ Len(queue) = n + Len(Rest) /\ n \in Nat
    BY <1>3, <1>4, <1>10 DEF SlotInv
  <2> HIDE DEF n
  <2> QED BY <1>9, <1>10, <1>11, <1>12, <2>1
<1> QED BY <1>6, <1>13 DEF SlotsConserved

LEMMA GiveBackPays ==
  ASSUME QueueType, SlotInv, NEW c \in Callers, GiveBack(c)
  PROVE  CallType' /\ permits' \in Nat /\ SlotsConserved'
<1>1. /\ step[c] = "owing" /\ UNCHANGED <<readerVars, queue, got>>
      /\ step' = [step EXCEPT ![c] = "more"]
      /\ permits' = permits + Len(got[c])
  BY DEF GiveBack, CallAt, Owed
<1>2. step \in [Callers -> Steps] /\ got \in [Callers -> Seq(AllFiles)]
  BY DEF QueueType, SlotInv, CallType
<1>3. step'[c] = "more" /\ \A d \in Callers \ {c} : step'[d] = step[d]
  BY <1>1, <1>2
<1>4. CallType'
  BY <1>1, <1>2, <1>3 DEF SlotInv, CallType
<1> DEFINE n == Len(got[c])
<1>5. n \in Nat /\ n <= Batch
  BY <1>1, <1>2 DEF SlotInv, CallType
<1>6. Owing = Owing' \cup ({c} \X (1..n))
  <2>1. Owing' = {o \in Callers \X (1..Batch) : step'[o[1]] = "owing" /\ o[2] <= Len(got[o[1]])}
    BY <1>1 DEF Owing
  <2>2. ASSUME NEW d \in Callers, NEW i \in 1..Batch
        PROVE  <<d, i>> \in Owing <=> <<d, i>> \in Owing' \/ (d = c /\ i \in 1..n)
    <3>1. CASE d = c
      BY <1>1, <1>3, <1>5, <2>1, <3>1 DEF Owing
    <3>2. CASE d # c
      BY <1>3, <2>1, <3>2 DEF Owing
    <3> QED BY <3>1, <3>2
  <2>3. \A i \in 1..n : i \in 1..Batch
    BY <1>5
  <2>4. Owing \subseteq Callers \X (1..Batch) /\ Owing' \subseteq Callers \X (1..Batch)
        /\ {c} \X (1..n) \subseteq Callers \X (1..Batch)
    BY <2>1, <2>3 DEF Owing
  <2>5. ASSUME NEW d \in Callers, NEW i \in 1..Batch
        PROVE  <<d, i>> \in Owing <=> <<d, i>> \in Owing' \cup ({c} \X (1..n))
    <3>1. <<d, i>> \in {c} \X (1..n) <=> d = c /\ i \in 1..n
      OBVIOUS
    <3> QED BY <2>2, <3>1
  <2>6. Owing' \cup ({c} \X (1..n)) \subseteq Callers \X (1..Batch)
    BY <2>4, Zenon
  <2> HIDE DEF n
  <2> QED BY <2>4, <2>5, <2>6, SamePairs, SMTT(30)
<1>7. \A o \in Owing' : o[1] # c
  <2>1. Owing' = {o \in Callers \X (1..Batch) : step'[o[1]] = "owing" /\ o[2] <= Len(got[o[1]])}
    BY <1>1 DEF Owing
  <2> QED BY <1>3, <2>1
<1>8. IsFiniteSet(Owing')
  <2>1. Owing' \in SUBSET Owing
    BY <1>6
  <2> QED BY <2>1, OwingFinite, FS_Subset, Zenon
<1> HIDE DEF n
<1>9. Cardinality(Owing) = Cardinality(Owing') + n
  BY <1>5, <1>6, <1>7, <1>8, OneMoreOwes, ZenonT(30)
<1>10. Cardinality(Owing') \in Nat /\ permits \in Nat /\ Len(queue) \in Nat
  BY <1>8, FS_CardinalityType DEF SlotInv, QueueType
<1>11. queue' = queue /\ permits' = permits + n /\ reader' = reader
  BY <1>1 DEF readerVars, n
<1>12. permits + Len(queue) + (IF reader = "inserting" THEN 1 ELSE 0) + Cardinality(Owing) = Capacity
  BY DEF SlotInv, SlotsConserved
<1>13. permits' + Len(queue') + (IF reader' = "inserting" THEN 1 ELSE 0) + Cardinality(Owing') = Capacity
  BY <1>5, <1>9, <1>10, <1>11, <1>12
<1> QED BY <1>4, <1>5, <1>10, <1>11, <1>13 DEF SlotsConserved

(* The other halves of a call neither take nor give back a slot.           *)
LEMMA OtherCallsOwe ==
  ASSUME QueueType, SlotInv, NEW c \in Callers, Call(c) \/ StopFetching(c), ~Drain(c), ~GiveBack(c)
  PROVE  CallType' /\ permits' \in Nat /\ SlotsConserved'
<1>1. UNCHANGED <<permits, queue, reader>>
  BY DEF Call, StopFetching, Admit, LookDone, LookEmpty, Replied, ReplyLost, CallAt, queueVars,
         readerVars
<1>2. /\ step[c] # "owing" /\ step'[c] # "owing"
      /\ \A d \in Callers \ {c} : step'[d] = step[d] /\ got'[d] = got[d]
      /\ got' \in [Callers -> Seq(AllFiles)]
  <2>1. step \in [Callers -> Steps] /\ got \in [Callers -> Seq(AllFiles)]
    BY DEF QueueType, SlotInv, CallType
  <2>2. CASE Admit(c) \/ StopFetching(c)
    BY <2>1, <2>2 DEF Admit, StopFetching, CallAt
  <2>3. CASE LookDone(c) \/ LookEmpty(c)
    BY <2>1, <2>3 DEF LookDone, LookEmpty, CallAt
  <2>4. CASE Replied(c) \/ ReplyLost(c)
    <3>1. <<>> \in Seq(AllFiles)
      OBVIOUS
    <3> QED BY <2>1, <2>4, <3>1 DEF Replied, ReplyLost, CallAt
  <2> QED BY <2>2, <2>3, <2>4 DEF Call
<1>3. CallType'
  BY <1>2 DEF SlotInv, CallType
<1>4. Owing' = Owing
  <2>1. Owing' = {o \in Callers \X (1..Batch) : step'[o[1]] = "owing" /\ o[2] <= Len(got'[o[1]])}
    BY DEF Owing
  <2>2. \A d \in Callers : (step'[d] = "owing" <=> step[d] = "owing")
                             /\ (step[d] = "owing" => got'[d] = got[d])
    BY <1>2
  <2> QED BY <2>1, <2>2 DEF Owing
<1>5. permits' \in Nat /\ SlotsConserved
  BY <1>1 DEF SlotInv
<1>6. permits' + Len(queue') + (IF reader' = "inserting" THEN 1 ELSE 0) + Cardinality(Owing') = Capacity
  BY <1>1, <1>4, <1>5 DEF SlotsConserved
<1> QED BY <1>3, <1>5, <1>6 DEF SlotsConserved

(* A job that starts or ends moves no slot.                                *)
LEMMA JobKeepsSlots ==
  ASSUME SlotInv, JobStarts \/ JobEnds
  PROVE  SlotInv'
<1>1. UNCHANGED <<permits, queue, reader, pass, step, got>> /\ job' \in {"running", "over", "cancelled"}
  BY DEF JobStarts, JobEnds, queueVars, readerVars, callVars
<1>2. CallType' /\ ReaderType'
  BY <1>1 DEF SlotInv, CallType, ReaderType
<1>3. Owing' = Owing
  BY <1>1, OwingUntouched
<1>4. permits' + Len(queue') + (IF reader' = "inserting" THEN 1 ELSE 0) + Cardinality(Owing') = Capacity
  BY <1>1, <1>3 DEF SlotInv, SlotsConserved
<1> QED BY <1>1, <1>2, <1>4 DEF SlotInv, SlotsConserved

LEMMA ReaderKeepsSlots ==
  ASSUME QueueType, PassAligned, SlotInv, Reader
  PROVE  SlotInv'
<1>1. UNCHANGED <<step, got>>
  BY DEF Reader, PassBegins, RunCancelled, BadManifest, NextLine, Acquire, PushRefused, Insert, PassEnds,
         FailJob, Aborted, ReaderAt, callVars
<1>2. CallType' /\ Owing' = Owing
  BY <1>1, OwingUntouched, CallTypeUntouched DEF SlotInv
<1>3. ReaderType'
  <2> USE DEF SlotInv, ReaderType, ReaderAt, jobVars
  <2>1. CASE PassBegins \/ RunCancelled \/ BadManifest \/ PushRefused \/ Aborted
    BY <2>1 DEF PassBegins, RunCancelled, BadManifest, PushRefused, Aborted
  <2>2. CASE NextLine \/ Acquire \/ Insert
    BY <2>2 DEF NextLine, Acquire, Insert
  <2>3. CASE PassEnds
    BY <2>3 DEF PassEnds
  <2>4. CASE FailJob
    BY <2>4 DEF FailJob
  <2> QED BY <2>1, <2>2, <2>3, <2>4 DEF Reader
<1>4. /\ permits' \in Nat
      /\ permits' + Len(queue') + (IF reader' = "inserting" THEN 1 ELSE 0)
           = permits + Len(queue) + (IF reader = "inserting" THEN 1 ELSE 0)
  <2>1. permits \in Nat /\ queue \in Seq(AllFiles) /\ Len(queue) \in Nat
    BY DEF SlotInv, QueueType
  <2>2. CASE Acquire
    BY <2>1, <2>2 DEF Acquire, SlotFree, ReaderAt
  <2>3. CASE Insert
    <3>1. reader = "inserting" /\ reader' = "reading" /\ permits' = permits
          /\ queue' = Append(queue, line + 1)
      BY <2>3 DEF Insert, ReaderAt
    <3>2. line + 1 \in AllFiles
      BY <3>1 DEF PassAligned, QueueType, AllFiles
    <3>3. Len(queue') = Len(queue) + 1
      BY <2>1, <3>1, <3>2, AppendProperties
    <3> QED BY <2>1, <3>1, <3>3
  <2>4. CASE Reader /\ ~Acquire /\ ~Insert
    <3>1. UNCHANGED <<permits, queue>> /\ reader # "inserting" /\ reader' # "inserting"
      BY <2>4 DEF Reader, PassBegins, RunCancelled, BadManifest, NextLine, PushRefused, PassEnds,
                  FailJob, Aborted, ReaderAt, queueVars
    <3> QED BY <2>1, <3>1
  <2> QED BY <2>2, <2>3, <2>4
<1>5. permits' + Len(queue') + (IF reader' = "inserting" THEN 1 ELSE 0) + Cardinality(Owing') = Capacity
  BY <1>2, <1>4 DEF SlotInv, SlotsConserved
<1> QED BY <1>2, <1>3, <1>4, <1>5 DEF SlotInv, SlotsConserved

LEMMA CallKeepsSlots ==
  ASSUME QueueType, SlotInv, NEW c \in Callers, Call(c) \/ StopFetching(c)
  PROVE  SlotInv'
<1>1. ReaderType'
  <2>1. UNCHANGED <<job, reader, pass>>
    BY DEF Call, StopFetching, Admit, Drain, GiveBack, LookDone, LookEmpty, Replied, ReplyLost,
           CallAt, jobVars, readerVars
  <2> QED BY <2>1 DEF SlotInv, ReaderType
<1>2. CASE Drain(c)
  <2>1. permits' = permits
    BY <1>2 DEF Drain
  <2> QED BY <1>1, <1>2, <2>1, DrainOwes DEF SlotInv
<1>3. CASE GiveBack(c)
  BY <1>1, <1>3, GiveBackPays DEF SlotInv
<1>4. CASE ~Drain(c) /\ ~GiveBack(c)
  BY <1>1, <1>4, OtherCallsOwe DEF SlotInv
<1> QED BY <1>2, <1>3, <1>4

LEMMA InitSlots == Init => SlotInv
<1> SUFFICES ASSUME Init PROVE SlotInv
  OBVIOUS
<1>1. CallType /\ ReaderType
  BY DEF Init, CallType, ReaderType
<1>2. Owing = {}
  BY DEF Init, Owing
<1>3. Cardinality(Owing) = 0
  BY <1>2, FS_EmptySet
<1>4. Len(queue) = 0 /\ permits = Capacity /\ reader = "top"
  BY DEF Init
<1> QED BY <1>1, <1>3, <1>4 DEF SlotInv, SlotsConserved

LEMMA NextSlots == OrderInv /\ SlotInv /\ [Next]_vars => SlotInv'
<1> SUFFICES ASSUME OrderInv, SlotInv, [Next]_vars PROVE SlotInv'
  OBVIOUS
<1>1. QueueType /\ PassAligned
  BY DEF OrderInv
<1>2. CASE JobStarts \/ JobEnds
  BY <1>2, JobKeepsSlots
<1>3. CASE Reader
  BY <1>1, <1>3, ReaderKeepsSlots
<1>4. ASSUME NEW c \in Callers, Call(c) \/ StopFetching(c) PROVE SlotInv'
  BY <1>1, <1>4, CallKeepsSlots
<1>5. CASE UNCHANGED vars
  <2>1. UNCHANGED <<job, permits, queue, reader, pass, step, got>>
    BY <1>5 DEF vars, jobVars, queueVars, readerVars, callVars
  <2>2. CallType' /\ ReaderType' /\ Owing' = Owing
    BY <2>1, OwingUntouched, CallTypeUntouched DEF SlotInv, ReaderType
  <2>3. permits' + Len(queue') + (IF reader' = "inserting" THEN 1 ELSE 0) + Cardinality(Owing') = Capacity
    BY <2>1, <2>2 DEF SlotInv, SlotsConserved
  <2> QED BY <2>1, <2>2, <2>3 DEF SlotInv, SlotsConserved
<1> QED BY <1>2, <1>3, <1>4, <1>5 DEF Next

(* No slot is lost or made up between the halves of the pushes and of the  *)
(* drains: the queue never outgrows its capacity, and every permit that    *)
(* was taken for a file comes back once the file has left.                 *)
THEOREM QueueIsOK == Spec => []QueueOK
<1>1. OrderInv /\ SlotInv => QueueOK
  <2> SUFFICES ASSUME OrderInv, SlotInv PROVE QueueOK
    OBVIOUS
  <2>1. Cardinality(Owing) \in Nat
    BY OwingFinite
  <2>2. permits \in 0..Capacity /\ Len(queue) <= Capacity
    BY <2>1 DEF SlotInv, SlotsConserved, OrderInv, QueueType
  <2> QED BY <2>2 DEF QueueOK, TypeOK, OrderInv, QueueType, SlotInv, CallType, ReaderType
<1> QED BY <1>1, OrderInvariance, InitSlots, NextSlots, PTL DEF Spec

-----------------------------------------------------------------------------
(* The feed.                                                               *)

(* A caller holds files only between its drain and its reply.              *)
HandsOK == \A c \in Callers : step[c] \notin {"owing", "more"} => got[c] = <<>>

LEMMA NextHands == CallType /\ QueueType /\ HandsOK /\ [Next]_vars => HandsOK'
<1> SUFFICES ASSUME CallType, QueueType, HandsOK, [Next]_vars PROVE HandsOK'
  OBVIOUS
<1>1. CASE UNCHANGED <<step, got>>
  BY <1>1 DEF HandsOK
<1>2. ASSUME JobStarts \/ JobEnds \/ Reader \/ UNCHANGED vars PROVE UNCHANGED <<step, got>>
  BY <1>2 DEF JobStarts, JobEnds, Reader, PassBegins, RunCancelled, BadManifest, NextLine, Acquire,
              PushRefused, Insert, PassEnds, FailJob, Aborted, ReaderAt, callVars, vars
<1>3. ASSUME NEW c \in Callers, Drain(c) PROVE HandsOK'
  <2>1. /\ step' = [step EXCEPT ![c] = IF queue = <<>> THEN "empty" ELSE "owing"]
        /\ got' = [got EXCEPT ![c] = Taken]
    BY <1>3 DEF Drain, CallAt
  <2>2. queue = <<>> => Taken = <<>>
    <3>1. queue \in Seq(AllFiles)
      BY DEF QueueType
    <3>2. queue = <<>> => Taken \in Seq(AllFiles) /\ Len(Taken) = 0
      BY <3>1, TakenBounded, DrainSplits
    <3> QED BY <3>2, EmptySeq
  <2> QED BY <2>1, <2>2 DEF HandsOK, CallType, QueueType
<1>4. ASSUME NEW c \in Callers, Replied(c) \/ ReplyLost(c) PROVE HandsOK'
  <2>1. got' = [got EXCEPT ![c] = <<>>] /\ \A b \in Callers \ {c} : step'[b] = step[b]
    BY <1>4 DEF Replied, ReplyLost, CallAt, QueueType
  <2> QED BY <2>1 DEF HandsOK, CallType
<1>5. ASSUME NEW c \in Callers, Admit(c) \/ GiveBack(c) \/ LookDone(c) \/ LookEmpty(c) \/ StopFetching(c)
      PROVE  HandsOK'
  <2>1. /\ got' = got
        /\ \A b \in Callers \ {c} : step'[b] = step[b]
        /\ step[c] \in {"owing", "more"} => step'[c] \in {"owing", "more"}
    BY <1>5 DEF Admit, GiveBack, LookDone, LookEmpty, StopFetching, CallAt, QueueType
  <2> QED BY <2>1 DEF HandsOK
<1> QED BY <1>1, <1>2, <1>3, <1>4, <1>5 DEF Next, Call

(* What a drain takes are the next files of the manifest.                  *)
LEMMA DrainTakesNext ==
  ASSUME OrderInv, queue # <<>>
  PROVE  /\ Len(Taken) \in 1..Batch /\ Len(Taken) <= Len(queue)
         /\ Taken = [i \in 1..Len(Taken) |-> Feed!File(Len(handed) + i)]
<1>1. queue \in Seq(AllFiles) /\ handed \in Seq(AllFiles)
  BY DEF OrderInv, QueueType
<1> DEFINE m == Min({Batch, Len(queue)})
<1>2. m \in 1..Len(queue) /\ m <= Batch
  <2>1. \E x \in {Batch, Len(queue)} : \A y \in {Batch, Len(queue)} : x <= y
    BY <1>1
  <2>2. m \in {Batch, Len(queue)} /\ \A y \in {Batch, Len(queue)} : m <= y
    BY <2>1 DEF Min
  <2>3. Len(queue) \in Nat \ {0}
    BY <1>1, EmptySeq
  <2> QED BY <2>2, <2>3
<1> HIDE DEF m
<1>3. Taken = SubSeq(queue, 1, m)
  BY DEF Taken, m
<1>4. Taken \in Seq(AllFiles) /\ Len(Taken) = m /\ \A i \in 1..m : Taken[i] = queue[i]
  BY <1>1, <1>2, <1>3, SubSeqProperties
<1>5. ASSUME NEW i \in 1..m PROVE queue[i] = Feed!File(Len(handed) + i)
  <2>1. /\ Len(handed \o queue) = Len(handed) + Len(queue)
        /\ \A k \in 1..Len(queue) : (handed \o queue)[Len(handed) + k] = queue[k]
        /\ handed \o queue \in Seq(AllFiles)
    BY <1>1, ConcatProperties
  <2>2. i \in 1..Len(queue) /\ Len(handed) + i \in DOMAIN (handed \o queue)
    BY <1>1, <1>2, <2>1
  <2>3. (handed \o queue)[Len(handed) + i] = Kth(Len(handed) + i)
    BY <2>2 DEF OrderInv, OrderKept
  <2> QED BY <2>1, <2>2, <2>3 DEF Kth, Feed!File
<1> DEFINE F == [i \in 1..Len(Taken) |-> Feed!File(Len(handed) + i)]
<1>6. Taken = [i \in 1..Len(Taken) |-> Taken[i]]
  BY <1>4
<1>7. \A i \in 1..Len(Taken) : Taken[i] = Feed!File(Len(handed) + i)
  BY <1>4, <1>5
<1>8. Taken = F
  BY <1>6, <1>7
<1> QED BY <1>2, <1>4, <1>8

LEMMA DrainFeeds ==
  ASSUME OrderInv, EndInv, CallType, HandsOK, NEW c \in Callers, Drain(c)
  PROVE  [Feed!Next]_Feed!vars
<1>1. /\ step[c] = "draining" /\ got[c] = <<>>
      /\ UNCHANGED <<loop, cancel>> /\ handed' = handed \o Taken /\ got' = [got EXCEPT ![c] = Taken]
      /\ step' = [step EXCEPT ![c] = IF queue = <<>> THEN "empty" ELSE "owing"]
  BY DEF Drain, CallAt, jobVars, HandsOK
<1>2. Told' = Told
  BY <1>1 DEF Told, EndInv, QueueType
<1>3. queue \in Seq(AllFiles) /\ handed \in Seq(AllFiles) /\ Taken \in Seq(AllFiles)
  BY DrainSplits DEF OrderInv, QueueType
<1>4. Len(handed') = Len(handed) + Len(Taken)
  BY <1>1, <1>3, ConcatProperties
<1>5. CASE queue = <<>>
  <2>1. Taken = <<>> /\ Len(Taken) = 0
    BY <1>3, <1>5, TakenBounded, EmptySeq
  <2>2. got' = got
    BY <1>1, <2>1 DEF CallType
  <2>3. Len(handed') = Len(handed)
    BY <1>3, <1>4, <2>1
  <2> QED BY <1>1, <1>2, <2>2, <2>3 DEF Feed!vars
<1>6. CASE queue # <<>>
  <2> DEFINE n == Len(Taken)
  <2>1. /\ n \in 1..Batch /\ n <= Len(queue)
        /\ Taken = [i \in 1..n |-> Feed!File(Len(handed) + i)]
    BY <1>6, DrainTakesNext
  <2>2. Told = {}
    BY <1>6 DEF Told, EndInv, CallsMean
  <2>3. ~loop => Len(handed) + n <= NFiles
    <3>1. line <= NFiles /\ (~loop => Len(handed) + Len(queue) = line) /\ line \in Nat
      BY DEF EndInv, FlagsMean, QueueType
    <3>2. Len(handed) \in Nat /\ Len(queue) \in Nat /\ n \in Nat
      BY <1>3
    <3> QED BY <2>1, <3>1, <3>2
  <2>4. Feed!Give(c, n)
    <3>1. got' = [got EXCEPT ![c] = [i \in 1..n |-> Feed!File(Len(handed) + i)]]
      BY <1>1, <2>1
    <3> HIDE DEF n
    <3> QED BY <1>1, <1>2, <1>4, <2>2, <2>3, <3>1 DEF Feed!Give, n
  <2> QED BY <2>1, <2>4 DEF Feed!Next
<1> QED BY <1>5, <1>6

LEMMA LookEmptyFeeds ==
  ASSUME EndInv, CallType, HandsOK, NEW c \in Callers, LookEmpty(c)
  PROVE  [Feed!Next]_Feed!vars
<1>1. /\ step[c] = "checking" /\ got[c] = <<>> /\ UNCHANGED <<loop, cancel, handed, got, queue>>
      /\ step' = [step EXCEPT ![c] = IF queue = <<>> THEN "last" ELSE "more"]
  BY DEF LookEmpty, CallAt, FinishedNow, jobVars, queueVars, HandsOK
<1>2. CASE queue = <<>>
  <2>1. Told' = Told \cup {c}
    BY <1>1, <1>2 DEF Told, EndInv, QueueType
  <2>2. cancel \/ (~loop /\ Len(handed) = NFiles)
    <3>1. done /\ Len(queue) = 0
      BY <1>1, <1>2 DEF EndInv, CallsMean
    <3>2. ~cancel => ~loop /\ line = NFiles /\ Len(handed) + Len(queue) = line
      BY <3>1 DEF EndInv, FlagsMean
    <3>3. Len(handed) \in Nat
      BY DEF EndInv, QueueType
    <3> QED BY <3>1, <3>2, <3>3
  <2>3. Feed!Tell(c)
    BY <1>1, <2>1, <2>2 DEF Feed!Tell
  <2> QED BY <2>3 DEF Feed!Next
<1>3. CASE queue # <<>>
  <2>1. Told' = Told
    BY <1>1, <1>3 DEF Told, EndInv, QueueType
  <2> QED BY <1>1, <2>1 DEF Feed!vars
<1> QED BY <1>2, <1>3

LEMMA ReplyFeeds ==
  ASSUME QueueType, CallType, HandsOK, NEW c \in Callers, Replied(c) \/ ReplyLost(c)
  PROVE  [Feed!Next]_Feed!vars
<1>1. /\ UNCHANGED <<loop, cancel, handed>> /\ got' = [got EXCEPT ![c] = <<>>]
      /\ step[c] \in {"more", "last", "refused"}
      /\ step' = [step EXCEPT ![c] = step'[c]]
      /\ step'[c] \in {"idle", "exhausted", "left"}
      /\ step'[c] = "exhausted" => step[c] = "last"
  BY DEF Replied, ReplyLost, CallAt, jobVars, QueueType
<1>2. CASE step[c] = "more"
  <2>1. Told' = Told
    BY <1>1, <1>2 DEF Told, QueueType
  <2>2. Feed!Done(c)
    BY <1>1, <2>1 DEF Feed!Done
  <2> QED BY <2>2 DEF Feed!Next
<1>3. CASE step[c] # "more"
  <2>1. got' = got
    BY <1>1, <1>3 DEF HandsOK, CallType
  <2>2. CASE step[c] = "last" /\ step'[c] # "exhausted"
    <3>1. Told' = Told \ {c}
      BY <1>1, <2>2 DEF Told, QueueType
    <3>2. Feed!AskAgain(c)
      BY <1>1, <2>1, <3>1 DEF Feed!AskAgain
    <3> QED BY <3>2 DEF Feed!Next
  <2>3. CASE ~(step[c] = "last" /\ step'[c] # "exhausted")
    <3>1. Told' = Told
      BY <1>1, <1>3, <2>3 DEF Told, QueueType
    <3> QED BY <1>1, <2>1, <3>1 DEF Feed!vars
  <2> QED BY <2>2, <2>3
<1> QED BY <1>2, <1>3

LEMMA NextFeeds ==
  OrderInv /\ EndInv /\ SlotInv /\ HandsOK /\ [Next]_vars => [Feed!Next]_Feed!vars
<1> SUFFICES ASSUME OrderInv, EndInv, SlotInv, HandsOK, [Next]_vars PROVE [Feed!Next]_Feed!vars
  OBVIOUS
<1>1. CallType /\ QueueType
  BY DEF SlotInv, EndInv
<1>2. CASE UNCHANGED <<loop, cancel, handed, got, step>>
  BY <1>2 DEF Feed!vars, Told
<1>3. CASE cancel' = TRUE /\ UNCHANGED <<loop, handed, got, step>>
  <2>1. Feed!End
    BY <1>3 DEF Feed!End, Told
  <2> QED BY <2>1 DEF Feed!Next
<1>4. ASSUME JobStarts \/ JobEnds \/ Reader \/ UNCHANGED vars
      PROVE  /\ UNCHANGED <<loop, handed, got, step>>
             /\ cancel' = cancel \/ cancel' = TRUE
  BY <1>4 DEF JobStarts, JobEnds, Cleanup, Reader, PassBegins, RunCancelled, BadManifest, NextLine,
              Acquire, PushRefused, Insert, PassEnds, FailJob, Aborted, ReaderAt, callVars, jobVars, vars
<1>5. ASSUME NEW c \in Callers, Admit(c) \/ GiveBack(c) \/ LookDone(c) \/ StopFetching(c)
      PROVE  [Feed!Next]_Feed!vars
  <2>1. /\ UNCHANGED <<loop, cancel, handed, got>>
        /\ \A b \in Callers \ {c} : step'[b] = step[b]
        /\ {step[c], step'[c]} \cap {"last", "exhausted"} = {}
    BY <1>1, <1>5 DEF Admit, GiveBack, LookDone, StopFetching, CallAt, jobVars, QueueType
  <2>2. Told' = Told
    BY <2>1 DEF Told
  <2> QED BY <2>1, <2>2 DEF Feed!vars
<1>6. ASSUME NEW c \in Callers, Drain(c) \/ LookEmpty(c) \/ Replied(c) \/ ReplyLost(c)
      PROVE  [Feed!Next]_Feed!vars
  BY <1>1, <1>6, DrainFeeds, LookEmptyFeeds, ReplyFeeds
<1> QED BY <1>2, <1>3, <1>4, <1>5, <1>6 DEF Next, Call

(* The queue with its permits, its three reads and its lost replies gives  *)
(* the files out as FileFeed promises.                                     *)
THEOREM FeedImplemented == Spec => ImplementsFeed
<1>1. Init => Feed!Init
  <2> SUFFICES ASSUME Init PROVE Feed!Init
    OBVIOUS
  <2>1. Len(handed) = 0 /\ Told = {} /\ got = [c \in Callers |-> <<>>]
    BY DEF Init, Told
  <2> QED BY <2>1 DEF Init, Feed!Init
<1>2. Init => HandsOK
  BY DEF Init, HandsOK
<1>3. SlotInv => CallType
  BY DEF SlotInv
<1>4. EndInv => QueueType
  BY DEF EndInv
<1> QED
  BY <1>1, <1>2, <1>3, <1>4, InitEnd, NextEnd, OrderInvariance, InitSlots, NextSlots, NextHands,
     NextFeeds, PTL DEF Spec, ImplementsFeed, Feed!Spec
=============================================================================
