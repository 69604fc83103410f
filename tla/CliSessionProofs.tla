--------------------------- MODULE CliSessionProofs ---------------------------
(***************************************************************************)
(* Proofs about EventStream, and then about CliSession, which extends it,  *)
(* for any jobs, any watchers, sessions of either kind, a buffer of any    *)
(* size and any number of polls.  What a watcher is delivered depends on   *)
(* the two locks, so the streams' invariant says what the event that is    *)
(* under way may still find.  Every step of a session is a step of         *)
(* EventStream or leaves it alone, so what is shown of the streams holds   *)
(* for the sessions; what a session concludes from its stream is added in  *)
(* the second part.                                                        *)
(***************************************************************************)
EXTENDS CliSession, SequenceTheorems, TLAPS

-----------------------------------------------------------------------------
(* The streams: every specification here is EventStream's.                 *)

USE StreamAssumption

Over(j) == phase[j] \in {"over", "gone"}

(* The event under way: who holds the jobs lock, and for which job.        *)
EmitOK ==
  /\ emitting.step = "idle" <=> emitting.job = None
  /\ emitting.step # "idle" =>
       phase[emitting.job] \in {"live", "over"} /\ emitting.seq = lastSeq /\ emitting.seq > 0
  /\ emitting.step # "sending" => emitting.todo = {} /\ emitting.full = {}
  /\ emitting.todo \cap emitting.full = {}
  /\ \A w \in emitting.todo \cup emitting.full :
       watching[w] = emitting.job /\ stream[w] # "new"

(* The registry and the streams agree.                                     *)
RegistryOK ==
  /\ \A w \in Watchers : stream[w] # "new" => watching[w] \in Jobs
  /\ \A j \in Jobs : \A w \in subs[j] : watching[w] = j /\ stream[w] # "new"
  /\ \A j \in closing : Over(j) /\ emitting.job # j
  /\ \A w \in Watchers : stream[w] = "open" => w \in subs[watching[w]]
  /\ \A w \in Watchers : stream[w] \in {"shut", "done"} /\ w \notin evicted =>
       Over(watching[w]) /\ emitting.job # watching[w]

(* The numbers: what is under way is newer than anything its watchers have.*)
NumbersOK ==
  /\ \A w \in Watchers : \A i \in 1..Len(Delivered(w)) :
       /\ Delivered(w)[i].seq <= lastSeq
       /\ emitting.step = "drawn" \/ w \in emitting.todo \cup emitting.full =>
            Delivered(w)[i].seq < lastSeq
  /\ \A j \in Jobs : \A n \in sent[j] : n <= lastSeq

NoVerdict(w) == \A i \in 1..Len(Delivered(w)) : Delivered(w)[i].kind # "verdict"

(* Nobody who may still be sent something has the verdict.                 *)
VerdictOK ==
  /\ \A j \in Jobs : phase[j] = "live" => \A w \in subs[j] : NoVerdict(w)
  /\ emitting.step = "drawn" => \A w \in subs[emitting.job] : NoVerdict(w)
  /\ \A w \in emitting.todo \cup emitting.full : NoVerdict(w)

(* The first item is the snapshot, and the status of an eviction is what   *)
(* only an evicted watcher gets.                                           *)
ItemsOK ==
  /\ \A w \in Watchers : stream[w] = "new" => seen[w] = <<>> /\ buffer[w] = <<>>
  /\ \A w \in Watchers : stream[w] \in {"open", "shut", "done"} => Len(Delivered(w)) > 0
  /\ \A w \in Watchers : \A i \in 1..Len(Delivered(w)) :
       Delivered(w)[i].kind = "overflow" => w \in evicted

StreamInv == TypeOK /\ EmitOK /\ RegistryOK /\ NumbersOK /\ VerdictOK /\ ItemsOK
               /\ NobodyLeftBehind /\ StreamFaithful

-----------------------------------------------------------------------------
(* What a step does to the items delivered.                                *)

LEMMA DeliveredType ==
  ASSUME TypeOK, NEW w \in Watchers
  PROVE  Delivered(w) \in Seq(Items) /\ Len(Delivered(w)) \in Nat
BY ConcatProperties DEF TypeOK, Delivered

LEMMA ItemFields ==
  \A x \in Items : x.seq \in 0..MaxEvents /\ x.kind \in {"event", "verdict", "overflow"}
BY DEF Items

LEMMA EventItem ==
  ASSUME NEW j, NEW n \in 0..MaxEvents
  PROVE  /\ Event(j, n) \in Items /\ Event(j, n).seq = n
         /\ Event(j, n).kind = IF phase[j] = "over" THEN "verdict" ELSE "event"
BY DEF Event, Items

LEMMA OverflowItem ==
  Overflow \in Items /\ Overflow.seq = 0 /\ Overflow.kind = "overflow"
BY DEF Overflow, Items

LEMMA BuffersUntouched ==
  ASSUME buffer' = buffer, seen' = seen
  PROVE  \A w \in Watchers : Delivered(w)' = Delivered(w)
BY DEF Delivered

LEMMA NoVerdictStays ==
  ASSUME \A w \in Watchers : Delivered(w)' = Delivered(w)
  PROVE  \A w \in Watchers : NoVerdict(w)' <=> NoVerdict(w)
BY DEF NoVerdict

LEMMA ConcatAssoc ==
  ASSUME NEW S, NEW a \in Seq(S), NEW b \in Seq(S), NEW c \in Seq(S)
  PROVE  (a \o b) \o c = a \o (b \o c)
<1> DEFINE l == (a \o b) \o c
           r == a \o (b \o c)
<1>1. l \in Seq(S) /\ r \in Seq(S) /\ Len(l) = Len(r)
  BY ConcatProperties
<1>2. \A i \in 1..Len(l) : l[i] = r[i]
  BY ConcatProperties
<1> QED BY <1>1, <1>2, SeqEqual

LEMMA ConcatBegins ==
  \A S : \A a, b \in Seq(S) :
    /\ Len(a) <= Len(a \o b) /\ Len(a) \in Nat /\ Len(a \o b) \in Nat
    /\ \A i \in 1..Len(a) : i \in 1..Len(a \o b) /\ (a \o b)[i] = a[i]
BY ConcatProperties

LEMMA AppendAssoc ==
  ASSUME NEW S, NEW a \in Seq(S), NEW b \in Seq(S), NEW x \in S
  PROVE  a \o Append(b, x) = Append(a \o b, x)
<1> DEFINE l == a \o Append(b, x)
           r == Append(a \o b, x)
<1>1. a \o b \in Seq(S) /\ Append(b, x) \in Seq(S)
  BY ConcatProperties, AppendProperties
<1>2. l \in Seq(S) /\ r \in Seq(S) /\ Len(l) = Len(r)
  BY <1>1, ConcatProperties, AppendProperties
<1>3. ASSUME NEW i \in 1..Len(l) PROVE l[i] = r[i]
  <2>1. Len(l) = Len(a) + Len(b) + 1 /\ Len(a) \in Nat /\ Len(b) \in Nat
    BY <1>1, ConcatProperties, AppendProperties
  <2>2. CASE i \in 1..Len(a)
    <3>1. l[i] = a[i]
      BY <1>1, <2>2, ConcatProperties
    <3>2. (a \o b)[i] = a[i] /\ i \in 1..Len(a \o b)
      BY <2>1, <2>2, ConcatProperties
    <3> QED BY <1>1, <3>1, <3>2, AppendProperties
  <2>3. CASE i \in (Len(a) + 1)..(Len(a) + Len(b))
    <3>1. l[i] = Append(b, x)[i - Len(a)]
      BY <1>1, <2>1, <2>3, ConcatProperties
    <3>2. Append(b, x)[i - Len(a)] = b[i - Len(a)]
      BY <2>1, <2>3, AppendProperties
    <3>3. (a \o b)[i] = b[i - Len(a)] /\ i \in 1..Len(a \o b)
      BY <2>1, <2>3, ConcatProperties
    <3> QED BY <1>1, <3>1, <3>2, <3>3, AppendProperties
  <2>4. CASE i = Len(a) + Len(b) + 1
    <3>1. l[i] = Append(b, x)[Len(b) + 1]
      BY <1>1, <2>1, <2>4, ConcatProperties
    <3>2. Append(b, x)[Len(b) + 1] = x
      BY AppendProperties
    <3>3. r[i] = x
      BY <1>1, <2>1, <2>4, ConcatProperties, AppendProperties
    <3> QED BY <3>1, <3>2, <3>3
  <2> QED BY <2>1, <2>2, <2>3, <2>4
<1> QED BY <1>2, <1>3, SeqEqual

(* What is appended to a buffer comes after all that was delivered.        *)
LEMMA AppendDelivers ==
  ASSUME TypeOK, NEW w \in Watchers, NEW x \in Items,
         buffer' = [buffer EXCEPT ![w] = Append(@, x)], seen' = seen
  PROVE  /\ \A v \in Watchers : v # w => Delivered(v)' = Delivered(v)
         /\ Delivered(w)' \in Seq(Items) /\ Len(Delivered(w)') = Len(Delivered(w)) + 1
         /\ \A i \in 1..Len(Delivered(w)) : Delivered(w)'[i] = Delivered(w)[i]
         /\ Delivered(w)'[Len(Delivered(w)) + 1] = x
<1>1. buffer[w] \in Seq(Items) /\ seen[w] \in Seq(Items) /\ buffer \in [Watchers -> Seq(Items)]
  BY DEF TypeOK
<1>2. /\ buffer'[w] = Append(buffer[w], x)
      /\ \A v \in Watchers : v # w => buffer'[v] = buffer[v]
  BY <1>1
<1> DEFINE d == seen[w] \o buffer[w]
<1>3. d \in Seq(Items) /\ Len(d) \in Nat
  BY <1>1, ConcatProperties
<1>4. Delivered(w)' = Append(d, x)
  <2>1. Delivered(w)' = seen[w] \o Append(buffer[w], x)
    BY <1>2 DEF Delivered
  <2>2. \A a, b \in Seq(Items) : a \o Append(b, x) = Append(a \o b, x)
    BY AppendAssoc
  <2> QED BY <1>1, <2>1, <2>2, Zenon
<1>5. Delivered(w) = d
  BY DEF Delivered
<1>6. \A v \in Watchers : v # w => Delivered(v)' = Delivered(v)
  BY <1>2 DEF Delivered
<1> HIDE DEF d
<1>7. /\ Append(d, x) \in Seq(Items) /\ Len(Append(d, x)) = Len(d) + 1
      /\ \A i \in 1..Len(d) : Append(d, x)[i] = d[i]
      /\ Append(d, x)[Len(d) + 1] = x
  BY <1>3, AppendProperties
<1> QED BY <1>4, <1>5, <1>6, <1>7

(* Reading an item moves it, and delivers nothing new.                     *)
LEMMA ReceiveMoves ==
  ASSUME TypeOK, NEW w \in Watchers, Receive(w)
  PROVE  /\ \A v \in Watchers : Delivered(v)' = Delivered(v)
         /\ seen' \in [Watchers -> Seq(Items)] /\ buffer' \in [Watchers -> Seq(Items)]
         /\ \A v \in Watchers : Len(buffer'[v]) <= Capacity
         /\ \E i \in 1..Len(Delivered(w)) : Delivered(w)[i] = Head(buffer[w])
<1>1. /\ buffer[w] \in Seq(Items) /\ buffer[w] # <<>> /\ seen[w] \in Seq(Items)
      /\ Len(buffer[w]) <= Capacity
      /\ buffer \in [Watchers -> Seq(Items)] /\ seen \in [Watchers -> Seq(Items)]
  BY DEF TypeOK, Receive
<1> DEFINE h == Head(buffer[w])
           t == Tail(buffer[w])
<1>2. h \in Items /\ t \in Seq(Items) /\ Len(t) = Len(buffer[w]) - 1
  BY <1>1, HeadTailProperties
<1>3. buffer[w] = <<h>> \o t
  <2>1. /\ <<h>> \o t \in Seq(Items) /\ Len(<<h>> \o t) = Len(buffer[w])
        /\ \A i \in 1..Len(buffer[w]) : (<<h>> \o t)[i] = buffer[w][i]
    BY <1>1, <1>2
  <2> QED BY <1>1, <2>1, SeqEqual
<1>4. /\ seen' = [seen EXCEPT ![w] = Append(@, h)]
      /\ buffer' = [buffer EXCEPT ![w] = t]
  BY DEF Receive
<1> HIDE DEF h, t
<1>5. Append(seen[w], h) = seen[w] \o <<h>> /\ <<h>> \in Seq(Items)
  BY <1>1, <1>2, AppendIsConcat
<1>6. (seen[w] \o <<h>>) \o t = seen[w] \o buffer[w]
  <2>1. (seen[w] \o <<h>>) \o t = seen[w] \o (<<h>> \o t)
    BY <1>1, <1>2, <1>5, ConcatAssoc
  <2> QED BY <1>3, <2>1
<1>7. /\ seen'[w] = seen[w] \o <<h>> /\ buffer'[w] = t
      /\ \A v \in Watchers : v # w => seen'[v] = seen[v] /\ buffer'[v] = buffer[v]
  BY <1>1, <1>4, <1>5
<1>8. \A v \in Watchers : Delivered(v)' = Delivered(v)
  BY <1>6, <1>7 DEF Delivered
<1>9. seen' \in [Watchers -> Seq(Items)] /\ buffer' \in [Watchers -> Seq(Items)]
  <2>1. Append(seen[w], h) \in Seq(Items)
    BY <1>1, <1>2
  <2> QED BY <1>1, <1>2, <1>4, <2>1
<1>10. \A v \in Watchers : Len(buffer'[v]) <= Capacity
  <2>1. Len(t) <= Capacity
    BY <1>1, <1>2
  <2> QED BY <1>7, <2>1 DEF TypeOK
<1>11. \E i \in 1..Len(Delivered(w)) : Delivered(w)[i] = h
  <2>1. Len(seen[w]) + 1 \in 1..Len(seen[w] \o buffer[w])
    BY <1>1, ConcatProperties
  <2>2. (seen[w] \o buffer[w])[Len(seen[w]) + 1] = buffer[w][1]
    BY <1>1, ConcatProperties
  <2> QED BY <1>1, <2>1, <2>2 DEF Delivered, h
<1> QED BY <1>8, <1>9, <1>10, <1>11 DEF h

(* The types, in the form the steps below need them.                       *)
LEMMA Shapes ==
  ASSUME TypeOK
  PROVE  /\ lastSeq \in Nat /\ MaxEvents \in Nat /\ lastSeq <= MaxEvents
         /\ emitting.step \in {"idle", "drawn", "sending"} /\ emitting.seq \in 0..MaxEvents
         /\ emitting.job \in Jobs \cup {None}
         /\ emitting.todo \subseteq Watchers /\ emitting.full \subseteq Watchers
         /\ \A j \in Jobs : subs[j] \subseteq Watchers /\ sent[j] \subseteq 1..MaxEvents
         /\ \A w \in Watchers : /\ Delivered(w) \in Seq(Items) /\ Len(Delivered(w)) \in Nat
                                /\ \A i \in 1..Len(Delivered(w)) :
                                     /\ Delivered(w)[i] \in Items
                                     /\ Delivered(w)[i].seq \in 0..MaxEvents
<1>1. \A w \in Watchers : Delivered(w) \in Seq(Items) /\ Len(Delivered(w)) \in Nat
  BY DeliveredType
<1>2. \A w \in Watchers : \A i \in 1..Len(Delivered(w)) : Delivered(w)[i] \in Items
  BY <1>1
<1> QED BY <1>1, <1>2, ItemFields DEF TypeOK

-----------------------------------------------------------------------------
(* One lemma for each action.                                              *)

(* The three handlers that draw a number hold the jobs lock, so nothing is *)
(* under way and every watcher of the job may still be sent something.     *)
LEMMA DrawKeeps ==
  ASSUME StreamInv, JobsLockFree, NEW j \in Jobs, Emit(j),
         phase[j] \in {"absent", "live"},
         phase' \in [Jobs -> {"absent", "live", "over", "gone"}],
         phase'[j] \in {"live", "over"},
         \A k \in Jobs : k # j => phase'[k] = phase[k],
         UNCHANGED <<subs, closing, sent, clientVars>>
  PROVE  StreamInv'
<1> USE DEF StreamInv
<1>1. \A w \in Watchers : Delivered(w)' = Delivered(w)
  BY BuffersUntouched DEF clientVars
<1>2. /\ emitting' = [step |-> "drawn", job |-> j, seq |-> lastSeq + 1, todo |-> {}, full |-> {}]
      /\ lastSeq' = lastSeq + 1 /\ lastSeq < MaxEvents
      /\ subs' = subs /\ closing' = closing /\ sent' = sent /\ watching' = watching
      /\ stream' = stream /\ buffer' = buffer /\ seen' = seen /\ evicted' = evicted
  BY DEF Emit, clientVars
<1>3. emitting.step = "idle" /\ emitting.job = None /\ None # j
  BY DEF JobsLockFree, EmitOK
<1>4. TypeOK'
  BY <1>2 DEF TypeOK
<1>5. EmitOK'
  BY <1>2, Shapes DEF EmitOK
<1>6. \A k \in Jobs : (Over(k) => Over(k)' /\ k # j)
  BY DEF Over
<1>7. RegistryOK'
  BY <1>2, <1>3, <1>6 DEF RegistryOK, TypeOK
<1>8. NumbersOK'
  BY <1>1, <1>2, Shapes DEF NumbersOK
<1>9. \A w \in subs[j] : NoVerdict(w)
  <2>1. phase[j] = "live" \/ subs[j] = {}
    BY <1>3 DEF NobodyLeftBehind, RegistryOK, Over
  <2> QED BY <2>1 DEF VerdictOK
<1>10. VerdictOK'
  BY <1>1, <1>2, <1>9, Shapes DEF VerdictOK, NoVerdict
<1>11. ItemsOK'
  BY <1>1, <1>2 DEF ItemsOK
<1>12. NobodyLeftBehind'
  BY <1>2, <1>3 DEF NobodyLeftBehind
<1>13. StreamFaithful'
  <2>1. SeqIncreases' /\ VerdictLast'
    BY <1>1 DEF StreamFaithful, SeqIncreases, VerdictLast
  <2>2. \A w \in Watchers : Numbers(w)' = Numbers(w)
    BY <1>1 DEF Numbers
  <2>3. emitting.todo \cup emitting.full = {}
    BY <1>3 DEF EmitOK
  <2>4. NoGap'
    BY <1>1, <1>2, <2>2, <2>3 DEF StreamFaithful, NoGap
  <2> QED BY <2>1, <2>4 DEF StreamFaithful
<1> QED BY <1>4, <1>5, <1>7, <1>8, <1>10, <1>11, <1>12, <1>13

(* A job that is collected is over already.                                *)
LEMMA CollectKeeps ==
  ASSUME StreamInv, NEW j \in Jobs, CollectJob(j)
  PROVE  StreamInv'
<1> USE DEF StreamInv
<1>1. \A w \in Watchers : Delivered(w)' = Delivered(w)
  BY BuffersUntouched DEF clientVars, CollectJob
<1>2. /\ phase' = [phase EXCEPT ![j] = "gone"] /\ phase[j] = "over"
      /\ lastSeq' = lastSeq /\ emitting' = emitting
      /\ subs' = subs /\ closing' = closing /\ sent' = sent /\ watching' = watching
      /\ stream' = stream /\ buffer' = buffer /\ seen' = seen /\ evicted' = evicted
  BY DEF CollectJob, clientVars
<1>3. emitting.step = "idle" /\ emitting.job = None /\ None # j
  BY DEF JobsLockFree, EmitOK, CollectJob
<1>4. TypeOK'
  BY <1>2 DEF TypeOK
<1>5. /\ \A k \in Jobs : Over(k)' = Over(k)
      /\ \A k \in Jobs : phase'[k] = "live" <=> phase[k] = "live"
  BY <1>2 DEF Over, TypeOK
<1>6. EmitOK'
  BY <1>2, <1>3 DEF EmitOK
<1>7. RegistryOK'
  BY <1>2, <1>3, <1>5 DEF RegistryOK, TypeOK
<1>8. NumbersOK'
  BY <1>1, <1>2 DEF NumbersOK
<1>9. VerdictOK'
  BY <1>1, <1>2, <1>3, <1>5, NoVerdictStays, Shapes DEF VerdictOK
<1>10. ItemsOK'
  BY <1>1, <1>2 DEF ItemsOK
<1>11. NobodyLeftBehind'
  BY <1>2, <1>5 DEF NobodyLeftBehind
<1>12. StreamFaithful'
  BY <1>1, <1>2 DEF StreamFaithful, SeqIncreases, VerdictLast, NoGap, Numbers
<1> QED BY <1>4, <1>6, <1>7, <1>8, <1>9, <1>10, <1>11, <1>12

(* A broadcast begins with everybody who is registered, and nobody else    *)
(* whose stream is open, or closed without an eviction, watches the job.   *)
LEMMA BroadcastKeeps ==
  ASSUME StreamInv, BroadcastBegins
  PROVE  StreamInv'
<1> USE DEF StreamInv
<1>1. \A w \in Watchers : Delivered(w)' = Delivered(w)
  BY BuffersUntouched DEF clientVars, BroadcastBegins
<1> DEFINE j == emitting.job
<1>2. /\ emitting' = [emitting EXCEPT !.step = "sending", !.todo = subs[j]]
      /\ sent' = [sent EXCEPT ![j] = @ \cup {emitting.seq}] /\ emitting.step = "drawn"
      /\ phase' = phase /\ lastSeq' = lastSeq
      /\ subs' = subs /\ closing' = closing /\ watching' = watching
      /\ stream' = stream /\ buffer' = buffer /\ seen' = seen /\ evicted' = evicted
  BY DEF BroadcastBegins, clientVars
<1>3. /\ j \in Jobs /\ emitting.seq = lastSeq /\ emitting.seq > 0
      /\ phase[j] \in {"live", "over"}
  BY <1>2, Shapes DEF EmitOK
<1>4. emitting.full = {} /\ emitting.todo = {}
  BY <1>2 DEF EmitOK
<1>5. /\ emitting'.step = "sending" /\ emitting'.job = j /\ emitting'.seq = lastSeq
      /\ emitting'.todo = subs[j] /\ emitting'.full = {}
  BY <1>2, <1>3, <1>4 DEF TypeOK
<1> HIDE DEF j
<1>6. TypeOK'
  <2>1. sent' \in [Jobs -> SUBSET (1..MaxEvents)]
    <3>1. emitting.seq \in 1..MaxEvents
      BY <1>3, Shapes
    <3> QED BY <1>2, <3>1 DEF TypeOK
  <2>2. emitting' \in [step : {"idle", "drawn", "sending"}, job : Jobs \cup {None},
                       seq : 0..MaxEvents, todo : SUBSET Watchers, full : SUBSET Watchers]
    <3>1. subs[j] \in SUBSET Watchers
      BY <1>3 DEF TypeOK
    <3> QED BY <1>2, <3>1 DEF TypeOK
  <2> QED BY <1>2, <2>1, <2>2 DEF TypeOK
<1>7. EmitOK'
  BY <1>2, <1>3, <1>5 DEF EmitOK, RegistryOK, j
<1>8. RegistryOK'
  BY <1>2, <1>5 DEF RegistryOK, Over, j
<1>9. NumbersOK'
  <2>1. \A w \in Watchers : \A i \in 1..Len(Delivered(w)) :
          Delivered(w)[i].seq <= lastSeq /\ Delivered(w)[i].seq < lastSeq
    BY <1>2 DEF NumbersOK
  <2>2. \A k \in Jobs : \A n \in sent'[k] : n <= lastSeq
    BY <1>2, <1>3, Shapes DEF NumbersOK, TypeOK
  <2> QED BY <1>1, <1>2, <2>1, <2>2 DEF NumbersOK
<1>10. VerdictOK'
  <2>1. \A w \in subs[j] : NoVerdict(w)'
    BY <1>1, <1>2, <1>3, NoVerdictStays, Shapes DEF VerdictOK, j
  <2>2. ASSUME NEW k \in Jobs, phase[k] = "live", NEW w \in subs[k]
        PROVE  NoVerdict(w)'
    BY <1>1, <2>2, NoVerdictStays, Shapes DEF VerdictOK
  <2> QED BY <1>2, <1>5, <2>1, <2>2 DEF VerdictOK
<1>11. ItemsOK'
  BY <1>1, <1>2 DEF ItemsOK
<1>12. NobodyLeftBehind'
  BY <1>2, <1>5 DEF NobodyLeftBehind, j
<1>13. NoGap'
  <2>1. \A w \in Watchers : Numbers(w)' = Numbers(w)
    BY <1>1 DEF Numbers
  <2> SUFFICES ASSUME NEW w \in Watchers,
                      stream'[w] \in {"open", "shut", "done"}, w \notin evicted',
                      NEW n \in sent'[watching'[w]], n > Delivered(w)'[1].seq
               PROVE  \/ n \in Numbers(w)'
                      \/ /\ emitting'.job = watching'[w] /\ n = emitting'.seq
                         /\ w \in emitting'.todo \cup emitting'.full
    BY DEF NoGap
  <2>2. n \in sent[watching[w]] => n \in Numbers(w)
    BY <1>1, <1>2, <1>4 DEF StreamFaithful, NoGap
  <2>3. CASE n \in sent[watching[w]]
    BY <2>1, <2>2, <2>3
  <2>4. CASE n \notin sent[watching[w]]
    <3>1. watching[w] \in Jobs
      BY <1>2 DEF RegistryOK, TypeOK
    <3>2. watching[w] = j /\ n = lastSeq
      BY <1>2, <1>3, <2>4, <3>1 DEF TypeOK
    <3>3. w \in subs[j]
      BY <1>2, <3>2 DEF RegistryOK, j
    <3> QED BY <1>2, <1>5, <3>2, <3>3
  <2> QED BY <2>3, <2>4
<1>14. StreamFaithful'
  BY <1>1, <1>13 DEF StreamFaithful, SeqIncreases, VerdictLast
<1> QED BY <1>6, <1>7, <1>8, <1>9, <1>10, <1>11, <1>12, <1>14

(* The locks are dropped.  A handler that ended its job owes the closing.  *)
LEMMA UnlockKeeps ==
  ASSUME StreamInv, HandlerUnlocks
  PROVE  StreamInv'
<1> USE DEF StreamInv
<1>1. \A w \in Watchers : Delivered(w)' = Delivered(w)
  BY BuffersUntouched DEF clientVars, HandlerUnlocks
<1> DEFINE j == emitting.job
<1>2. /\ emitting' = Idle /\ closing' = OwesClosing /\ emitting.step = "sending"
      /\ emitting.todo = {} /\ emitting.full = {}
      /\ phase' = phase /\ lastSeq' = lastSeq
      /\ subs' = subs /\ sent' = sent /\ watching' = watching
      /\ stream' = stream /\ buffer' = buffer /\ seen' = seen /\ evicted' = evicted
  BY DEF HandlerUnlocks, clientVars
<1>3. j \in Jobs /\ phase[j] \in {"live", "over"}
  BY <1>2, Shapes DEF EmitOK
<1>4. /\ emitting'.step = "idle" /\ emitting'.job = None
      /\ emitting'.todo = {} /\ emitting'.full = {}
  BY <1>2 DEF Idle
<1>5. closing' = IF phase[j] = "over" THEN closing \cup {j} ELSE closing
  BY <1>2 DEF OwesClosing
<1> HIDE DEF j
<1>6. TypeOK'
  BY <1>2, <1>3, <1>5 DEF TypeOK, Idle
<1>7. EmitOK'
  BY <1>4 DEF EmitOK
<1>8. RegistryOK'
  <2>1. \A k \in closing' : Over(k)' /\ emitting'.job # k
    BY <1>2, <1>3, <1>4, <1>5 DEF RegistryOK, Over, TypeOK
  <2>2. \A w \in Watchers : stream'[w] \in {"shut", "done"} /\ w \notin evicted' =>
          Over(watching[w])' /\ emitting'.job # watching[w]
    BY <1>2, <1>4 DEF RegistryOK, Over, TypeOK
  <2> QED BY <1>2, <2>1, <2>2 DEF RegistryOK
<1>9. NumbersOK'
  BY <1>1, <1>2, <1>4 DEF NumbersOK
<1>10. VerdictOK'
  BY <1>1, <1>2, <1>4, NoVerdictStays, Shapes DEF VerdictOK
<1>11. ItemsOK'
  BY <1>1, <1>2 DEF ItemsOK
<1>12. NobodyLeftBehind'
  BY <1>2, <1>3, <1>5 DEF NobodyLeftBehind, j
<1>13. StreamFaithful'
  <2>1. \A w \in Watchers : Numbers(w)' = Numbers(w)
    BY <1>1 DEF Numbers
  <2> QED BY <1>1, <1>2, <2>1 DEF StreamFaithful, SeqIncreases, VerdictLast, NoGap
<1> QED BY <1>6, <1>7, <1>8, <1>9, <1>10, <1>11, <1>12, <1>13

(* The streams of a job are closed after its last event was sent.          *)
LEMMA TerminateKeeps ==
  ASSUME StreamInv, NEW j \in Jobs, Terminate(j)
  PROVE  StreamInv'
<1> USE DEF StreamInv
<1>1. \A w \in Watchers : Delivered(w)' = Delivered(w)
  BY BuffersUntouched DEF Terminate
<1>2. /\ j \in closing /\ closing' = closing \ {j} /\ emitting.step # "sending"
      /\ stream' = [w \in Watchers |-> IF w \in subs[j] /\ stream[w] = "open"
                                       THEN "shut" ELSE stream[w]]
      /\ subs' = [subs EXCEPT ![j] = {}]
      /\ phase' = phase /\ lastSeq' = lastSeq /\ emitting' = emitting
      /\ sent' = sent /\ watching' = watching
      /\ buffer' = buffer /\ seen' = seen /\ evicted' = evicted
  BY DEF Terminate, SubsLockFree
<1>3. Over(j) /\ emitting.job # j /\ emitting.todo = {} /\ emitting.full = {}
  BY <1>2 DEF RegistryOK, EmitOK
<1>4. /\ subs'[j] = {} /\ \A k \in Jobs : k # j => subs'[k] = subs[k]
      /\ \A w \in Watchers : /\ stream'[w] = "new" <=> stream[w] = "new"
                             /\ stream'[w] = "left" <=> stream[w] = "left"
                             /\ stream'[w] = "open" => stream[w] = "open" /\ w \notin subs[j]
  BY <1>2 DEF TypeOK
<1>5. TypeOK'
  BY <1>2 DEF TypeOK
<1>6. EmitOK'
  BY <1>2, <1>3 DEF EmitOK
<1>7. RegistryOK'
  <2>1. \A w \in Watchers : stream'[w] # "new" => watching'[w] \in Jobs
    BY <1>2, <1>4 DEF RegistryOK
  <2>2. \A k \in Jobs : \A w \in subs'[k] : watching'[w] = k /\ stream'[w] # "new"
    BY <1>2, <1>4, Shapes DEF RegistryOK
  <2>3. \A k \in closing' : Over(k)' /\ emitting'.job # k
    BY <1>2 DEF RegistryOK, Over
  <2>4. \A w \in Watchers : stream'[w] = "open" => w \in subs'[watching'[w]]
    BY <1>2, <1>4 DEF RegistryOK
  <2>5. ASSUME NEW w \in Watchers, stream'[w] \in {"shut", "done"}, w \notin evicted'
        PROVE  Over(watching[w]) /\ emitting.job # watching[w]
    <3>1. CASE stream[w] \in {"shut", "done"}
      BY <1>2, <2>5, <3>1 DEF RegistryOK
    <3>2. CASE stream[w] \notin {"shut", "done"}
      <4>1. w \in subs[j]
        BY <1>2, <2>5, <3>2
      <4> QED BY <1>3, <4>1 DEF RegistryOK
    <3> QED BY <3>1, <3>2
  <2> QED BY <1>2, <2>1, <2>2, <2>3, <2>4, <2>5 DEF RegistryOK, Over
<1>8. NumbersOK'
  BY <1>1, <1>2 DEF NumbersOK
<1>9. VerdictOK'
  <2>1. ASSUME NEW k \in Jobs, phase'[k] = "live", NEW w \in subs'[k]
        PROVE  NoVerdict(w)'
    BY <1>1, <1>2, <1>4, <2>1, NoVerdictStays, Shapes DEF VerdictOK
  <2>2. ASSUME emitting'.step = "drawn", NEW w \in subs'[emitting'.job]
        PROVE  NoVerdict(w)'
    BY <1>1, <1>2, <1>3, <1>4, <2>2, NoVerdictStays, Shapes DEF VerdictOK, EmitOK
  <2> QED BY <1>2, <1>3, <2>1, <2>2 DEF VerdictOK
<1>10. ItemsOK'
  BY <1>1, <1>2, <1>4 DEF ItemsOK, TypeOK
<1>11. NobodyLeftBehind'
  BY <1>2, <1>4 DEF NobodyLeftBehind
<1>12. StreamFaithful'
  <2>1. \A w \in Watchers : Numbers(w)' = Numbers(w)
    BY <1>1 DEF Numbers
  <2>2. \A w \in Watchers : stream'[w] \in {"open", "shut", "done"} =>
          stream[w] \in {"open", "shut", "done"}
    BY <1>2
  <2> QED BY <1>1, <1>2, <2>1, <2>2 DEF StreamFaithful, SeqIncreases, VerdictLast, NoGap
<1> QED BY <1>5, <1>6, <1>7, <1>8, <1>9, <1>10, <1>11, <1>12

-----------------------------------------------------------------------------
(* Steps that deliver an item.                                             *)

(* An item that is newer than all before it, after items none of which is  *)
(* a verdict, leaves the stream in order.                                  *)
LEMMA AppendFaithful ==
  ASSUME TypeOK, SeqIncreases, VerdictLast, NEW w \in Watchers, NEW x \in Items,
         buffer' = [buffer EXCEPT ![w] = Append(@, x)], seen' = seen,
         NoVerdict(w),
         x = Overflow \/ \A i \in 1..Len(Delivered(w)) : Delivered(w)[i].seq < x.seq
  PROVE  /\ SeqIncreases' /\ VerdictLast'
         /\ \A v \in Watchers : v # w => Numbers(v)' = Numbers(v)
         /\ Numbers(w) \subseteq Numbers(w)' /\ x.seq \in Numbers(w)'
<1> DEFINE d == Delivered(w)
<1>1. /\ \A v \in Watchers : v # w => Delivered(v)' = Delivered(v)
      /\ d' \in Seq(Items) /\ Len(d') = Len(d) + 1 /\ d \in Seq(Items) /\ Len(d) \in Nat
      /\ \A i \in 1..Len(d) : d'[i] = d[i]
      /\ d'[Len(d) + 1] = x
  BY AppendDelivers, DeliveredType
<1>2. \A i \in 1..Len(d') : i \in 1..Len(d) \/ i = Len(d) + 1
  BY <1>1
<1>3. SeqIncreases'
  <2> SUFFICES ASSUME NEW v \in Watchers, NEW i \in 1..Len(Delivered(v)'),
                      NEW k \in 1..Len(Delivered(v)'), i < k, Delivered(v)'[k] # Overflow
               PROVE  Delivered(v)'[i].seq < Delivered(v)'[k].seq
    BY DEF SeqIncreases, Overflow
  <2>1. CASE v # w
    BY <1>1, <2>1 DEF SeqIncreases
  <2>2. CASE v = w /\ k \in 1..Len(d)
    BY <1>1, <2>2 DEF SeqIncreases
  <2>3. CASE v = w /\ k = Len(d) + 1
    <3>1. i \in 1..Len(d) /\ x # Overflow
      BY <1>1, <2>3
    <3> QED BY <1>1, <2>3, <3>1
  <2> QED BY <1>2, <2>1, <2>2, <2>3
<1>4. VerdictLast'
  <2> SUFFICES ASSUME NEW v \in Watchers, NEW i \in 1..Len(Delivered(v)'),
                      Delivered(v)'[i].kind = "verdict"
               PROVE  i = Len(Delivered(v)')
    BY DEF VerdictLast
  <2>1. CASE v # w
    BY <1>1, <2>1 DEF VerdictLast
  <2>2. CASE v = w
    BY <1>1, <1>2, <2>2 DEF NoVerdict
  <2> QED BY <2>1, <2>2
<1>5. \A v \in Watchers : v # w => Numbers(v)' = Numbers(v)
  BY <1>1 DEF Numbers
<1>6. Numbers(w) \subseteq Numbers(w)'
  <2> SUFFICES ASSUME NEW i \in 1..Len(d) PROVE d[i].seq \in Numbers(w)'
    BY DEF Numbers
  <2>1. i \in 1..Len(d') /\ d'[i] = d[i]
    BY <1>1
  <2> QED BY <2>1 DEF Numbers
<1>7. x.seq \in Numbers(w)'
  <2>1. Len(d) + 1 \in 1..Len(d')
    BY <1>1
  <2> QED BY <1>1, <2>1 DEF Numbers
<1> QED BY <1>3, <1>4, <1>5, <1>6, <1>7

(* The event under way is offered to a watcher whose buffer has room.      *)
LEMMA OfferTakenKeeps ==
  ASSUME StreamInv, NEW w \in Watchers, w \in emitting.todo, emitting.full = {},
         HasRoom(w),
         buffer' = [buffer EXCEPT ![w] = Append(@, Event(emitting.job, emitting.seq))],
         emitting' = [emitting EXCEPT !.todo = @ \ {w}],
         UNCHANGED <<phase, lastSeq, subs, closing, sent, watching, stream, seen, evicted>>
  PROVE  StreamInv'
<1> USE DEF StreamInv
<1> DEFINE j == emitting.job
           x == Event(emitting.job, emitting.seq)
           d == Delivered(w)
<1>1. /\ emitting.step = "sending" /\ j \in Jobs /\ phase[j] \in {"live", "over"}
      /\ emitting.seq = lastSeq /\ emitting.seq > 0
      /\ watching[w] = j /\ stream[w] # "new" /\ NoVerdict(w)
  BY Shapes DEF EmitOK, VerdictOK
<1>2. /\ emitting'.step = emitting.step /\ emitting'.job = j /\ emitting'.seq = lastSeq
      /\ emitting'.todo = emitting.todo \ {w} /\ emitting'.full = {}
  BY <1>1 DEF TypeOK
<1>3. /\ x \in Items /\ x.seq = lastSeq
      /\ x.kind = IF phase[j] = "over" THEN "verdict" ELSE "event"
  BY <1>1, Shapes, EventItem
<1>4. \A i \in 1..Len(d) : d[i].seq < x.seq
  BY <1>3 DEF NumbersOK
<1>5. buffer' = [buffer EXCEPT ![w] = Append(@, x)] /\ seen' = seen
  OBVIOUS
<1> HIDE DEF x, j
<1>6. /\ \A v \in Watchers : v # w => Delivered(v)' = Delivered(v)
      /\ d' \in Seq(Items) /\ Len(d') = Len(d) + 1 /\ Len(d) \in Nat
      /\ \A i \in 1..Len(d) : d'[i] = d[i]
      /\ d'[Len(d) + 1] = x
  BY <1>3, <1>5, AppendDelivers, DeliveredType
<1>7. /\ SeqIncreases' /\ VerdictLast'
      /\ \A v \in Watchers : v # w => Numbers(v)' = Numbers(v)
      /\ Numbers(w) \subseteq Numbers(w)' /\ x.seq \in Numbers(w)'
  BY <1>1, <1>3, <1>4, <1>5, AppendFaithful DEF StreamFaithful
<1>8. /\ \A v \in Watchers : v # w => (NoVerdict(v)' <=> NoVerdict(v))
      /\ \A i \in 1..Len(d') : i \in 1..Len(d) \/ i = Len(d) + 1
  BY <1>6 DEF NoVerdict
<1>9. TypeOK'
  <2>1. Append(buffer[w], x) \in Seq(Items) /\ Len(Append(buffer[w], x)) = Len(buffer[w]) + 1
    BY <1>3 DEF TypeOK
  <2>2. Len(buffer[w]) + 1 <= Capacity
    BY DEF HasRoom, TypeOK
  <2>3. buffer' \in [Watchers -> Seq(Items)] /\ \A v \in Watchers : Len(buffer'[v]) <= Capacity
    BY <1>5, <2>1, <2>2 DEF TypeOK
  <2> QED BY <2>3 DEF TypeOK
<1>10. EmitOK'
  BY <1>1, <1>2 DEF EmitOK, j
<1>11. RegistryOK'
  BY <1>2 DEF RegistryOK, Over, j
<1>12. NumbersOK'
  <2>1. ASSUME NEW v \in Watchers, NEW i \in 1..Len(Delivered(v)')
        PROVE  /\ Delivered(v)'[i].seq <= lastSeq
               /\ v \in emitting'.todo \cup emitting'.full => Delivered(v)'[i].seq < lastSeq
    <3>1. CASE v # w
      BY <1>2, <1>6, <3>1 DEF NumbersOK
    <3>2. CASE v = w
      BY <1>2, <1>3, <1>6, <1>8, <3>2, Shapes DEF NumbersOK
    <3> QED BY <3>1, <3>2
  <2> QED BY <1>1, <1>2, <2>1 DEF NumbersOK
<1>13. VerdictOK'
  <2>1. ASSUME NEW k \in Jobs, phase[k] = "live", NEW v \in subs[k]
        PROVE  NoVerdict(v)'
    <3>1. CASE v # w
      BY <1>8, <2>1, <3>1, Shapes DEF VerdictOK
    <3>2. CASE v = w
      <4>1. phase[j] = "live"
        BY <1>1, <2>1, <3>2 DEF RegistryOK
      <4>2. x.kind # "verdict"
        BY <1>3, <4>1
      <4> QED BY <1>1, <1>6, <1>8, <3>2, <4>2 DEF NoVerdict
    <3> QED BY <3>1, <3>2
  <2>2. \A v \in emitting'.todo \cup emitting'.full : NoVerdict(v)'
    BY <1>2, <1>8, Shapes DEF VerdictOK
  <2> QED BY <1>1, <1>2, <2>1, <2>2 DEF VerdictOK
<1>14. ItemsOK'
  <2>1. \A v \in Watchers : stream'[v] = "new" => seen'[v] = <<>> /\ buffer'[v] = <<>>
    BY <1>1, <1>5 DEF ItemsOK, TypeOK
  <2>2. \A v \in Watchers : stream'[v] \in {"open", "shut", "done"} => Len(Delivered(v)') > 0
    BY <1>6 DEF ItemsOK
  <2>3. ASSUME NEW v \in Watchers, NEW i \in 1..Len(Delivered(v)'),
               Delivered(v)'[i].kind = "overflow"
        PROVE  v \in evicted
    <3>1. CASE v # w
      BY <1>6, <2>3, <3>1 DEF ItemsOK
    <3>2. CASE v = w
      BY <1>3, <1>6, <1>8, <2>3, <3>2 DEF ItemsOK
    <3> QED BY <3>1, <3>2
  <2> QED BY <2>1, <2>2, <2>3 DEF ItemsOK
<1>15. NobodyLeftBehind'
  BY <1>2 DEF NobodyLeftBehind, j
<1>16. NoGap'
  <2> SUFFICES ASSUME NEW v \in Watchers,
                      stream'[v] \in {"open", "shut", "done"}, v \notin evicted',
                      NEW n \in sent'[watching'[v]], n > Delivered(v)'[1].seq
               PROVE  \/ n \in Numbers(v)'
                      \/ /\ emitting'.job = watching'[v] /\ n = emitting'.seq
                         /\ v \in emitting'.todo \cup emitting'.full
    BY DEF NoGap
  <2>1. CASE v # w
    BY <1>2, <1>6, <1>7, <2>1 DEF StreamFaithful, NoGap, j
  <2>2. CASE v = w
    <3>1. Delivered(w)'[1] = Delivered(w)[1]
      <4>1. 1 \in 1..Len(d)
        BY <1>6, <2>2 DEF ItemsOK
      <4> QED BY <1>6, <4>1
    <3>2. n \in Numbers(w) \/ n = emitting.seq
      BY <1>1, <2>2, <3>1 DEF StreamFaithful, NoGap
    <3> QED BY <1>1, <1>3, <1>7, <2>2, <3>2
  <2> QED BY <2>1, <2>2
<1> QED BY <1>7, <1>9, <1>10, <1>11, <1>12, <1>13, <1>14, <1>15, <1>16 DEF StreamFaithful

(* It is found full and stays to be evicted, or it left and is forgotten.  *)
LEMMA OfferRefusedKeeps ==
  ASSUME StreamInv, NEW w \in Watchers, w \in emitting.todo, emitting.full = {},
         \/ /\ emitting' = [emitting EXCEPT !.todo = @ \ {w}, !.full = @ \cup {w}]
            /\ UNCHANGED subs
         \/ /\ stream[w] = "left"
            /\ subs' = [subs EXCEPT ![emitting.job] = @ \ {w}]
            /\ emitting' = [emitting EXCEPT !.todo = @ \ {w}],
         UNCHANGED <<phase, lastSeq, closing, sent, watching, stream, buffer, seen, evicted>>
  PROVE  StreamInv'
<1> USE DEF StreamInv
<1> DEFINE j == emitting.job
<1>1. \A v \in Watchers : Delivered(v)' = Delivered(v)
  BY BuffersUntouched
<1>2. /\ emitting.step = "sending" /\ j \in Jobs /\ phase[j] \in {"live", "over"}
      /\ watching[w] = j /\ stream[w] # "new"
  BY Shapes DEF EmitOK
<1>3. /\ emitting'.step = emitting.step /\ emitting'.job = j /\ emitting'.seq = emitting.seq
      /\ emitting'.todo = emitting.todo \ {w} /\ emitting'.full \in SUBSET {w}
      /\ \A v \in Watchers : v # w =>
           (v \in emitting'.todo \cup emitting'.full <=> v \in emitting.todo \cup emitting.full)
      /\ w \in emitting'.todo \cup emitting'.full \/ stream[w] = "left"
  <2>1. /\ emitting'.step = emitting.step /\ emitting'.job = j /\ emitting'.seq = emitting.seq
        /\ emitting'.todo = emitting.todo \ {w}
        /\ \/ emitting'.full = emitting.full \cup {w}
           \/ emitting'.full = emitting.full /\ stream[w] = "left"
    BY DEF TypeOK
  <2> QED BY <2>1
<1>4. /\ subs' \in [Jobs -> SUBSET Watchers]
      /\ \A k \in Jobs : subs'[k] \subseteq subs[k]
      /\ \A k \in Jobs : \A v \in subs[k] : v # w \/ stream[w] # "left" => v \in subs'[k]
  <2>1. CASE subs' = subs
    BY <2>1 DEF TypeOK
  <2>2. CASE stream[w] = "left" /\ subs' = [subs EXCEPT ![j] = @ \ {w}]
    <3>1. /\ subs'[j] = subs[j] \ {w} /\ subs[j] \in SUBSET Watchers
          /\ \A k \in Jobs : k # j => subs'[k] = subs[k]
      BY <1>2, <2>2 DEF TypeOK
    <3>2. subs' \in [Jobs -> SUBSET Watchers]
      BY <1>2, <2>2, <3>1 DEF TypeOK
    <3>3. \A k \in Jobs : subs'[k] \subseteq subs[k]
      BY <3>1
    <3>4. \A k \in Jobs : \A v \in subs[k] : v # w => v \in subs'[k]
      BY <3>1
    <3> QED BY <2>2, <3>2, <3>3, <3>4
  <2> QED BY <2>1, <2>2
<1> HIDE DEF j
<1>5. TypeOK'
  <2>1. emitting' \in [step : {"idle", "drawn", "sending"}, job : Jobs \cup {None},
                       seq : 0..MaxEvents, todo : SUBSET Watchers, full : SUBSET Watchers]
    <3>1. CASE emitting' = [emitting EXCEPT !.todo = @ \ {w}, !.full = @ \cup {w}]
      BY <3>1 DEF TypeOK
    <3>2. CASE emitting' = [emitting EXCEPT !.todo = @ \ {w}]
      BY <3>2 DEF TypeOK
    <3> QED BY <3>1, <3>2
  <2> QED BY <1>4, <2>1 DEF TypeOK
<1>6. EmitOK'
  BY <1>2, <1>3 DEF EmitOK, j
<1>7. RegistryOK'
  BY <1>3, <1>4 DEF RegistryOK, Over, j, TypeOK
<1>8. NumbersOK'
  <2>1. \A v \in emitting'.todo \cup emitting'.full : v \in emitting.todo \cup emitting.full
    BY <1>3, Shapes
  <2> QED BY <1>1, <1>2, <1>3, <2>1 DEF NumbersOK
<1>9. VerdictOK'
  <2>1. ASSUME NEW k \in Jobs, phase[k] = "live", NEW v \in subs'[k]
        PROVE  NoVerdict(v)'
    BY <1>1, <1>4, <2>1, NoVerdictStays, Shapes DEF VerdictOK
  <2>2. \A v \in emitting'.todo \cup emitting'.full : NoVerdict(v)'
    BY <1>1, <1>3, NoVerdictStays, Shapes DEF VerdictOK
  <2> QED BY <1>2, <1>3, <2>1, <2>2 DEF VerdictOK
<1>10. ItemsOK'
  BY <1>1 DEF ItemsOK
<1>11. NobodyLeftBehind'
  BY <1>3, <1>4 DEF NobodyLeftBehind, j
<1>12. NoGap'
  <2> SUFFICES ASSUME NEW v \in Watchers,
                      stream'[v] \in {"open", "shut", "done"}, v \notin evicted',
                      NEW n \in sent'[watching'[v]], n > Delivered(v)'[1].seq
               PROVE  \/ n \in Numbers(v)'
                      \/ /\ emitting'.job = watching'[v] /\ n = emitting'.seq
                         /\ v \in emitting'.todo \cup emitting'.full
    BY DEF NoGap
  <2>1. Numbers(v)' = Numbers(v)
    BY <1>1 DEF Numbers
  <2>2. v \in emitting.todo \cup emitting.full => v \in emitting'.todo \cup emitting'.full
    BY <1>3
  <2> QED BY <1>1, <1>3, <2>1, <2>2 DEF StreamFaithful, NoGap, j
<1>13. StreamFaithful'
  BY <1>1, <1>12 DEF StreamFaithful, SeqIncreases, VerdictLast
<1> QED BY <1>5, <1>6, <1>7, <1>8, <1>9, <1>10, <1>11, <1>13

LEMMA OfferKeeps ==
  ASSUME StreamInv, NEW w \in Watchers, Offer(w)
  PROVE  StreamInv'
<1>1. w \in emitting.todo /\ emitting.full = {}
  BY DEF Offer
<1>2. CASE /\ HasRoom(w)
           /\ buffer' = [buffer EXCEPT ![w] = Append(@, Event(emitting.job, emitting.seq))]
           /\ emitting' = [emitting EXCEPT !.todo = @ \ {w}]
           /\ UNCHANGED <<phase, lastSeq, subs, closing, sent, watching, stream, seen, evicted>>
  BY <1>1, <1>2, OfferTakenKeeps
<1>3. CASE /\ emitting' = [emitting EXCEPT !.todo = @ \ {w}, !.full = @ \cup {w}]
           /\ UNCHANGED <<phase, lastSeq, subs, closing, sent, watching, stream,
                          buffer, seen, evicted>>
  BY <1>1, <1>3, OfferRefusedKeeps
<1>4. CASE /\ stream[w] = "left"
           /\ subs' = [subs EXCEPT ![emitting.job] = @ \ {w}]
           /\ emitting' = [emitting EXCEPT !.todo = @ \ {w}]
           /\ UNCHANGED <<phase, lastSeq, closing, sent, watching, stream,
                          buffer, seen, evicted>>
  BY <1>1, <1>4, OfferRefusedKeeps
<1> QED BY <1>2, <1>3, <1>4 DEF Offer

(* Every client step that delivers nothing new and shortens no stream.     *)
LEMMA ReadKeeps ==
  ASSUME StreamInv, NEW w \in Watchers,
         \A v \in Watchers : Delivered(v)' = Delivered(v),
         TypeOK',
         \A v \in Watchers : stream'[v] = stream[v] \/ v = w,
         stream[w] \in {"open", "shut"}, stream'[w] \in {stream[w], "done"},
         stream'[w] # stream[w] => stream[w] = "shut" \/ w \in evicted,
         \A v \in Watchers : v # w => seen'[v] = seen[v] /\ buffer'[v] = buffer[v],
         UNCHANGED <<masterVars, watching, evicted>>
  PROVE  StreamInv'
<1> USE DEF StreamInv
<1>1. /\ phase' = phase /\ lastSeq' = lastSeq /\ subs' = subs /\ emitting' = emitting
      /\ closing' = closing /\ sent' = sent /\ watching' = watching /\ evicted' = evicted
  BY DEF masterVars
<1>2. EmitOK'
  BY <1>1, Shapes DEF EmitOK
<1>3. RegistryOK'
  <2>1. \A v \in Watchers : stream'[v] # "new" => watching'[v] \in Jobs
    BY <1>1 DEF RegistryOK
  <2>2. \A k \in Jobs : \A v \in subs'[k] : watching'[v] = k /\ stream'[v] # "new"
    BY <1>1, Shapes DEF RegistryOK
  <2>3. \A v \in Watchers : stream'[v] = "open" => v \in subs'[watching'[v]]
    BY <1>1 DEF RegistryOK
  <2>4. \A v \in Watchers : stream'[v] \in {"shut", "done"} /\ v \notin evicted' =>
          Over(watching[v])' /\ emitting'.job # watching[v]
    BY <1>1 DEF RegistryOK, Over
  <2>5. \A k \in closing' : Over(k)' /\ emitting'.job # k
    BY <1>1 DEF RegistryOK, Over
  <2> QED BY <1>1, <2>1, <2>2, <2>3, <2>4, <2>5 DEF RegistryOK
<1>4. NumbersOK'
  BY <1>1 DEF NumbersOK
<1>5. VerdictOK'
  <2>1. ASSUME NEW k \in Jobs, NEW v \in subs[k], NoVerdict(v) PROVE NoVerdict(v)'
    BY <2>1, NoVerdictStays, Shapes
  <2>2. \A v \in emitting.todo \cup emitting.full : NoVerdict(v)'
    BY NoVerdictStays, Shapes DEF VerdictOK
  <2>3. emitting.step = "drawn" => emitting.job \in Jobs
    BY Shapes DEF EmitOK
  <2> QED BY <1>1, <2>1, <2>2, <2>3 DEF VerdictOK
<1>6. ItemsOK'
  BY <1>1 DEF ItemsOK
<1>7. NobodyLeftBehind'
  BY <1>1 DEF NobodyLeftBehind
<1>8. StreamFaithful'
  <2>1. \A v \in Watchers : Numbers(v)' = Numbers(v)
    BY DEF Numbers
  <2>2. \A v \in Watchers : stream'[v] \in {"open", "shut", "done"} =>
          stream[v] \in {"open", "shut", "done"}
    OBVIOUS
  <2> QED BY <1>1, <2>1, <2>2 DEF StreamFaithful, SeqIncreases, VerdictLast, NoGap
<1> QED BY <1>2, <1>3, <1>4, <1>5, <1>6, <1>7, <1>8

LEMMA ReceiveKeeps ==
  ASSUME StreamInv, NEW w \in Watchers, Receive(w)
  PROVE  StreamInv'
<1> USE DEF StreamInv
<1>1. /\ \A v \in Watchers : Delivered(v)' = Delivered(v)
      /\ seen' \in [Watchers -> Seq(Items)] /\ buffer' \in [Watchers -> Seq(Items)]
      /\ \A v \in Watchers : Len(buffer'[v]) <= Capacity
      /\ \E i \in 1..Len(Delivered(w)) : Delivered(w)[i] = Head(buffer[w])
  BY ReceiveMoves
<1>2. /\ stream[w] \in {"open", "shut"}
      /\ stream' = [stream EXCEPT ![w] = IF Head(buffer[w]) = Overflow THEN "done" ELSE @]
      /\ UNCHANGED <<masterVars, watching, evicted>>
      /\ seen' = [seen EXCEPT ![w] = Append(@, Head(buffer[w]))]
      /\ buffer' = [buffer EXCEPT ![w] = Tail(@)]
  BY DEF Receive
<1>3. TypeOK'
  BY <1>1, <1>2 DEF TypeOK, masterVars
<1>4. stream'[w] # stream[w] => w \in evicted
  <2>1. stream'[w] # stream[w] => Head(buffer[w]) = Overflow
    BY <1>2 DEF TypeOK
  <2> QED BY <1>1, <2>1, OverflowItem DEF ItemsOK
<1>5. /\ \A v \in Watchers : stream'[v] = stream[v] \/ v = w
      /\ stream'[w] \in {stream[w], "done"}
      /\ \A v \in Watchers : v # w => seen'[v] = seen[v] /\ buffer'[v] = buffer[v]
  BY <1>2 DEF TypeOK
<1> QED BY <1>1, <1>2, <1>3, <1>4, <1>5, ReadKeeps

LEMMA StreamEndsKeeps ==
  ASSUME StreamInv, NEW w \in Watchers, StreamEnds(w)
  PROVE  StreamInv'
<1> USE DEF StreamInv
<1>1. /\ stream[w] = "shut" /\ stream' = [stream EXCEPT ![w] = "done"]
      /\ UNCHANGED <<masterVars, watching, evicted>> /\ buffer' = buffer /\ seen' = seen
  BY DEF StreamEnds
<1>2. TypeOK'
  BY <1>1 DEF TypeOK, masterVars
<1>3. /\ \A v \in Watchers : stream'[v] = stream[v] \/ v = w
      /\ stream'[w] \in {stream[w], "done"}
  BY <1>1 DEF TypeOK
<1> QED BY <1>1, <1>2, <1>3, BuffersUntouched, ReadKeeps

(* Who leaves keeps what was read; the rest of the buffer is dropped.      *)
LEMMA LeaveKeeps ==
  ASSUME StreamInv, NEW w \in Watchers, Leave(w)
  PROVE  StreamInv'
<1> USE DEF StreamInv
<1> DEFINE d == Delivered(w)
<1>1. /\ stream[w] \in {"open", "shut"} /\ stream' = [stream EXCEPT ![w] = "left"]
      /\ buffer' = [buffer EXCEPT ![w] = <<>>] /\ seen' = seen
      /\ phase' = phase /\ lastSeq' = lastSeq /\ subs' = subs /\ emitting' = emitting
      /\ closing' = closing /\ sent' = sent /\ watching' = watching /\ evicted' = evicted
  BY DEF Leave, masterVars
<1>2. TypeOK'
  <2>1. <<>> \in Seq(Items) /\ Len(<<>>) <= Capacity
    OBVIOUS
  <2> QED BY <1>1, <2>1 DEF TypeOK
<1>3. /\ stream'[w] = "left" /\ buffer'[w] = <<>>
      /\ \A v \in Watchers : v # w => stream'[v] = stream[v] /\ buffer'[v] = buffer[v]
  BY <1>1 DEF TypeOK
<1>4. \A v \in Watchers : v # w => Delivered(v)' = Delivered(v)
  BY <1>1, <1>3 DEF Delivered
<1>5. /\ d' \in Seq(Items) /\ Len(d') \in Nat /\ Len(d) \in Nat /\ Len(d') <= Len(d)
      /\ \A i \in 1..Len(d') : i \in 1..Len(d) /\ d'[i] = d[i]
  <2>1. seen[w] \in Seq(Items) /\ buffer[w] \in Seq(Items)
    BY DEF TypeOK
  <2>2. d' = seen[w] \o <<>> /\ d = seen[w] \o buffer[w]
    BY <1>1, <1>3 DEF Delivered
  <2>3. seen[w] \o <<>> = seen[w]
    BY <2>1, ConcatEmptySeq
  <2>4. /\ Len(seen[w]) <= Len(seen[w] \o buffer[w])
        /\ Len(seen[w]) \in Nat /\ Len(seen[w] \o buffer[w]) \in Nat
        /\ \A i \in 1..Len(seen[w]) : /\ i \in 1..Len(seen[w] \o buffer[w])
                                      /\ (seen[w] \o buffer[w])[i] = seen[w][i]
    BY <2>1, ConcatBegins, ZenonT(60)
  <2>5. d' = seen[w]
    BY <2>2, <2>3
  <2>6. d' \in Seq(Items) /\ Len(d') \in Nat /\ Len(d) \in Nat /\ Len(d') <= Len(d)
    BY <2>1, <2>2, <2>4, <2>5, Zenon
  <2>7. \A i \in 1..Len(d') : i \in 1..Len(d) /\ d'[i] = d[i]
    BY <2>2, <2>4, <2>5, Zenon
  <2> QED BY <2>6, <2>7, Zenon
<1> HIDE DEF d
<1>6. \A v \in Watchers : NoVerdict(v) => NoVerdict(v)'
  <2>1. NoVerdict(w) => NoVerdict(w)'
    BY <1>5 DEF NoVerdict, d
  <2> QED BY <1>4, <2>1 DEF NoVerdict
<1>7. EmitOK'
  BY <1>1, <1>3, Shapes DEF EmitOK
<1>8. RegistryOK'
  <2>1. \A k \in Jobs : \A v \in subs'[k] : watching'[v] = k /\ stream'[v] # "new"
    BY <1>1, <1>3, Shapes DEF RegistryOK
  <2>2. \A v \in Watchers : stream'[v] # "new" => watching'[v] \in Jobs
    BY <1>1, <1>3 DEF RegistryOK
  <2> QED BY <1>1, <1>3, <2>1, <2>2 DEF RegistryOK, Over
<1>9. NumbersOK'
  <2>1. ASSUME NEW v \in Watchers, NEW i \in 1..Len(Delivered(v)')
        PROVE  i \in 1..Len(Delivered(v)) /\ Delivered(v)'[i] = Delivered(v)[i]
    BY <1>4, <1>5 DEF d
  <2> QED BY <1>1, <2>1 DEF NumbersOK
<1>10. VerdictOK'
  <2>1. ASSUME NEW k \in Jobs, NEW v \in subs[k], NoVerdict(v) PROVE NoVerdict(v)'
    BY <1>6, <2>1, Shapes
  <2>2. \A v \in emitting.todo \cup emitting.full : NoVerdict(v)'
    BY <1>6, Shapes DEF VerdictOK
  <2>3. emitting.step = "drawn" => emitting.job \in Jobs
    BY Shapes DEF EmitOK
  <2> QED BY <1>1, <2>1, <2>2, <2>3 DEF VerdictOK
<1>11. ItemsOK'
  <2>1. ASSUME NEW v \in Watchers, NEW i \in 1..Len(Delivered(v)')
        PROVE  i \in 1..Len(Delivered(v)) /\ Delivered(v)'[i] = Delivered(v)[i]
    BY <1>4, <1>5 DEF d
  <2>2. \A v \in Watchers : \A i \in 1..Len(Delivered(v)') :
          Delivered(v)'[i].kind = "overflow" => v \in evicted'
    BY <1>1, <2>1 DEF ItemsOK
  <2>3. \A v \in Watchers : stream'[v] = "new" => seen'[v] = <<>> /\ buffer'[v] = <<>>
    BY <1>1, <1>3 DEF ItemsOK
  <2>4. \A v \in Watchers : stream'[v] \in {"open", "shut", "done"} => Len(Delivered(v)') > 0
    BY <1>3, <1>4 DEF ItemsOK
  <2> QED BY <2>2, <2>3, <2>4 DEF ItemsOK
<1>12. NobodyLeftBehind'
  BY <1>1 DEF NobodyLeftBehind
<1>13. SeqIncreases'
  <2> SUFFICES ASSUME NEW v \in Watchers, NEW i \in 1..Len(Delivered(v)'),
                      NEW k \in 1..Len(Delivered(v)'), i < k, Delivered(v)'[k] # Overflow
               PROVE  Delivered(v)'[i].seq < Delivered(v)'[k].seq
    BY DEF SeqIncreases, Overflow
  <2>1. /\ i \in 1..Len(Delivered(v)) /\ Delivered(v)'[i] = Delivered(v)[i]
        /\ k \in 1..Len(Delivered(v)) /\ Delivered(v)'[k] = Delivered(v)[k]
    BY <1>4, <1>5 DEF d
  <2> QED BY <2>1 DEF StreamFaithful, SeqIncreases
<1>14. VerdictLast'
  <2> SUFFICES ASSUME NEW v \in Watchers, NEW i \in 1..Len(Delivered(v)'),
                      Delivered(v)'[i].kind = "verdict"
               PROVE  i = Len(Delivered(v)')
    BY DEF VerdictLast
  <2>1. CASE v # w
    BY <1>4, <2>1 DEF StreamFaithful, VerdictLast
  <2>2. CASE v = w
    <3>1. i = Len(d)
      BY <1>5, <2>2 DEF StreamFaithful, VerdictLast, d
    <3> QED BY <1>5, <2>2, <3>1 DEF d
  <2> QED BY <2>1, <2>2
<1>15. NoGap'
  <2>1. \A v \in Watchers : v # w => Numbers(v)' = Numbers(v)
    BY <1>4 DEF Numbers
  <2> QED BY <1>1, <1>3, <1>4, <2>1 DEF StreamFaithful, NoGap
<1> QED BY <1>2, <1>7, <1>8, <1>9, <1>10, <1>11, <1>12, <1>13, <1>14, <1>15 DEF StreamFaithful

(* An eviction that leaves no status behind changes no items.              *)
LEMMA EvictKeeps ==
  ASSUME StreamInv, NEW w \in Watchers, Evict(w)
  PROVE  StreamInv'
<1> USE DEF StreamInv
<1> DEFINE j == emitting.job
           d == Delivered(w)
<1>1. /\ w \in emitting.full
      /\ subs' = [subs EXCEPT ![j] = @ \ {w}]
      /\ stream' = [stream EXCEPT ![w] = IF @ = "open" THEN "shut" ELSE @]
      /\ emitting' = [emitting EXCEPT !.full = @ \ {w}]
      /\ evicted' = evicted \cup {w}
      /\ phase' = phase /\ lastSeq' = lastSeq /\ closing' = closing /\ sent' = sent
      /\ watching' = watching /\ seen' = seen
  BY DEF Evict
<1>2. \/ buffer' = [buffer EXCEPT ![w] = Append(@, Overflow)] /\ HasRoom(w)
      \/ buffer' = buffer
  <2>1. CASE stream[w] = "open" /\ HasRoom(w)
    BY <2>1 DEF Evict
  <2>2. CASE ~(stream[w] = "open" /\ HasRoom(w))
    BY <2>2 DEF Evict, TypeOK
  <2> QED BY <2>1, <2>2
<1>3. /\ emitting.step = "sending" /\ j \in Jobs /\ phase[j] \in {"live", "over"}
      /\ watching[w] = j /\ stream[w] # "new" /\ NoVerdict(w) /\ w \notin emitting.todo
  BY <1>1, Shapes DEF EmitOK, VerdictOK
<1>4. /\ emitting'.step = emitting.step /\ emitting'.job = j /\ emitting'.seq = emitting.seq
      /\ emitting'.todo = emitting.todo /\ emitting'.full = emitting.full \ {w}
  BY <1>1 DEF TypeOK
<1>5. /\ subs'[j] = subs[j] \ {w} /\ \A k \in Jobs : k # j => subs'[k] = subs[k]
      /\ \A v \in Watchers : v # w => stream'[v] = stream[v]
      /\ stream'[w] # "open" /\ stream'[w] # "new"
  BY <1>1, <1>3 DEF TypeOK
<1> HIDE DEF j
<1>6. /\ \A v \in Watchers : v # w => Delivered(v)' = Delivered(v)
      /\ d' \in Seq(Items) /\ Len(d) \in Nat /\ Len(d') \in Nat /\ Len(d') >= Len(d)
      /\ \A i \in 1..Len(d) : i \in 1..Len(d') /\ d'[i] = d[i]
      /\ \A i \in 1..Len(d') : i \in 1..Len(d) \/ (i = Len(d') /\ d'[i] = Overflow)
  <2>1. CASE buffer' = buffer
    <3>1. \A v \in Watchers : Delivered(v)' = Delivered(v)
      BY <1>1, <2>1, BuffersUntouched
    <3>2. d \in Seq(Items) /\ Len(d) \in Nat /\ d' = d
      BY <3>1, DeliveredType
    <3> HIDE DEF d
    <3> QED BY <3>1, <3>2
  <2>2. CASE buffer' = [buffer EXCEPT ![w] = Append(@, Overflow)]
    <3>1. /\ \A v \in Watchers : v # w => Delivered(v)' = Delivered(v)
          /\ d' \in Seq(Items) /\ Len(d') = Len(d) + 1 /\ Len(d) \in Nat
          /\ \A i \in 1..Len(d) : d'[i] = d[i]
          /\ d'[Len(d) + 1] = Overflow
      BY <1>1, <2>2, AppendDelivers, OverflowItem, DeliveredType
    <3> HIDE DEF d
    <3>2. Len(d') >= Len(d) /\ \A i \in 1..Len(d) : i \in 1..Len(d') /\ d'[i] = d[i]
      BY <3>1
    <3>3. \A i \in 1..Len(d') : i \in 1..Len(d) \/ (i = Len(d') /\ d'[i] = Overflow)
      BY <3>1
    <3> QED BY <3>1, <3>2, <3>3
  <2> QED BY <1>2, <2>1, <2>2
<1>7. SeqIncreases' /\ VerdictLast' /\ \A v \in Watchers : v # w => Numbers(v)' = Numbers(v)
  <2>1. CASE buffer' = buffer
    <3>1. \A v \in Watchers : Delivered(v)' = Delivered(v)
      BY <1>1, <2>1, BuffersUntouched
    <3> QED BY <3>1 DEF StreamFaithful, SeqIncreases, VerdictLast, Numbers
  <2>2. CASE buffer' = [buffer EXCEPT ![w] = Append(@, Overflow)]
    BY <1>1, <1>3, <2>2, AppendFaithful, OverflowItem DEF StreamFaithful
  <2> QED BY <1>2, <2>1, <2>2
<1>8. TypeOK'
  <2>1. buffer' \in [Watchers -> Seq(Items)] /\ \A v \in Watchers : Len(buffer'[v]) <= Capacity
    <3>1. CASE buffer' = buffer
      BY <3>1 DEF TypeOK
    <3>2. CASE buffer' = [buffer EXCEPT ![w] = Append(@, Overflow)] /\ HasRoom(w)
      <4>1. /\ Append(buffer[w], Overflow) \in Seq(Items)
            /\ Len(Append(buffer[w], Overflow)) = Len(buffer[w]) + 1
        BY OverflowItem DEF TypeOK
      <4>2. Len(buffer[w]) + 1 <= Capacity
        BY <3>2 DEF HasRoom, TypeOK
      <4> QED BY <3>2, <4>1, <4>2 DEF TypeOK
    <3> QED BY <1>2, <3>1, <3>2
  <2>2. emitting' \in [step : {"idle", "drawn", "sending"}, job : Jobs \cup {None},
                       seq : 0..MaxEvents, todo : SUBSET Watchers, full : SUBSET Watchers]
    BY <1>1 DEF TypeOK
  <2>3. subs' \in [Jobs -> SUBSET Watchers]
    <3>1. subs[j] \ {w} \in SUBSET Watchers
      BY <1>3 DEF TypeOK
    <3> QED BY <1>1, <3>1 DEF TypeOK, j
  <2> QED BY <1>1, <2>1, <2>2, <2>3 DEF TypeOK
<1>9. EmitOK'
  BY <1>1, <1>3, <1>4, <1>5, Shapes DEF EmitOK, j
<1>10. RegistryOK'
  BY <1>1, <1>3, <1>4, <1>5, Shapes DEF RegistryOK, Over, j
<1>11. NumbersOK'
  <2>1. ASSUME NEW v \in Watchers, NEW i \in 1..Len(Delivered(v)')
        PROVE  /\ Delivered(v)'[i].seq <= lastSeq
               /\ v \in emitting'.todo \cup emitting'.full => Delivered(v)'[i].seq < lastSeq
    <3>1. CASE v # w
      BY <1>4, <1>6, <3>1 DEF NumbersOK
    <3>2. CASE v = w
      BY <1>3, <1>4, <1>6, <3>2, Shapes, OverflowItem DEF NumbersOK
    <3> QED BY <3>1, <3>2
  <2> QED BY <1>1, <1>3, <1>4, <2>1 DEF NumbersOK
<1>12. \A v \in Watchers : NoVerdict(v) => NoVerdict(v)'
  <2>1. NoVerdict(w)'
    BY <1>3, <1>6, OverflowItem DEF NoVerdict
  <2> QED BY <1>6, <2>1 DEF NoVerdict
<1>13. VerdictOK'
  <2>1. ASSUME NEW k \in Jobs, phase[k] = "live", NEW v \in subs'[k]
        PROVE  NoVerdict(v)'
    <3>1. v \in subs[k]
      BY <1>5
    <3> QED BY <1>12, <2>1, <3>1, Shapes DEF VerdictOK
  <2>2. \A v \in emitting'.todo \cup emitting'.full : NoVerdict(v)'
    BY <1>4, <1>12, Shapes DEF VerdictOK
  <2> QED BY <1>1, <1>3, <1>4, <2>1, <2>2 DEF VerdictOK
<1>14. ItemsOK'
  <2>1. \A v \in Watchers : stream'[v] = "new" => seen'[v] = <<>> /\ buffer'[v] = <<>>
    BY <1>1, <1>2, <1>5 DEF ItemsOK, TypeOK
  <2>2. \A v \in Watchers : stream'[v] \in {"open", "shut", "done"} => Len(Delivered(v)') > 0
    BY <1>1, <1>5, <1>6 DEF ItemsOK, TypeOK
  <2>3. \A v \in Watchers : \A i \in 1..Len(Delivered(v)') :
          Delivered(v)'[i].kind = "overflow" => v \in evicted'
    BY <1>1, <1>6 DEF ItemsOK
  <2> QED BY <2>1, <2>2, <2>3 DEF ItemsOK
<1>15. NobodyLeftBehind'
  BY <1>1, <1>4, <1>5 DEF NobodyLeftBehind, j
<1>16. NoGap'
  <2> SUFFICES ASSUME NEW v \in Watchers,
                      stream'[v] \in {"open", "shut", "done"}, v \notin evicted',
                      NEW n \in sent'[watching'[v]], n > Delivered(v)'[1].seq
               PROVE  \/ n \in Numbers(v)'
                      \/ /\ emitting'.job = watching'[v] /\ n = emitting'.seq
                         /\ v \in emitting'.todo \cup emitting'.full
    BY DEF NoGap
  <2>1. v # w
    BY <1>1
  <2> QED BY <1>1, <1>4, <1>5, <1>6, <1>7, <2>1 DEF StreamFaithful, NoGap, j
<1> QED BY <1>7, <1>8, <1>9, <1>10, <1>11, <1>13, <1>14, <1>15, <1>16 DEF StreamFaithful

(* The snapshot is newer than every event that was broadcast, and it is    *)
(* taken when none is under way.                                           *)
LEMMA WatchKeeps ==
  ASSUME StreamInv, NEW w \in Watchers, NEW j \in Jobs, WatchJob(w, j)
  PROVE  StreamInv'
<1> USE DEF StreamInv
<1> DEFINE x == Event(j, lastSeq + 1)
           d == Delivered(w)
<1>1. /\ stream[w] = "new" /\ emitting.step = "idle" /\ phase[j] \in {"live", "over"}
      /\ lastSeq < MaxEvents /\ lastSeq' = lastSeq + 1
      /\ watching' = [watching EXCEPT ![w] = j]
      /\ buffer' = [buffer EXCEPT ![w] = <<x>>]
      /\ stream' = [stream EXCEPT ![w] = IF phase[j] = "live" THEN "open" ELSE "shut"]
      /\ subs' = IF phase[j] = "live" THEN [subs EXCEPT ![j] = @ \cup {w}] ELSE subs
      /\ phase' = phase /\ emitting' = emitting /\ closing' = closing /\ sent' = sent
      /\ seen' = seen /\ evicted' = evicted
  BY DEF WatchJob, SnapshotLocked, JobsLockFree, Registers
<1>2. emitting.job = None /\ emitting.todo = {} /\ emitting.full = {} /\ j # None
  BY <1>1 DEF EmitOK
<1>3. /\ x \in Items /\ x.seq = lastSeq + 1
      /\ x.kind = IF phase[j] = "over" THEN "verdict" ELSE "event"
  <2>1. lastSeq + 1 \in 0..MaxEvents
    BY <1>1, Shapes
  <2> QED BY <2>1, EventItem
<1> HIDE DEF x
<1>4. <<x>> \in Seq(Items) /\ Len(<<x>>) = 1 /\ <<x>>[1] = x
  BY <1>3
<1>5. /\ \A v \in Watchers : v # w => Delivered(v)' = Delivered(v)
      /\ Delivered(w)' = <<x>>
  <2>1. seen[w] = <<>> /\ buffer'[w] = <<x>>
    BY <1>1 DEF ItemsOK, TypeOK
  <2>2. <<>> \o <<x>> = <<x>>
    BY <1>4, ConcatEmptySeq
  <2>3. Delivered(w)' = <<x>>
    BY <1>1, <2>1, <2>2 DEF Delivered
  <2>4. \A v \in Watchers : v # w => Delivered(v)' = Delivered(v)
    BY <1>1 DEF Delivered, TypeOK
  <2> QED BY <2>3, <2>4
<1>6. /\ Len(d') = 1 /\ d'[1] = x /\ \A i \in 1..Len(d') : i = 1
  BY <1>4, <1>5
<1>7. /\ watching'[w] = j /\ stream'[w] = IF phase[j] = "live" THEN "open" ELSE "shut"
      /\ \A v \in Watchers : v # w => watching'[v] = watching[v] /\ stream'[v] = stream[v]
                                        /\ buffer'[v] = buffer[v]
      /\ \A k \in Jobs : k # j => subs'[k] = subs[k]
      /\ subs'[j] = IF phase[j] = "live" THEN subs[j] \cup {w} ELSE subs[j]
  BY <1>1 DEF TypeOK
<1>8. \A k \in Jobs : w \notin subs[k]
  BY <1>1 DEF RegistryOK
<1>9. TypeOK'
  <2>1. lastSeq' \in 0..MaxEvents
    BY <1>1, Shapes
  <2>2. buffer' \in [Watchers -> Seq(Items)] /\ \A v \in Watchers : Len(buffer'[v]) <= Capacity
    BY <1>1, <1>4 DEF TypeOK
  <2>3. subs' \in [Jobs -> SUBSET Watchers]
    <3>1. CASE phase[j] = "live"
      <4>1. subs[j] \cup {w} \in SUBSET Watchers
        BY DEF TypeOK
      <4> QED BY <1>1, <3>1, <4>1 DEF TypeOK
    <3>2. CASE phase[j] # "live"
      BY <1>1, <3>2 DEF TypeOK
    <3> QED BY <3>1, <3>2
  <2> QED BY <1>1, <2>1, <2>2, <2>3 DEF TypeOK
<1>10. EmitOK'
  BY <1>1, <1>2 DEF EmitOK
<1>11. RegistryOK'
  <2>1. \A v \in Watchers : stream'[v] # "new" => watching'[v] \in Jobs
    BY <1>7 DEF RegistryOK
  <2>2. ASSUME NEW k \in Jobs, NEW v \in subs'[k]
        PROVE  watching'[v] = k /\ stream'[v] # "new"
    <3>1. CASE v = w
      BY <1>7, <1>8, <2>2, <3>1
    <3>2. CASE v # w
      BY <1>7, <2>2, <3>2, Shapes DEF RegistryOK
    <3> QED BY <3>1, <3>2
  <2>3. \A k \in closing' : Over(k)' /\ emitting'.job # k
    BY <1>1 DEF RegistryOK, Over
  <2>4. ASSUME NEW v \in Watchers, stream'[v] = "open" PROVE v \in subs'[watching'[v]]
    <3>1. CASE v = w
      BY <1>7, <2>4, <3>1
    <3>2. CASE v # w
      BY <1>7, <2>4, <3>2 DEF RegistryOK
    <3> QED BY <3>1, <3>2
  <2>5. ASSUME NEW v \in Watchers, stream'[v] \in {"shut", "done"}, v \notin evicted
        PROVE  phase[watching'[v]] \in {"over", "gone"} /\ emitting.job # watching'[v]
    <3>1. CASE v = w
      BY <1>1, <1>2, <1>7, <2>5, <3>1
    <3>2. CASE v # w
      BY <1>7, <2>5, <3>2 DEF RegistryOK, Over
    <3> QED BY <3>1, <3>2
  <2> QED BY <1>1, <2>1, <2>2, <2>3, <2>4, <2>5 DEF RegistryOK, Over
<1>12. NumbersOK'
  <2>1. ASSUME NEW v \in Watchers, NEW i \in 1..Len(Delivered(v)')
        PROVE  Delivered(v)'[i].seq <= lastSeq + 1
    <3>1. CASE v # w
      <4>1. i \in 1..Len(Delivered(v)) /\ Delivered(v)'[i] = Delivered(v)[i]
        BY <1>5, <3>1
      <4>2. Delivered(v)[i].seq <= lastSeq /\ Delivered(v)[i].seq \in Nat /\ lastSeq \in Nat
        BY <4>1, Shapes DEF NumbersOK
      <4> QED BY <4>1, <4>2
    <3>2. CASE v = w
      <4>1. i = 1 /\ Delivered(v)'[i] = x
        BY <1>6, <3>2
      <4>2. x.seq <= lastSeq + 1
        BY <1>3, Shapes
      <4> QED BY <4>1, <4>2
    <3> QED BY <3>1, <3>2
  <2>2. \A k \in Jobs : \A n \in sent[k] : n <= lastSeq + 1
    BY Shapes DEF NumbersOK
  <2> QED BY <1>1, <1>2, <2>1, <2>2 DEF NumbersOK
<1>13. VerdictOK'
  <2>1. ASSUME NEW k \in Jobs, phase[k] = "live", NEW v \in subs'[k]
        PROVE  NoVerdict(v)'
    <3>1. CASE v = w
      <4>1. phase[j] = "live"
        BY <1>7, <1>8, <2>1, <3>1
      <4> QED BY <1>3, <1>6, <3>1, <4>1 DEF NoVerdict
    <3>2. CASE v # w
      <4>1. v \in subs[k]
        BY <1>7, <2>1, <3>2
      <4> QED BY <1>5, <2>1, <3>2, <4>1, Shapes DEF VerdictOK, NoVerdict
    <3> QED BY <3>1, <3>2
  <2> QED BY <1>1, <1>2, <2>1 DEF VerdictOK
<1>14. ItemsOK'
  <2>1. \A v \in Watchers : stream'[v] = "new" => seen'[v] = <<>> /\ buffer'[v] = <<>>
    BY <1>1, <1>7 DEF ItemsOK
  <2>2. \A v \in Watchers : stream'[v] \in {"open", "shut", "done"} => Len(Delivered(v)') > 0
    BY <1>5, <1>6, <1>7 DEF ItemsOK
  <2>3. ASSUME NEW v \in Watchers, NEW i \in 1..Len(Delivered(v)'),
               Delivered(v)'[i].kind = "overflow"
        PROVE  v \in evicted
    <3>1. CASE v # w
      BY <1>5, <2>3, <3>1 DEF ItemsOK
    <3>2. CASE v = w
      BY <1>3, <1>6, <2>3, <3>2
    <3> QED BY <3>1, <3>2
  <2> QED BY <1>1, <2>1, <2>2, <2>3 DEF ItemsOK
<1>15. NobodyLeftBehind'
  BY <1>1, <1>7 DEF NobodyLeftBehind
<1>16. SeqIncreases'
  <2> SUFFICES ASSUME NEW v \in Watchers, NEW i \in 1..Len(Delivered(v)'),
                      NEW k \in 1..Len(Delivered(v)'), i < k, Delivered(v)'[k] # Overflow
               PROVE  Delivered(v)'[i].seq < Delivered(v)'[k].seq
    BY DEF SeqIncreases, Overflow
  <2>1. CASE v # w
    BY <1>5, <2>1 DEF StreamFaithful, SeqIncreases
  <2>2. CASE v = w
    <3>1. i = 1 /\ k = 1
      BY <1>6, <2>2
    <3> QED BY <3>1
  <2> QED BY <2>1, <2>2
<1>17. VerdictLast'
  <2> SUFFICES ASSUME NEW v \in Watchers, NEW i \in 1..Len(Delivered(v)'),
                      Delivered(v)'[i].kind = "verdict"
               PROVE  i = Len(Delivered(v)')
    BY DEF VerdictLast
  <2>1. CASE v # w
    BY <1>5, <2>1 DEF StreamFaithful, VerdictLast
  <2>2. CASE v = w
    BY <1>6, <2>2
  <2> QED BY <2>1, <2>2
<1>18. NoGap'
  <2> SUFFICES ASSUME NEW v \in Watchers,
                      stream'[v] \in {"open", "shut", "done"}, v \notin evicted',
                      NEW n \in sent'[watching'[v]], n > Delivered(v)'[1].seq
               PROVE  n \in Numbers(v)'
    BY DEF NoGap
  <2>1. CASE v # w
    <3>1. Numbers(v)' = Numbers(v)
      BY <1>5, <2>1 DEF Numbers
    <3> QED BY <1>1, <1>2, <1>5, <1>7, <2>1, <3>1 DEF StreamFaithful, NoGap
  <2>2. CASE v = w
    <3>1. n \in sent[j] /\ n > lastSeq + 1
      BY <1>1, <1>3, <1>6, <1>7, <2>2
    <3>2. n <= lastSeq /\ n \in Nat /\ lastSeq \in Nat
      BY <3>1, Shapes DEF NumbersOK
    <3> QED BY <3>1, <3>2
  <2> QED BY <2>1, <2>2
<1> QED BY <1>9, <1>10, <1>11, <1>12, <1>13, <1>14, <1>15, <1>16, <1>17, <1>18
        DEF StreamFaithful

-----------------------------------------------------------------------------
(* The theorems.                                                           *)

LEMMA InitStream == Init => StreamInv
<1> SUFFICES ASSUME Init PROVE StreamInv
  OBVIOUS
<1>1. \A w \in Watchers : seen[w] = <<>> /\ buffer[w] = <<>> /\ stream[w] = "new"
  BY DEF Init
<1>2. \A w \in Watchers : Delivered(w) = <<>> /\ Len(Delivered(w)) = 0
  <2>1. <<>> \in Seq(Items) /\ Len(<<>>) = 0
    OBVIOUS
  <2>2. <<>> \o <<>> = <<>>
    BY <2>1, ConcatEmptySeq
  <2>3. \A w \in Watchers : Delivered(w) = <<>>
    BY <1>1, <2>2, Zenon DEF Delivered
  <2> QED BY <2>1, <2>3
<1>3. /\ emitting.step = "idle" /\ emitting.job = None
      /\ emitting.todo = {} /\ emitting.full = {}
      /\ closing = {} /\ \A j \in Jobs : subs[j] = {} /\ sent[j] = {}
  BY DEF Init, Idle
<1>4. TypeOK
  BY DEF Init, TypeOK, Idle, Items
<1>5. EmitOK
  BY <1>3 DEF EmitOK
<1>6. RegistryOK /\ NobodyLeftBehind
  BY <1>1, <1>3 DEF RegistryOK, NobodyLeftBehind
<1>7. NumbersOK
  BY <1>2, <1>3 DEF NumbersOK
<1>8. VerdictOK
  BY <1>3 DEF VerdictOK
<1>9. ItemsOK
  BY <1>1, <1>2 DEF ItemsOK
<1>10. StreamFaithful
  BY <1>1, <1>2 DEF StreamFaithful, SeqIncreases, VerdictLast, NoGap
<1> QED BY <1>4, <1>5, <1>6, <1>7, <1>8, <1>9, <1>10 DEF StreamInv

LEMMA IdleKeeps == StreamInv /\ UNCHANGED vars => StreamInv'
<1> SUFFICES ASSUME StreamInv, UNCHANGED vars PROVE StreamInv'
  OBVIOUS
<1> USE DEF StreamInv
<1>1. /\ phase' = phase /\ lastSeq' = lastSeq /\ subs' = subs /\ emitting' = emitting
      /\ closing' = closing /\ sent' = sent /\ watching' = watching
      /\ stream' = stream /\ buffer' = buffer /\ seen' = seen /\ evicted' = evicted
  BY DEF vars, masterVars, clientVars
<1>2. \A w \in Watchers : Delivered(w)' = Delivered(w) /\ Numbers(w)' = Numbers(w)
  BY <1>1, BuffersUntouched DEF Numbers
<1>3. TypeOK' /\ EmitOK' /\ RegistryOK' /\ NobodyLeftBehind'
  BY <1>1 DEF TypeOK, EmitOK, RegistryOK, Over, NobodyLeftBehind
<1>4. NumbersOK' /\ ItemsOK'
  BY <1>1, <1>2 DEF NumbersOK, ItemsOK
<1>5. VerdictOK'
  <2>1. \A k \in Jobs : \A w \in subs[k] : NoVerdict(w)' <=> NoVerdict(w)
    BY <1>2, NoVerdictStays, Shapes
  <2>2. \A w \in emitting.todo \cup emitting.full : NoVerdict(w)'
    BY <1>2, NoVerdictStays, Shapes DEF VerdictOK
  <2>3. emitting.step = "drawn" => emitting.job \in Jobs
    BY Shapes DEF EmitOK
  <2> QED BY <1>1, <2>1, <2>2, <2>3 DEF VerdictOK
<1>6. StreamFaithful'
  BY <1>1, <1>2 DEF StreamFaithful, SeqIncreases, VerdictLast, NoGap
<1> QED BY <1>3, <1>4, <1>5, <1>6

LEMMA StepKeeps == StreamInv /\ Next => StreamInv'
<1> SUFFICES ASSUME StreamInv, Next PROVE StreamInv'
  OBVIOUS
<1>1. ASSUME NEW j \in Jobs, CreateJob(j) PROVE StreamInv'
  <2>1. /\ phase' \in [Jobs -> {"absent", "live", "over", "gone"}] /\ phase'[j] = "live"
        /\ \A k \in Jobs : k # j => phase'[k] = phase[k]
    BY <1>1 DEF CreateJob, StreamInv, TypeOK
  <2> QED BY <1>1, <2>1, DrawKeeps DEF CreateJob
<1>2. ASSUME NEW j \in Jobs, Report(j) PROVE StreamInv'
  <2>1. phase' \in [Jobs -> {"absent", "live", "over", "gone"}]
    BY <1>2 DEF Report, StreamInv, TypeOK
  <2> QED BY <1>2, <2>1, DrawKeeps DEF Report, TakesReport
<1>3. ASSUME NEW j \in Jobs, EndJob(j) PROVE StreamInv'
  <2>1. /\ phase' \in [Jobs -> {"absent", "live", "over", "gone"}] /\ phase'[j] = "over"
        /\ \A k \in Jobs : k # j => phase'[k] = phase[k]
    BY <1>3 DEF EndJob, StreamInv, TypeOK
  <2> QED BY <1>3, <2>1, DrawKeeps DEF EndJob
<1>4. ASSUME NEW j \in Jobs, CollectJob(j) PROVE StreamInv'
  BY <1>4, CollectKeeps
<1>5. ASSUME NEW j \in Jobs, Terminate(j) PROVE StreamInv'
  BY <1>5, TerminateKeeps
<1>6. ASSUME NEW w \in Watchers, NEW j \in Jobs, WatchJob(w, j) PROVE StreamInv'
  BY <1>6, WatchKeeps
<1>7. ASSUME NEW w \in Watchers, Offer(w) PROVE StreamInv'
  BY <1>7, OfferKeeps
<1>8. ASSUME NEW w \in Watchers, Evict(w) PROVE StreamInv'
  BY <1>8, EvictKeeps
<1>9. ASSUME NEW w \in Watchers, Client(w) PROVE StreamInv'
  BY <1>9, ReceiveKeeps, StreamEndsKeeps, LeaveKeeps DEF Client
<1>10. CASE BroadcastBegins
  BY <1>10, BroadcastKeeps
<1>11. CASE HandlerUnlocks
  BY <1>11, UnlockKeeps
<1> QED BY <1>1, <1>2, <1>3, <1>4, <1>5, <1>6, <1>7, <1>8, <1>9, <1>10, <1>11
        DEF Next, Handler

LEMMA StreamInvariance == Spec => []StreamInv
<1>1. StreamInv /\ [Next]_vars => StreamInv'
  BY StepKeeps, IdleKeeps
<1> QED BY InitStream, <1>1, PTL DEF Spec

(* What the client of WatchJob reads is the history of the job from the    *)
(* snapshot on: in order, without a gap, up to the verdict, however        *)
(* handlers, other watchers, evictions and the garbage collector           *)
(* interleave with the two locks.                                          *)
THEOREM StreamsAreFaithful == Spec => []StreamFaithful
BY StreamInvariance, PTL DEF StreamInv

(* No watcher stays registered for a job that nobody will close.           *)
THEOREM NobodyIsLeft == Spec => []NobodyLeftBehind
BY StreamInvariance, PTL DEF StreamInv

-----------------------------------------------------------------------------
(* The sessions.                                                           *)

USE SessionAssumption

Following == {"watching", "prompt", "query", "polling"}

(* Where a session is, and what it knows.                                  *)
Link(w) ==
  /\ step[w] \in {"start", "named"} => stream[w] = "new"
  /\ step[w] \in Following \cup {"named"} => target[w] \in Jobs
  /\ step[w] \in Following => watching[w] = target[w] /\ stream[w] # "new"
  /\ step[w] = "query" => w \in cut \/ stream[w] = "done"
  /\ step[w] = "polling" => w \in cut \cup evicted
  /\ outcome[w] # "none" => step[w] = "done"

(* What its end tells.                                                     *)
Verdict(w) ==
  /\ outcome[w] = "report" => target[w] \in Jobs /\ Over(target[w])
  /\ outcome[w] = "error" =>
       w \in evicted \cup cut \/ (target[w] \in Jobs /\ phase[target[w]] = "gone")

SessionInv == SessionTypeOK /\ StreamInv /\ \A w \in Watchers : Link(w) /\ Verdict(w)

-----------------------------------------------------------------------------
(* What a step of the streams does to a session that does not take it.     *)

(* A job that is over stays so, and an eviction is not taken back.         *)
Onward ==
  /\ \A j \in Jobs : Over(j) => Over(j)'
  /\ \A j \in Jobs : phase[j] = "gone" => phase'[j] = "gone"
  /\ evicted \subseteq evicted'

(* Streams that are new or done are left alone, and no stream changes jobs.*)
Calm(v) == /\ watching'[v] = watching[v]
           /\ stream[v] = "new" <=> stream'[v] = "new"
           /\ stream[v] = "done" => stream'[v] = "done"

LEMMA StepsGoOnward ==
  ASSUME TypeOK, Next \/ UNCHANGED vars
  PROVE  Onward
<1>1. CASE UNCHANGED <<phase, evicted>>
  BY <1>1 DEF Onward, Over
<1>2. ASSUME NEW j \in Jobs, Handler(j) PROVE Onward
  <2>1. evicted' = evicted
    BY <1>2 DEF Handler, CreateJob, Report, EndJob, CollectJob, Terminate, clientVars
  <2>2. \/ phase' = phase
        \/ phase[j] = "absent" /\ phase' = [phase EXCEPT ![j] = "live"]
        \/ phase[j] = "live" /\ phase' = [phase EXCEPT ![j] = "over"]
        \/ phase[j] = "over" /\ phase' = [phase EXCEPT ![j] = "gone"]
    BY <1>2 DEF Handler, CreateJob, Report, EndJob, CollectJob, Terminate
  <2> QED BY <2>1, <2>2 DEF Onward, Over, TypeOK
<1>3. ASSUME NEW w \in Watchers, Offer(w) \/ Evict(w) \/ Client(w) PROVE Onward
  <2>1. phase' = phase /\ evicted \subseteq evicted'
    BY <1>3 DEF Offer, Evict, Client, Receive, StreamEnds, Leave, masterVars
  <2> QED BY <2>1 DEF Onward, Over
<1>4. ASSUME NEW w \in Watchers, NEW j \in Jobs, WatchJob(w, j) PROVE Onward
  BY <1>4 DEF WatchJob, Onward, Over
<1>5. CASE BroadcastBegins \/ HandlerUnlocks
  BY <1>5 DEF BroadcastBegins, HandlerUnlocks, clientVars, Onward, Over
<1> QED BY <1>1, <1>2, <1>3, <1>4, <1>5 DEF Next, vars, masterVars, clientVars

(* The master's part leaves every session calm.                            *)
LEMMA MasterIsCalm ==
  ASSUME TypeOK, NEW v \in Watchers,
         \/ \E j \in Jobs : Handler(j)
         \/ \E w \in Watchers : Offer(w) \/ Evict(w)
         \/ BroadcastBegins \/ HandlerUnlocks
         \/ UNCHANGED vars
  PROVE  Calm(v)
<1>1. CASE UNCHANGED <<watching, stream>>
  BY <1>1 DEF Calm
<1>2. ASSUME NEW j \in Jobs, Terminate(j) PROVE Calm(v)
  BY <1>2 DEF Terminate, Calm
<1>3. ASSUME NEW w \in Watchers, Evict(w) PROVE Calm(v)
  BY <1>3 DEF Evict, Calm, TypeOK
<1>4. ASSUME NEW w \in Watchers, Offer(w) PROVE Calm(v)
  BY <1>4 DEF Offer, Calm
<1>5. ASSUME NEW j \in Jobs, CreateJob(j) \/ Report(j) \/ EndJob(j) \/ CollectJob(j)
      PROVE  Calm(v)
  BY <1>5 DEF CreateJob, Report, EndJob, CollectJob, clientVars, Calm
<1>6. CASE BroadcastBegins \/ HandlerUnlocks
  BY <1>6 DEF BroadcastBegins, HandlerUnlocks, clientVars, Calm
<1> QED BY <1>1, <1>2, <1>3, <1>4, <1>5, <1>6 DEF Handler, vars, clientVars

(* A step at one stream leaves the others calm.                            *)
LEMMA OthersAreCalm ==
  ASSUME TypeOK, NEW w \in Watchers, NEW v \in Watchers, v # w,
         (\E j \in Jobs : WatchJob(w, j)) \/ Client(w)
  PROVE  Calm(v)
<1>1. ASSUME NEW j \in Jobs, WatchJob(w, j) PROVE Calm(v)
  BY <1>1 DEF WatchJob, Calm, TypeOK
<1>2. CASE Client(w)
  BY <1>2 DEF Client, Receive, StreamEnds, Leave, Calm, TypeOK
<1> QED BY <1>1, <1>2

(* A session that does nothing keeps what it knows.                        *)
LEMMA RestKeeps ==
  ASSUME NEW v \in Watchers, Link(v), Verdict(v), Calm(v), Onward, cut \subseteq cut',
         step'[v] = step[v], target'[v] = target[v], outcome'[v] = outcome[v]
  PROVE  Link(v)' /\ Verdict(v)'
<1>1. Link(v)'
  BY DEF Link, Calm, Onward, Following
<1>2. Verdict(v)'
  BY DEF Verdict, Onward, Over
<1> QED BY <1>1, <1>2

-----------------------------------------------------------------------------
(* The sessions are clients of EventStream.                                *)

LEMMA SessionsAreClients ==
  ASSUME SessionInv, SessionNext
  PROVE  Next \/ UNCHANGED vars
<1>1. CASE Master
  BY <1>1 DEF Master, Next
<1>2. ASSUME NEW w \in Watchers, Session(w) PROVE Next \/ UNCHANGED vars
  <2>1. ASSUME NEW j \in Jobs, Create(w, j) \/ Look(w, j) PROVE Next \/ UNCHANGED vars
    BY <2>1 DEF Create, Look, Next, Handler
  <2>2. CASE Subscribe(w)
    <3>1. target[w] \in Jobs /\ WatchJob(w, target[w])
      BY <2>2 DEF Subscribe, SessionInv, Link
    <3> QED BY <3>1 DEF Next
  <2>3. CASE ReadItem(w) \/ EndOfStream(w) \/ StreamBreaks(w) \/ Detach(w)
    BY <2>3 DEF ReadItem, EndOfStream, StreamBreaks, Detach, Next, Client
  <2>4. CASE CancelJob(w)
    <3>1. target[w] \in Jobs
      BY <2>4 DEF CancelJob, SessionInv, Link, Following
    <3> QED BY <2>4, <3>1 DEF CancelJob, Next, Handler
  <2>5. CASE CallFails(w) \/ CtrlC(w) \/ Query(w) \/ Poll(w) \/ GiveUpPolling(w)
    BY <2>5 DEF CallFails, CtrlC, Query, Poll, GiveUpPolling
  <2> QED BY <1>2, <2>1, <2>2, <2>3, <2>4, <2>5 DEF Session
<1> QED BY <1>1, <1>2 DEF SessionNext

(* The queries and polls: what the answer says of the job.                 *)
LEMMA AskKeeps ==
  ASSUME SessionInv, NEW w \in Watchers, step[w] \in {"query", "polling"},
         \/ QueryIsTerminal(w) /\ Ends(w, "report")
         \/ phase[target[w]] = "live" /\ Goes(w, "polling")
         \/ ~QueryIsTerminal(w) /\ phase[target[w]] # "live" /\ Ends(w, "error"),
         UNCHANGED <<vars, target, cut>>
  PROVE  Link(w)' /\ Verdict(w)'
<1>1. /\ Link(w) /\ Verdict(w) /\ SessionTypeOK /\ TypeOK /\ RegistryOK
  BY DEF SessionInv, StreamInv
<1>2. /\ stream' = stream /\ watching' = watching /\ phase' = phase /\ evicted' = evicted
      /\ target' = target /\ cut' = cut
  BY DEF vars, masterVars, clientVars
<1>3. target[w] \in Jobs /\ watching[w] = target[w] /\ stream[w] # "new"
  BY <1>1 DEF Link, Following
<1>4. w \in cut \cup evicted \/ Over(target[w])
  BY <1>1, <1>3 DEF Link, RegistryOK
<1>5. CASE QueryIsTerminal(w) /\ Ends(w, "report")
  <2>1. step'[w] = "done" /\ outcome'[w] = "report" /\ phase[target[w]] = "over"
    BY <1>1, <1>5 DEF Ends, QueryIsTerminal, SessionTypeOK
  <2> QED BY <1>2, <1>3, <2>1 DEF Link, Verdict, Over, Following
<1>6. CASE phase[target[w]] = "live" /\ Goes(w, "polling")
  <2>1. step'[w] = "polling" /\ outcome'[w] = outcome[w] /\ outcome[w] = "none"
    BY <1>1, <1>6 DEF Goes, SessionTypeOK, Link
  <2>2. w \in cut \cup evicted
    BY <1>4, <1>6 DEF Over
  <2> QED BY <1>2, <1>3, <2>1, <2>2 DEF Link, Verdict, Following
<1>7. CASE ~QueryIsTerminal(w) /\ phase[target[w]] # "live" /\ Ends(w, "error")
  <2>1. step'[w] = "done" /\ outcome'[w] = "error" /\ phase[target[w]] # "over"
    BY <1>1, <1>7 DEF Ends, QueryIsTerminal, SessionTypeOK
  <2>2. w \in cut \cup evicted \/ phase[target[w]] = "gone"
    BY <1>4, <2>1 DEF Over
  <2> QED BY <1>2, <1>3, <2>1, <2>2 DEF Link, Verdict, Following
<1> QED BY <1>5, <1>6, <1>7

(* Every step of a session keeps what that session knows.                  *)
LEMMA OwnStepKeeps ==
  ASSUME SessionInv, NEW w \in Watchers, Session(w)
  PROVE  Link(w)' /\ Verdict(w)'
<1>1. /\ Link(w) /\ Verdict(w) /\ SessionTypeOK /\ TypeOK /\ RegistryOK
      /\ ItemsOK /\ target \in [Watchers -> Jobs \cup {None}]
      /\ stream \in [Watchers -> {"new", "open", "shut", "done", "left"}]
      /\ step \in [Watchers -> Steps] /\ outcome \in [Watchers -> Outcomes]
  BY DEF SessionInv, StreamInv, SessionTypeOK, TypeOK
<1>2. ASSUME NEW j \in Jobs, Create(w, j) PROVE Link(w)' /\ Verdict(w)'
  <2>1. /\ step[w] = "start" /\ step'[w] = "named" /\ target'[w] = j
        /\ outcome'[w] = outcome[w] /\ stream' = stream
    BY <1>1, <1>2 DEF Create, Goes, CreateJob, clientVars
  <2> QED BY <1>1, <2>1 DEF Link, Verdict, Following
<1>3. ASSUME NEW j \in Jobs, Look(w, j) PROVE Link(w)' /\ Verdict(w)'
  <2>1. /\ step[w] = "start" /\ target'[w] = j /\ stream' = stream /\ phase' = phase
        /\ cut' = cut
    BY <1>1, <1>3 DEF Look, vars, masterVars, clientVars
  <2>2. CASE phase[j] = "over" /\ Ends(w, "report")
    <3>1. step'[w] = "done" /\ outcome'[w] = "report"
      BY <1>1, <2>2 DEF Ends
    <3> QED BY <2>1, <2>2, <3>1 DEF Link, Verdict, Following, Over
  <2>3. CASE Goes(w, "named")
    <3>1. step'[w] = "named" /\ outcome'[w] = outcome[w]
      BY <1>1, <2>3 DEF Goes
    <3> QED BY <1>1, <2>1, <3>1 DEF Link, Verdict, Following
  <2> QED BY <1>3, <2>2, <2>3 DEF Look
<1>4. CASE CallFails(w)
  <2>1. step'[w] = "done" /\ outcome'[w] = "error" /\ w \in cut'
    BY <1>1, <1>4 DEF CallFails, Ends
  <2> QED BY <2>1 DEF Link, Verdict, Following
<1>5. CASE Subscribe(w)
  <2>1. /\ step[w] = "named" /\ step'[w] = "watching" /\ outcome'[w] = outcome[w]
        /\ target' = target /\ target[w] \in Jobs /\ WatchJob(w, target[w])
    BY <1>1, <1>5 DEF Subscribe, Goes, Link
  <2>2. watching'[w] = target[w] /\ stream'[w] # "new"
    BY <1>1, <2>1 DEF WatchJob, TypeOK
  <2> QED BY <1>1, <2>1, <2>2 DEF Link, Verdict, Following
<1>6. CASE ReadItem(w)
  <2>1. /\ step[w] = "watching" /\ Receive(w) /\ target' = target /\ cut' = cut
        /\ outcome'[w] = outcome[w]
        /\ step'[w] = IF Head(buffer[w]) = Overflow THEN "query" ELSE "watching"
    BY <1>1, <1>6 DEF ReadItem, Goes
  <2>2. /\ watching' = watching /\ evicted' = evicted
        /\ stream'[w] = IF Head(buffer[w]) = Overflow THEN "done" ELSE stream[w]
    BY <1>1, <2>1 DEF Receive
  <2> QED BY <1>1, <2>1, <2>2 DEF Link, Verdict, Following
<1>7. CASE EndOfStream(w)
  <2>1. /\ step[w] = "watching" /\ StreamEnds(w) /\ target' = target /\ cut' = cut
        /\ outcome'[w] = outcome[w] /\ step'[w] = "query"
    BY <1>1, <1>7 DEF EndOfStream, Goes
  <2>2. watching' = watching /\ stream'[w] = "done"
    BY <1>1, <2>1 DEF StreamEnds
  <2> QED BY <1>1, <2>1, <2>2 DEF Link, Verdict, Following
<1>8. CASE StreamBreaks(w)
  <2>1. /\ step[w] = "watching" /\ Leave(w) /\ target' = target /\ w \in cut'
        /\ outcome'[w] = outcome[w] /\ step'[w] = "query"
    BY <1>1, <1>8 DEF StreamBreaks, Goes
  <2>2. watching' = watching /\ stream'[w] = "left"
    BY <1>1, <2>1 DEF Leave
  <2> QED BY <1>1, <2>1, <2>2 DEF Link, Verdict, Following
<1>9. CASE CtrlC(w)
  <2>1. /\ step[w] = "watching" /\ step'[w] = "prompt" /\ outcome'[w] = outcome[w]
        /\ target' = target /\ watching' = watching /\ stream' = stream
    BY <1>1, <1>9 DEF CtrlC, Goes, vars, clientVars
  <2> QED BY <1>1, <2>1 DEF Link, Verdict, Following
<1>10. CASE Detach(w)
  <2>1. step'[w] = "done" /\ outcome'[w] \in {"detached", "killed"}
    BY <1>1, <1>10 DEF Detach, Ends
  <2> QED BY <2>1 DEF Link, Verdict, Following
<1>11. CASE CancelJob(w)
  <2>1. /\ step[w] = "prompt" /\ step'[w] = "watching" /\ outcome'[w] = outcome[w]
        /\ target' = target /\ watching' = watching /\ stream' = stream
    BY <1>1, <1>11 DEF CancelJob, Goes, EndJob, vars, clientVars
  <2> QED BY <1>1, <2>1 DEF Link, Verdict, Following
<1>12. CASE Query(w)
  BY <1>12, AskKeeps DEF Query
<1>13. CASE Poll(w)
  BY <1>13, AskKeeps DEF Poll
<1>14. CASE GiveUpPolling(w)
  <2>1. /\ step[w] = "polling" /\ step'[w] = "done" /\ outcome'[w] = "error"
        /\ cut' = cut /\ evicted' = evicted
    BY <1>1, <1>14 DEF GiveUpPolling, Ends, vars, clientVars
  <2> QED BY <1>1, <2>1 DEF Link, Verdict, Following
<1> QED BY <1>2, <1>3, <1>4, <1>5, <1>6, <1>7, <1>8, <1>9, <1>10, <1>11, <1>12, <1>13, <1>14
        DEF Session

LEMMA SessionTypes ==
  ASSUME SessionTypeOK, TypeOK', SessionNext
  PROVE  SessionTypeOK'
<1>1. CASE Master
  BY <1>1 DEF Master, sessionVars, SessionTypeOK
<1>2. ASSUME NEW w \in Watchers, Session(w) PROVE SessionTypeOK'
  <2> DEFINE Gone == \E s \in Steps : Goes(w, s)
             Ended == \E how \in Outcomes : Ends(w, how)
  <2>1. Gone \/ Ended => step' \in [Watchers -> Steps] /\ outcome' \in [Watchers -> Outcomes]
    BY DEF Goes, Ends, SessionTypeOK, Steps
  <2>2. \A s \in {"named", "watching", "prompt", "query", "polling"} : s \in Steps
    BY DEF Steps
  <2>3. \A how \in {"report", "detached", "killed", "error"} : how \in Outcomes
    BY DEF Outcomes
  <2>4. ASSUME NEW j \in Jobs, Create(w, j) \/ Look(w, j) PROVE SessionTypeOK'
    <3>1. Gone \/ Ended
      BY <2>2, <2>3, <2>4 DEF Create, Look
    <3>2. target' = [target EXCEPT ![w] = j] /\ polls' = polls /\ cut' = cut
      BY <2>4 DEF Create, Look
    <3> QED BY <2>1, <3>1, <3>2 DEF SessionTypeOK
  <2>5. CASE CallFails(w) \/ Subscribe(w) \/ EndOfStream(w) \/ StreamBreaks(w)
               \/ CtrlC(w) \/ Detach(w) \/ CancelJob(w) \/ GiveUpPolling(w)
    <3>1. Gone \/ Ended
      BY <2>2, <2>3, <2>5 DEF CallFails, Subscribe, EndOfStream, StreamBreaks,
                              CtrlC, Detach, CancelJob, GiveUpPolling
    <3>2. target' = target /\ polls' = polls /\ cut' \in {cut, cut \cup {w}}
      BY <2>5 DEF CallFails, Subscribe, EndOfStream, StreamBreaks,
                  CtrlC, Detach, CancelJob, GiveUpPolling
    <3> QED BY <2>1, <3>1, <3>2 DEF SessionTypeOK
  <2>6. CASE ReadItem(w)
    <3>1. Gone /\ target' = target /\ polls' = polls /\ cut' = cut
      BY <2>2, <2>6 DEF ReadItem
    <3> QED BY <2>1, <3>1 DEF SessionTypeOK
  <2>7. CASE Query(w)
    <3>1. Gone \/ Ended
      BY <2>2, <2>3, <2>7 DEF Query
    <3>2. target' = target /\ polls' = polls /\ cut' = cut
      BY <2>7 DEF Query
    <3> QED BY <2>1, <3>1, <3>2 DEF SessionTypeOK
  <2>8. CASE Poll(w)
    <3>1. Gone \/ Ended
      BY <2>2, <2>3, <2>8 DEF Poll
    <3>2. target' = target /\ cut' = cut /\ polls' \in [Watchers -> 0..MaxPolls]
      BY <2>8 DEF Poll, SessionTypeOK
    <3> QED BY <2>1, <3>1, <3>2 DEF SessionTypeOK
  <2> QED BY <1>2, <2>4, <2>5, <2>6, <2>7, <2>8 DEF Session
<1> QED BY <1>1, <1>2 DEF SessionNext

(* What the session variables of the others do.                            *)
LEMMA OthersKeepStep ==
  ASSUME SessionTypeOK, NEW w \in Watchers, Session(w), NEW v \in Watchers, v # w
  PROVE  /\ step'[v] = step[v] /\ target'[v] = target[v] /\ outcome'[v] = outcome[v]
         /\ cut \subseteq cut'
BY DEF SessionTypeOK, Session, Create, Look, CallFails, Subscribe, ReadItem, EndOfStream,
       StreamBreaks, CtrlC, Detach, CancelJob, Query, Poll, GiveUpPolling, Goes, Ends

(* Only the steps of a session touch its own stream as a client.           *)
LEMMA OthersStayCalm ==
  ASSUME SessionInv, NEW w \in Watchers, Session(w), NEW v \in Watchers, v # w
  PROVE  Calm(v)
<1>1. TypeOK /\ Link(w)
  BY DEF SessionInv, StreamInv
<1>2. ASSUME NEW j \in Jobs, Create(w, j) \/ Look(w, j) PROVE Calm(v)
  BY <1>1, <1>2, MasterIsCalm DEF Create, Look, Handler
<1>3. CASE Subscribe(w)
  BY <1>1, <1>3, OthersAreCalm DEF Subscribe, Link
<1>4. CASE ReadItem(w) \/ EndOfStream(w) \/ StreamBreaks(w) \/ Detach(w)
  BY <1>1, <1>4, OthersAreCalm DEF ReadItem, EndOfStream, StreamBreaks, Detach, Client
<1>5. CASE CancelJob(w)
  BY <1>1, <1>5, MasterIsCalm DEF CancelJob, Handler, Link, Following
<1>6. CASE CallFails(w) \/ CtrlC(w) \/ Query(w) \/ Poll(w) \/ GiveUpPolling(w)
  BY <1>1, <1>6, MasterIsCalm DEF CallFails, CtrlC, Query, Poll, GiveUpPolling
<1> QED BY <1>2, <1>3, <1>4, <1>5, <1>6 DEF Session

-----------------------------------------------------------------------------
(* The theorems.                                                           *)

LEMMA SessionBegin == SessionInit => SessionInv
<1> SUFFICES ASSUME SessionInit PROVE SessionInv
  OBVIOUS
<1>1. StreamInv /\ TypeOK
  BY InitStream DEF SessionInit, StreamInv
<1>2. SessionTypeOK
  BY <1>1 DEF SessionInit, SessionTypeOK, Steps, Outcomes
<1>3. \A w \in Watchers : Link(w) /\ Verdict(w)
  BY DEF SessionInit, Init, Link, Verdict, Following
<1> QED BY <1>1, <1>2, <1>3 DEF SessionInv

LEMMA SessionStep == SessionInv /\ SessionNext => SessionInv'
<1> SUFFICES ASSUME SessionInv, SessionNext PROVE SessionInv'
  OBVIOUS
<1>1. StreamInv /\ TypeOK /\ SessionTypeOK /\ \A w \in Watchers : Link(w) /\ Verdict(w)
  BY DEF SessionInv, StreamInv
<1>2. Next \/ UNCHANGED vars
  BY SessionsAreClients
<1>3. StreamInv' /\ TypeOK'
  <2>1. StreamInv'
    BY <1>1, <1>2, StepKeeps, IdleKeeps
  <2> QED BY <2>1 DEF StreamInv
<1>4. SessionTypeOK'
  BY <1>1, <1>3, SessionTypes
<1>5. Onward
  BY <1>1, <1>2, StepsGoOnward
<1>6. ASSUME NEW v \in Watchers PROVE Link(v)' /\ Verdict(v)'
  <2>1. CASE Master
    <3>1. Calm(v)
      BY <1>1, <2>1, MasterIsCalm DEF Master
    <3>2. /\ step'[v] = step[v] /\ target'[v] = target[v] /\ outcome'[v] = outcome[v]
          /\ cut \subseteq cut'
      BY <2>1 DEF Master, sessionVars
    <3> QED BY <1>1, <1>5, <3>1, <3>2, RestKeeps
  <2>2. CASE Session(v)
    BY <2>2, OwnStepKeeps
  <2>3. ASSUME NEW w \in Watchers, w # v, Session(w) PROVE Link(v)' /\ Verdict(v)'
    <3>1. Calm(v)
      BY <2>3, OthersStayCalm
    <3>2. /\ step'[v] = step[v] /\ target'[v] = target[v] /\ outcome'[v] = outcome[v]
          /\ cut \subseteq cut'
      BY <1>1, <2>3, OthersKeepStep
    <3> QED BY <1>1, <1>5, <3>1, <3>2, RestKeeps
  <2> QED BY <2>1, <2>2, <2>3 DEF SessionNext
<1> QED BY <1>3, <1>4, <1>6 DEF SessionInv

LEMMA SessionRest == SessionInv /\ UNCHANGED allVars => SessionInv'
<1> SUFFICES ASSUME SessionInv, UNCHANGED allVars PROVE SessionInv'
  OBVIOUS
<1>1. UNCHANGED vars /\ UNCHANGED sessionVars
  BY DEF allVars
<1>2. StreamInv' /\ TypeOK'
  <2>1. StreamInv'
    BY <1>1, IdleKeeps DEF SessionInv
  <2> QED BY <2>1 DEF StreamInv
<1>3. SessionTypeOK'
  BY <1>1, <1>2 DEF SessionInv, SessionTypeOK, sessionVars
<1>4. \A w \in Watchers : Link(w)' /\ Verdict(w)'
  BY <1>1 DEF SessionInv, Link, Verdict, Following, Over, sessionVars,
              vars, masterVars, clientVars
<1> QED BY <1>2, <1>3, <1>4 DEF SessionInv

LEMMA SessionInvariance == SessionSpec => []SessionInv
<1>1. SessionInv /\ [SessionNext]_allVars => SessionInv'
  BY SessionStep, SessionRest
<1> QED BY SessionBegin, <1>1, PTL DEF SessionSpec

(* What a session reads is the history of its job from the snapshot on: in *)
(* order, without a gap, up to the verdict.                                *)
THEOREM SessionsReadHistory == SessionSpec => []HistoryFaithful
<1>1. SessionInv => HistoryFaithful
  BY DEF SessionInv, StreamInv, HistoryFaithful
<1> QED BY <1>1, SessionInvariance, PTL

(* No session stays registered for a job whose streams nobody will close.  *)
THEOREM NoSessionIsLeft == SessionSpec => []NobodyLeftBehind
<1>1. SessionInv => NobodyLeftBehind
  BY DEF SessionInv, StreamInv
<1> QED BY <1>1, SessionInvariance, PTL

(* What a session reports as the verdict is one.                           *)
THEOREM ReportsAreFinal == SessionSpec => []ReportIsFinal
<1>1. SessionInv => ReportIsFinal
  BY DEF SessionInv, Verdict, ReportIsFinal, Over
<1> QED BY <1>1, SessionInvariance, PTL

(* A stream that ends by itself ends because the job is over, and only an  *)
(* eviction, a cut or a collection makes a session fail.                   *)
THEOREM EndsMeanOver == SessionSpec => []EndMeansOver
<1>1. ASSUME SessionInv PROVE EndMeansOver
  <2> SUFFICES ASSUME NEW w \in Watchers
               PROVE  /\ step[w] = "query" /\ w \notin evicted \cup cut =>
                           phase[target[w]] \in {"over", "gone"}
                      /\ outcome[w] = "error" =>
                           w \in evicted \cup cut \/ phase[target[w]] = "gone"
    BY DEF EndMeansOver
  <2>1. Link(w) /\ Verdict(w) /\ RegistryOK
    BY <1>1 DEF SessionInv, StreamInv
  <2> QED BY <2>1 DEF Link, Verdict, RegistryOK, Following, Over
<1> QED BY <1>1, SessionInvariance, PTL

-----------------------------------------------------------------------------
(* The streams implement JobLog: what the watchers of a job are shown, step *)
(* by step.  Only a stream that is still read matters; of it the invariant  *)
(* says where it began, and that whatever else it holds is in the log and   *)
(* leaves out nothing in between.                                           *)

Legible(w) ==
  Reads(w) =>
    /\ Delivered(w)[1] # Overflow /\ Delivered(w)[1].seq > 0
    /\ \A k \in 2..Len(Delivered(w)) :
         Delivered(w)[k] = Overflow \/ Delivered(w)[k].seq \in sent[watching[w]]
    /\ \A k \in 1..Len(Delivered(w)), n \in sent[watching[w]] :
         Delivered(w)[1].seq < n /\ n < Delivered(w)[k].seq => n \in Numbers(w)

Entered   == emitting.step = "sending" => emitting.seq \in sent[emitting.job]
EvictedOK == \A w \in evicted : stream[w] \in {"shut", "done", "left"}
LogInv    == Entered /\ EvictedOK /\ \A w \in Watchers : Legible(w)

LEMMA LegibleStays ==
  ASSUME NEW w \in Watchers, Legible(w), Delivered(w)' = Delivered(w), sent' = sent,
         watching'[w] = watching[w], Reads(w)' => Reads(w)
  PROVE  Legible(w)'
BY DEF Legible, Numbers, Overflow

(* Steps that only touch what the log is made from.                        *)
LEMMA SilentLegible ==
  ASSUME LogInv, UNCHANGED <<sent, watching, stream, buffer, seen>>
  PROVE  \A w \in Watchers : Legible(w)'
<1>1. \A w \in Watchers : Delivered(w)' = Delivered(w) /\ (Reads(w)' <=> Reads(w))
  BY BuffersUntouched DEF Reads
<1> QED BY <1>1, LegibleStays DEF LogInv

(* The number that enters the log is newer than all that was delivered.    *)
LEMMA BroadcastLegible ==
  ASSUME StreamInv, LogInv, BroadcastBegins
  PROVE  \A w \in Watchers : Legible(w)'
<1>1. /\ emitting.step = "drawn" /\ emitting.seq = lastSeq /\ emitting.job \in Jobs
      /\ sent' = [sent EXCEPT ![emitting.job] = @ \cup {emitting.seq}]
      /\ UNCHANGED clientVars
  BY DEF BroadcastBegins, StreamInv, EmitOK, TypeOK
<1>2. \A w \in Watchers : Delivered(w)' = Delivered(w)
  BY <1>1, BuffersUntouched DEF clientVars
<1>3. \A j \in Jobs : sent'[j] \subseteq sent[j] \cup {lastSeq} /\ sent[j] \subseteq sent'[j]
  BY <1>1 DEF StreamInv, TypeOK
<1>4. ASSUME NEW w \in Watchers PROVE Legible(w)'
  <2> SUFFICES ASSUME Reads(w) PROVE Legible(w)'
    BY <1>1 DEF Legible, Reads, clientVars
  <2>1. watching'[w] = watching[w] /\ watching[w] \in Jobs
    BY <1>1 DEF clientVars, Reads, StreamInv, RegistryOK
  <2>2. \A k \in 1..Len(Delivered(w)) :
          Delivered(w)[k].seq <= lastSeq /\ Delivered(w)[k].seq \in Nat
    BY Shapes DEF StreamInv, NumbersOK
  <2>3. \A k \in 1..Len(Delivered(w)), n \in sent'[watching[w]] :
          Delivered(w)[1].seq < n /\ n < Delivered(w)[k].seq => n \in Numbers(w)
    <3> SUFFICES ASSUME NEW k \in 1..Len(Delivered(w)), NEW n \in sent'[watching[w]],
                        Delivered(w)[1].seq < n, n < Delivered(w)[k].seq
                 PROVE  n \in Numbers(w)
      OBVIOUS
    <3>1. n # lastSeq
      BY <2>2, Shapes DEF StreamInv
    <3>2. n \in sent[watching[w]]
      BY <1>3, <2>1, <3>1
    <3> QED BY <3>2 DEF LogInv, Legible
  <2>4. \A k \in 2..Len(Delivered(w)) :
          Delivered(w)[k] = Overflow \/ Delivered(w)[k].seq \in sent'[watching[w]]
    BY <1>3, <2>1 DEF LogInv, Legible
  <2>5. Numbers(w)' = Numbers(w)
    BY <1>2 DEF Numbers
  <2> QED BY <1>2, <2>1, <2>3, <2>4, <2>5 DEF LogInv, Legible, Overflow
<1> QED BY <1>4

(* An item that is added to a stream: an event that is in the log by now,   *)
(* or the word that ends it.                                                *)
LEMMA AppendLegible ==
  ASSUME StreamInv, LogInv, NEW w \in Watchers, stream[w] = "open", NEW x \in Items,
         x = Overflow \/ (x.seq \in sent[watching[w]] /\ x.seq = lastSeq
                          /\ emitting.job = watching[w] /\ emitting.seq = x.seq
                          /\ w \in emitting.todo),
         buffer' = [buffer EXCEPT ![w] = Append(@, x)], seen' = seen,
         UNCHANGED <<sent, watching>>, Reads(w)'
  PROVE  Legible(w)'
<1> DEFINE d == Delivered(w)
<1>1. /\ d' \in Seq(Items) /\ Len(d') = Len(d) + 1 /\ Len(d) \in Nat
      /\ \A i \in 1..Len(d) : d'[i] = d[i]
      /\ d'[Len(d) + 1] = x
  BY AppendDelivers, DeliveredType DEF StreamInv
<1>2. /\ Len(d) > 0 /\ d'[1] = d[1] /\ w \notin evicted /\ Reads(w) /\ watching'[w] = watching[w]
      /\ watching[w] \in Jobs
  BY <1>1 DEF StreamInv, ItemsOK, LogInv, EvictedOK, Reads, RegistryOK
<1>3. \A i \in 1..Len(d') : i \in 1..Len(d) \/ i = Len(d) + 1
  BY <1>1
<1>4. Numbers(w) \subseteq Numbers(w)' /\ x.seq \in Numbers(w)'
  <2>1. \A i \in 1..Len(d) : i \in 1..Len(d') /\ d'[i].seq = d[i].seq
    BY <1>1
  <2>2. Len(d) + 1 \in 1..Len(d')
    BY <1>1
  <2> QED BY <1>1, <2>1, <2>2 DEF Numbers
<1>5. \A k \in 2..Len(d') : d'[k] = Overflow \/ d'[k].seq \in sent[watching[w]]
  <2> SUFFICES ASSUME NEW k \in 2..Len(d')
               PROVE  d'[k] = Overflow \/ d'[k].seq \in sent[watching[w]]
    OBVIOUS
  <2>1. CASE k \in 1..Len(d)
    <3>1. k \in 2..Len(d) /\ d'[k] = d[k]
      BY <1>1, <2>1
    <3> QED BY <1>2, <3>1 DEF LogInv, Legible
  <2>2. CASE k = Len(d) + 1
    BY <1>1, <2>2
  <2>3. k \in 1..Len(d')
    BY <1>1
  <2> QED BY <1>3, <2>1, <2>2, <2>3
<1>6. ASSUME NEW k \in 1..Len(d'), NEW n \in sent[watching[w]], d[1].seq < n, n < d'[k].seq
      PROVE  n \in Numbers(w)'
  <2>1. CASE k \in 1..Len(d)
    <3>1. n < d[k].seq
      BY <1>1, <1>6, <2>1
    <3>2. n \in Numbers(w)
      BY <1>2, <1>6, <2>1, <3>1 DEF LogInv, Legible
    <3> QED BY <1>4, <3>2
  <2>2. CASE k = Len(d) + 1
    <3>1. n < x.seq /\ n \in Nat
      BY <1>1, <1>2, <1>6, <2>2, Shapes DEF StreamInv
    <3>2. x # Overflow
      BY <3>1, OverflowItem
    <3>3. {m \in sent[watching[w]] : m > d[1].seq} \subseteq Numbers(w) \cup {x.seq}
      BY <1>2, <3>2 DEF StreamInv, StreamFaithful, NoGap
    <3>4. d[1].seq \in Nat
      BY <1>2, <1>1, Shapes DEF StreamInv
    <3>5. n \in Numbers(w) \cup {x.seq}
      BY <1>6, <3>1, <3>3, <3>4
    <3> QED BY <1>4, <3>5
  <2> QED BY <1>3, <2>1, <2>2
<1> QED BY <1>2, <1>5, <1>6 DEF LogInv, Legible, Overflow

LEMMA OfferLegible ==
  ASSUME StreamInv, LogInv, NEW w \in Watchers, Offer(w)
  PROVE  \A v \in Watchers : Legible(v)'
<1>1. /\ UNCHANGED <<sent, watching, stream, seen, evicted>> /\ w \in emitting.todo
      /\ buffer' = buffer
           \/ (stream[w] = "open"
               /\ buffer' = [buffer EXCEPT ![w] = Append(@, Event(emitting.job, emitting.seq))])
  BY DEF Offer
<1>2. CASE buffer' = buffer
  BY <1>1, <1>2, SilentLegible
<1>3. CASE /\ stream[w] = "open"
           /\ buffer' = [buffer EXCEPT ![w] = Append(@, Event(emitting.job, emitting.seq))]
  <2> DEFINE x == Event(emitting.job, emitting.seq)
  <2>1. x \in Items /\ x.seq = emitting.seq
    BY Shapes, EventItem DEF StreamInv
  <2>2. /\ emitting.step = "sending" /\ emitting.seq = lastSeq
        /\ watching[w] = emitting.job
    BY <1>1, Shapes DEF StreamInv, EmitOK
  <2>3. emitting.seq \in sent[emitting.job]
    BY <2>2 DEF LogInv, Entered
  <2> HIDE DEF x
  <2>4. Legible(w)'
    BY <1>1, <1>3, <2>1, <2>2, <2>3, AppendLegible DEF Reads, x
  <2>5. \A v \in Watchers : v # w => Legible(v)'
    BY <1>1, <1>3, <2>1, AppendDelivers, LegibleStays DEF StreamInv, LogInv, Reads, x
  <2> QED BY <2>4, <2>5
<1> QED BY <1>1, <1>2, <1>3

LEMMA EvictLegible ==
  ASSUME StreamInv, LogInv, NEW w \in Watchers, Evict(w)
  PROVE  \A v \in Watchers : Legible(v)'
<1>1. /\ UNCHANGED <<sent, watching, seen>>
      /\ stream' = [stream EXCEPT ![w] = IF @ = "open" THEN "shut" ELSE @]
  BY DEF Evict
<1>2. \A v \in Watchers : Reads(v)' <=> Reads(v)
  BY <1>1 DEF Reads, StreamInv, TypeOK
<1>3. CASE stream[w] = "open" /\ HasRoom(w)
  <2>1. buffer' = [buffer EXCEPT ![w] = Append(@, Overflow)]
    BY <1>3 DEF Evict
  <2>2. Reads(w)'
    BY <1>2, <1>3 DEF Reads
  <2>3. Legible(w)'
    BY <1>1, <1>3, <2>1, <2>2, OverflowItem, AppendLegible
  <2>4. \A v \in Watchers : v # w => Legible(v)'
    BY <1>1, <1>2, <2>1, OverflowItem, AppendDelivers, LegibleStays DEF StreamInv, LogInv
  <2> QED BY <2>3, <2>4
<1>4. CASE ~(stream[w] = "open" /\ HasRoom(w))
  <2>1. buffer' = buffer
    BY <1>4 DEF Evict, StreamInv, TypeOK
  <2>2. \A v \in Watchers : Delivered(v)' = Delivered(v)
    BY <1>1, <2>1, BuffersUntouched
  <2> QED BY <1>1, <1>2, <2>2, LegibleStays DEF LogInv
<1> QED BY <1>3, <1>4

(* A client that reads moves an item; one that goes is of no more interest. *)
LEMMA ClientLegible ==
  ASSUME StreamInv, LogInv, NEW w \in Watchers, Client(w)
  PROVE  \A v \in Watchers : Legible(v)'
<1>1. CASE Receive(w)
  <2>1. /\ UNCHANGED <<sent, watching>>
        /\ stream' = [stream EXCEPT ![w] = IF Head(buffer[w]) = Overflow THEN "done" ELSE @]
    BY <1>1 DEF Receive, masterVars
  <2>2. \A v \in Watchers : Reads(v)' => Reads(v)
    BY <2>1 DEF Reads, StreamInv, TypeOK
  <2>3. \A v \in Watchers : Delivered(v)' = Delivered(v)
    BY <1>1, ReceiveMoves DEF StreamInv
  <2> QED BY <2>1, <2>2, <2>3, LegibleStays DEF LogInv
<1>2. CASE StreamEnds(w) \/ Leave(w)
  <2>1. /\ UNCHANGED <<sent, watching, seen>>
        /\ \A v \in Watchers : v # w => stream'[v] = stream[v] /\ buffer'[v] = buffer[v]
        /\ stream'[w] \in {"done", "left"}
    BY <1>2 DEF StreamEnds, Leave, masterVars, StreamInv, TypeOK
  <2>2. Legible(w)'
    BY <2>1 DEF Legible, Reads
  <2>3. \A v \in Watchers : v # w => Delivered(v)' = Delivered(v) /\ (Reads(v)' <=> Reads(v))
    BY <2>1 DEF Delivered, Reads
  <2>4. \A v \in Watchers : v # w => Legible(v)'
    BY <2>1, <2>3, LegibleStays DEF LogInv
  <2> QED BY <2>2, <2>4
<1> QED BY <1>1, <1>2 DEF Client

(* The snapshot is all there is of a new stream.                           *)
LEMMA WatchDelivers ==
  ASSUME StreamInv, NEW w \in Watchers, NEW j \in Jobs, WatchJob(w, j)
  PROVE  /\ Len(Delivered(w)') = 1 /\ Delivered(w)'[1].seq = lastSeq + 1
         /\ Delivered(w)'[1] # Overflow
         /\ \A v \in Watchers : v # w => Delivered(v)' = Delivered(v)
<1> DEFINE x == Event(j, lastSeq + 1)
<1>1. /\ stream[w] = "new" /\ lastSeq < MaxEvents
      /\ buffer' = [buffer EXCEPT ![w] = <<x>>] /\ seen' = seen
  BY DEF WatchJob
<1>2. x \in Items /\ x.seq = lastSeq + 1 /\ lastSeq \in Nat
  <2>1. lastSeq + 1 \in 0..MaxEvents /\ lastSeq \in Nat
    BY <1>1, Shapes DEF StreamInv
  <2> QED BY <2>1, EventItem
<1> HIDE DEF x
<1>3. <<x>> \in Seq(Items) /\ Len(<<x>>) = 1 /\ <<x>>[1] = x
  BY <1>2
<1>4. seen[w] = <<>> /\ buffer'[w] = <<x>>
  BY <1>1 DEF StreamInv, ItemsOK, TypeOK
<1>5. <<>> \o <<x>> = <<x>>
  BY <1>3, ConcatEmptySeq
<1>6. Delivered(w)' = <<x>>
  BY <1>1, <1>4, <1>5 DEF Delivered
<1>7. \A v \in Watchers : v # w => Delivered(v)' = Delivered(v)
  BY <1>1 DEF Delivered, StreamInv, TypeOK
<1>8. x # Overflow
  BY <1>2, OverflowItem
<1> QED BY <1>2, <1>3, <1>6, <1>7, <1>8

LEMMA WatchLegible ==
  ASSUME StreamInv, LogInv, NEW w \in Watchers, NEW j \in Jobs, WatchJob(w, j)
  PROVE  \A v \in Watchers : Legible(v)'
<1>1. /\ Len(Delivered(w)') = 1 /\ Delivered(w)'[1].seq = lastSeq + 1
      /\ Delivered(w)'[1] # Overflow
      /\ \A v \in Watchers : v # w => Delivered(v)' = Delivered(v)
  BY WatchDelivers
<1>2. /\ \A v \in Watchers : v # w => watching'[v] = watching[v] /\ stream'[v] = stream[v]
      /\ sent' = sent
  BY DEF WatchJob, StreamInv, TypeOK
<1>3. Legible(w)'
  <2>1. lastSeq \in Nat
    BY Shapes DEF StreamInv
  <2>2. \A k \in 1..Len(Delivered(w)') : k = 1
    BY <1>1
  <2>3. \A n : ~(lastSeq + 1 < n /\ n < lastSeq + 1) \/ n \notin Int
    BY <2>1
  <2>4. \A k \in 2..Len(Delivered(w)') : FALSE
    BY <1>1
  <2>5. \A k \in 1..Len(Delivered(w)'), n \in sent'[watching'[w]] :
          Delivered(w)'[1].seq < n /\ n < Delivered(w)'[k].seq => FALSE
    <3> SUFFICES ASSUME NEW k \in 1..Len(Delivered(w)'), NEW n \in sent'[watching'[w]],
                        lastSeq + 1 < n, n < Delivered(w)'[k].seq
                 PROVE  FALSE
      BY <1>1
    <3>1. n \in Nat
      <4>1. watching'[w] = j
        BY DEF WatchJob, StreamInv, TypeOK
      <4> QED BY <1>2, <4>1, Shapes DEF StreamInv
    <3>2. n < lastSeq + 1
      BY <1>1, <2>2
    <3> QED BY <2>1, <3>1, <3>2
  <2> QED BY <1>1, <2>1, <2>4, <2>5 DEF Legible, Overflow
<1>4. \A v \in Watchers : v # w => Legible(v)'
  BY <1>1, <1>2, LegibleStays DEF LogInv, Reads
<1> QED BY <1>3, <1>4

LEMMA StepEnters ==
  ASSUME StreamInv, LogInv, Next
  PROVE  Entered'
<1>1. CASE BroadcastBegins
  BY <1>1 DEF BroadcastBegins, Entered, StreamInv, EmitOK, TypeOK
<1>2. ASSUME NEW w \in Watchers, Offer(w) \/ Evict(w) PROVE Entered'
  BY <1>2 DEF Offer, Evict, Entered, LogInv, StreamInv, TypeOK
<1>3. ASSUME \/ \E j \in Jobs : CreateJob(j) \/ Report(j) \/ EndJob(j)
             \/ HandlerUnlocks
      PROVE Entered'
  BY <1>3 DEF CreateJob, Report, EndJob, HandlerUnlocks, Emit, Idle, Entered
<1>4. ASSUME UNCHANGED <<sent, emitting>> PROVE Entered'
  BY <1>4 DEF LogInv, Entered
<1>5. ASSUME NEW w \in Watchers, Client(w) \/ \E j \in Jobs : WatchJob(w, j)
      PROVE  UNCHANGED <<sent, emitting>>
  BY <1>5 DEF Client, Receive, StreamEnds, Leave, WatchJob, masterVars
<1>6. ASSUME NEW j \in Jobs, CollectJob(j) \/ Terminate(j)
      PROVE  UNCHANGED <<sent, emitting>>
  BY <1>6 DEF CollectJob, Terminate
<1> QED BY <1>1, <1>2, <1>3, <1>4, <1>5, <1>6 DEF Next, Handler

LEMMA StepEvicts ==
  ASSUME StreamInv, LogInv, Next
  PROVE  EvictedOK'
<1>1. CASE UNCHANGED <<stream, evicted>>
  BY <1>1 DEF LogInv, EvictedOK
<1>2. ASSUME NEW w \in Watchers, Evict(w) PROVE EvictedOK'
  <2>1. stream[w] # "new"
    BY <1>2, Shapes DEF Evict, StreamInv, EmitOK
  <2> QED BY <1>2, <2>1 DEF Evict, LogInv, EvictedOK, StreamInv, TypeOK
<1>3. ASSUME NEW w \in Watchers, Client(w) PROVE EvictedOK'
  BY <1>3 DEF Client, Receive, StreamEnds, Leave, LogInv, EvictedOK, StreamInv, TypeOK
<1>4. ASSUME NEW w \in Watchers, NEW j \in Jobs, WatchJob(w, j) PROVE EvictedOK'
  BY <1>4 DEF WatchJob, LogInv, EvictedOK, StreamInv, TypeOK
<1>5. ASSUME NEW j \in Jobs, Terminate(j) PROVE EvictedOK'
  BY <1>5 DEF Terminate, LogInv, EvictedOK, StreamInv, TypeOK
<1>6. ASSUME \/ \E j \in Jobs : CreateJob(j) \/ Report(j) \/ EndJob(j) \/ CollectJob(j)
             \/ BroadcastBegins \/ HandlerUnlocks \/ \E w \in Watchers : Offer(w)
      PROVE  UNCHANGED <<stream, evicted>>
  BY <1>6 DEF CreateJob, Report, EndJob, CollectJob, BroadcastBegins, HandlerUnlocks, Offer,
              clientVars
<1> QED BY <1>1, <1>2, <1>3, <1>4, <1>5, <1>6 DEF Next, Handler

LEMMA StepLegible == StreamInv /\ LogInv /\ [Next]_vars => LogInv'
<1> SUFFICES ASSUME StreamInv, LogInv, [Next]_vars PROVE LogInv'
  OBVIOUS
<1>1. CASE UNCHANGED vars
  <2>1. /\ UNCHANGED <<sent, watching, stream, buffer, seen>>
        /\ emitting' = emitting /\ evicted' = evicted
    BY <1>1 DEF vars, masterVars, clientVars
  <2>2. Entered' /\ EvictedOK'
    BY <2>1 DEF LogInv, Entered, EvictedOK
  <2> QED BY <2>1, <2>2, SilentLegible DEF LogInv
<1>2. CASE Next
  <2>1. ASSUME \/ \E j \in Jobs : CreateJob(j) \/ Report(j) \/ EndJob(j) \/ CollectJob(j)
               \/ HandlerUnlocks
        PROVE  UNCHANGED <<sent, watching, stream, buffer, seen>>
    BY <2>1 DEF CreateJob, Report, EndJob, CollectJob, HandlerUnlocks, clientVars
  <2>2. ASSUME NEW j \in Jobs, Terminate(j) PROVE \A w \in Watchers : Legible(w)'
    <3>1. /\ UNCHANGED <<sent, watching, buffer, seen>>
          /\ \A w \in Watchers : Reads(w)' <=> Reads(w)
      BY <2>2 DEF Terminate, Reads, StreamInv, TypeOK
    <3> QED BY <3>1, BuffersUntouched, LegibleStays DEF LogInv
  <2>3. \A w \in Watchers : Legible(w)'
    BY <1>2, <2>1, <2>2, SilentLegible, BroadcastLegible, OfferLegible, EvictLegible, ClientLegible,
       WatchLegible DEF Next, Handler
  <2> QED BY <1>2, <2>3, StepEnters, StepEvicts DEF LogInv
<1> QED BY <1>1, <1>2

-----------------------------------------------------------------------------
(* Every step of the streams is a step of the log, or leaves it alone.     *)

LEMMA SightOfNone ==
  ASSUME \A w \in Watchers : Standing(w)' = Standing(w) /\ Snapshot(w)' = Snapshot(w)
                               /\ Shown(w)' = Shown(w),
         UNCHANGED <<LastLogged, sent, Complete, watching>>
  PROVE  UNCHANGED Log!vars
BY DEF Log!vars

LEMMA SightOfOne ==
  ASSUME NEW w \in Watchers,
         \A v \in Watchers : v # w => Standing(v)' = Standing(v) /\ Snapshot(v)' = Snapshot(v)
                                        /\ Shown(v)' = Shown(v)
  PROVE  /\ [v \in Watchers |-> Standing(v)]'
              = [[v \in Watchers |-> Standing(v)] EXCEPT ![w] = Standing(w)']
         /\ [v \in Watchers |-> Snapshot(v)]'
              = [[v \in Watchers |-> Snapshot(v)] EXCEPT ![w] = Snapshot(w)']
         /\ [v \in Watchers |-> Shown(v)]'
              = [[v \in Watchers |-> Shown(v)] EXCEPT ![w] = Shown(w)']
OBVIOUS

LEMMA SightStays ==
  ASSUME NEW w \in Watchers, Delivered(w)' = Delivered(w), seen'[w] = seen[w],
         stream'[w] = stream[w], w \in evicted' <=> w \in evicted
  PROVE  /\ Standing(w)' = Standing(w) /\ Snapshot(w)' = Snapshot(w) /\ Shown(w)' = Shown(w)
BY DEF Standing, Snapshot, Shown, Reads

LEMMA LogStays ==
  ASSUME UNCHANGED <<lastSeq, phase>>, emitting'.job = emitting.job,
         emitting'.step = "drawn" <=> emitting.step = "drawn"
  PROVE  LastLogged' = LastLogged /\ Complete' = Complete
BY DEF LastLogged, Complete

(* A number that is drawn is not in the log yet, and a job that ends is not *)
(* complete before its last event is.                                      *)
LEMMA HandlerIsSilent ==
  ASSUME StreamInv, NEW j \in Jobs, CreateJob(j) \/ Report(j) \/ EndJob(j) \/ CollectJob(j)
  PROVE  UNCHANGED Log!vars
<1>1. /\ UNCHANGED <<sent, clientVars>> /\ emitting.step = "idle" /\ emitting.job = None
  BY DEF CreateJob, Report, EndJob, CollectJob, JobsLockFree, StreamInv, EmitOK
<1>2. LastLogged' = LastLogged
  BY <1>1, Shapes DEF CreateJob, Report, EndJob, CollectJob, Emit, LastLogged, StreamInv
<1>3. Complete' = Complete
  <2>1. \A k \in Jobs : k # j => (k \in Complete' <=> k \in Complete)
    BY <1>1 DEF CreateJob, Report, EndJob, CollectJob, Emit, Complete, StreamInv, TypeOK
  <2>2. j \in Complete' <=> j \in Complete
    BY <1>1 DEF CreateJob, Report, EndJob, CollectJob, Emit, Complete, StreamInv, TypeOK,
                TakesReport
  <2> QED BY <2>1, <2>2 DEF Complete
<1>4. \A w \in Watchers : Delivered(w)' = Delivered(w)
  BY <1>1, BuffersUntouched DEF clientVars
<1>5. \A w \in Watchers : Standing(w)' = Standing(w) /\ Snapshot(w)' = Snapshot(w)
                            /\ Shown(w)' = Shown(w)
  BY <1>1, <1>4, SightStays DEF clientVars
<1> QED BY <1>1, <1>2, <1>3, <1>5, SightOfNone DEF clientVars

LEMMA BroadcastWrites ==
  ASSUME StreamInv, BroadcastBegins
  PROVE  \E j \in Jobs : Log!Write(j)
<1> DEFINE j == emitting.job
<1>1. /\ emitting.step = "drawn" /\ emitting.seq = lastSeq /\ j \in Jobs
      /\ sent' = [sent EXCEPT ![j] = @ \cup {emitting.seq}]
      /\ UNCHANGED <<clientVars, phase, lastSeq>>
      /\ emitting'.step = "sending" /\ emitting'.job = j
  BY DEF BroadcastBegins, StreamInv, EmitOK, TypeOK
<1>2. LastLogged + 1 = lastSeq /\ LastLogged' = lastSeq
  BY <1>1, Shapes DEF LastLogged, StreamInv
<1>3. j \notin Complete /\ Complete' \in {Complete, Complete \cup {j}}
  BY <1>1 DEF Complete
<1>4. \A w \in Watchers : Delivered(w)' = Delivered(w)
  BY <1>1, BuffersUntouched DEF clientVars
<1>5. \A w \in Watchers : Standing(w)' = Standing(w) /\ Snapshot(w)' = Snapshot(w)
                            /\ Shown(w)' = Shown(w)
  BY <1>1, <1>4, SightStays DEF clientVars
<1>6. UNCHANGED <<[w \in Watchers |-> Standing(w)], watching,
                  [w \in Watchers |-> Snapshot(w)], [w \in Watchers |-> Shown(w)]>>
  BY <1>1, <1>5 DEF clientVars
<1>7. Log!Write(j)
  BY <1>1, <1>2, <1>3, <1>6 DEF Log!Write
<1> QED BY <1>1, <1>7

(* What is offered waits in a buffer: nothing of it is shown.              *)
LEMMA OfferIsSilent ==
  ASSUME StreamInv, NEW w \in Watchers, Offer(w)
  PROVE  UNCHANGED Log!vars
<1>1. /\ UNCHANGED <<phase, lastSeq, sent, watching, stream, seen, evicted>>
      /\ emitting'.step = emitting.step /\ emitting'.job = emitting.job
      /\ buffer' = buffer
           \/ (stream[w] = "open"
               /\ buffer' = [buffer EXCEPT ![w] = Append(@, Event(emitting.job, emitting.seq))])
  BY DEF Offer, StreamInv, TypeOK
<1>2. LastLogged' = LastLogged /\ Complete' = Complete
  BY <1>1, LogStays
<1>3. \A v \in Watchers : Snapshot(v)' = Snapshot(v)
  <2>1. CASE buffer' = buffer
    BY <1>1, <2>1 DEF Snapshot, Delivered, Reads
  <2>2. CASE /\ stream[w] = "open"
             /\ buffer' = [buffer EXCEPT ![w] = Append(@, Event(emitting.job, emitting.seq))]
    <3> DEFINE x == Event(emitting.job, emitting.seq)
    <3>1. x \in Items
      BY Shapes, EventItem DEF StreamInv
    <3> HIDE DEF x
    <3>2. buffer' = [buffer EXCEPT ![w] = Append(@, x)]
      BY <2>2 DEF x
    <3>3. /\ \A v \in Watchers : v # w => Delivered(v)' = Delivered(v)
          /\ \A i \in 1..Len(Delivered(w)) : Delivered(w)'[i] = Delivered(w)[i]
      BY <1>1, <3>1, <3>2, AppendDelivers DEF StreamInv
    <3>4. 1 \in 1..Len(Delivered(w))
      BY <2>2, DeliveredType DEF StreamInv, ItemsOK
    <3> QED BY <1>1, <3>3, <3>4 DEF Snapshot, Reads
  <2> QED BY <1>1, <2>1, <2>2
<1>4. \A v \in Watchers : Standing(v)' = Standing(v) /\ Shown(v)' = Shown(v)
  BY <1>1 DEF Standing, Reads, Shown
<1> QED BY <1>1, <1>2, <1>3, <1>4, SightOfNone

(* An evicted watcher still reads what its buffer holds.                   *)
LEMMA EvictIsSilent ==
  ASSUME StreamInv, NEW w \in Watchers, Evict(w)
  PROVE  UNCHANGED Log!vars
<1>1. /\ UNCHANGED <<phase, lastSeq, sent, watching, seen>>
      /\ emitting'.step = emitting.step /\ emitting'.job = emitting.job
      /\ stream' = [stream EXCEPT ![w] = IF @ = "open" THEN "shut" ELSE @]
      /\ evicted' = evicted \cup {w} /\ w \in emitting.full
  BY DEF Evict, StreamInv, TypeOK
<1>2. LastLogged' = LastLogged /\ Complete' = Complete
  BY <1>1, LogStays
<1>3. \A v \in Watchers : Reads(v)' <=> Reads(v)
  BY <1>1 DEF Reads, StreamInv, TypeOK
<1>4. \A v \in Watchers : Snapshot(v)' = Snapshot(v)
  <2>1. CASE stream[w] = "open" /\ HasRoom(w)
    <3>1. buffer' = [buffer EXCEPT ![w] = Append(@, Overflow)]
      BY <2>1 DEF Evict
    <3>2. /\ \A v \in Watchers : v # w => Delivered(v)' = Delivered(v)
          /\ \A i \in 1..Len(Delivered(w)) : Delivered(w)'[i] = Delivered(w)[i]
      BY <1>1, <3>1, OverflowItem, AppendDelivers DEF StreamInv
    <3>3. 1 \in 1..Len(Delivered(w))
      BY <2>1, DeliveredType DEF StreamInv, ItemsOK
    <3> QED BY <1>3, <3>2, <3>3 DEF Snapshot
  <2>2. CASE ~(stream[w] = "open" /\ HasRoom(w))
    <3>1. buffer' = buffer
      BY <2>2 DEF Evict, StreamInv, TypeOK
    <3> QED BY <1>1, <1>3, <3>1 DEF Snapshot, Delivered
  <2> QED BY <2>1, <2>2
<1>5. \A v \in Watchers : Standing(v)' = Standing(v)
  <2>1. \A v \in Watchers : v # w => Standing(v)' = Standing(v)
    BY <1>1, <1>3 DEF Standing, StreamInv, TypeOK
  <2>2. Standing(w)' = Standing(w)
    <3>1. stream[w] # "new" /\ watching[w] = emitting.job
      BY <1>1 DEF StreamInv, EmitOK
    <3>2. stream[w] = "done" => w \in evicted
      BY <3>1 DEF StreamInv, RegistryOK
    <3>3. stream'[w] = IF stream[w] = "open" THEN "shut" ELSE stream[w]
      BY <1>1 DEF StreamInv, TypeOK
    <3> QED BY <1>1, <1>3, <3>1, <3>2, <3>3 DEF Standing, Reads
  <2> QED BY <2>1, <2>2
<1>6. \A v \in Watchers : Shown(v)' = Shown(v)
  BY <1>1 DEF Shown
<1> QED BY <1>1, <1>2, <1>4, <1>5, <1>6, SightOfNone

LEMMA MasterIsSilent ==
  ASSUME StreamInv, HandlerUnlocks \/ \E j \in Jobs : Terminate(j)
  PROVE  UNCHANGED Log!vars
<1>1. /\ UNCHANGED <<phase, lastSeq, sent, watching, buffer, seen, evicted>>
      /\ \A w \in Watchers : Reads(w)' <=> Reads(w)
      /\ \A w \in Watchers : stream'[w] = stream[w] \/ Reads(w)
  BY DEF HandlerUnlocks, Terminate, clientVars, Reads, StreamInv, TypeOK
<1>2. LastLogged' = LastLogged /\ Complete' = Complete
  <2>1. emitting' = emitting \/ (emitting.step = "sending" /\ emitting' = Idle)
    BY DEF HandlerUnlocks, Terminate
  <2> QED BY <1>1, <2>1 DEF LastLogged, Complete, Idle
<1>3. \A w \in Watchers : Delivered(w)' = Delivered(w)
  BY <1>1, BuffersUntouched
<1>4. \A w \in Watchers : Snapshot(w)' = Snapshot(w) /\ Shown(w)' = Shown(w)
  BY <1>1, <1>3 DEF Snapshot, Shown
<1>5. \A w \in Watchers : Standing(w)' = Standing(w)
  BY <1>1 DEF Standing, Reads
<1> QED BY <1>1, <1>2, <1>4, <1>5, SightOfNone

LEMMA WatchBegins ==
  ASSUME StreamInv, NEW w \in Watchers, NEW j \in Jobs, WatchJob(w, j)
  PROVE  Log!Begin(w, j)
<1>1. /\ Len(Delivered(w)') = 1 /\ Delivered(w)'[1].seq = lastSeq + 1
      /\ \A v \in Watchers : v # w => Delivered(v)' = Delivered(v)
  BY WatchDelivers
<1>2. /\ UNCHANGED <<phase, emitting, sent, seen, evicted>> /\ lastSeq' = lastSeq + 1
      /\ emitting.step = "idle" /\ stream[w] = "new" /\ stream'[w] \in {"open", "shut"}
      /\ watching' = [watching EXCEPT ![w] = j]
      /\ \A v \in Watchers : v # w => stream'[v] = stream[v]
  BY DEF WatchJob, SnapshotLocked, JobsLockFree, StreamInv, TypeOK
<1>3. LastLogged' = LastLogged + 1 /\ Complete' = Complete /\ LastLogged = lastSeq
  BY <1>2 DEF LastLogged, Complete
<1>4. \A v \in Watchers : v # w => Standing(v)' = Standing(v) /\ Snapshot(v)' = Snapshot(v)
                                     /\ Shown(v)' = Shown(v)
  BY <1>1, <1>2, SightStays
<1>5. Standing(w) = "new" /\ Standing(w)' = "reading" /\ Snapshot(w)' = lastSeq + 1
  BY <1>1, <1>2 DEF Standing, Snapshot, Reads
<1>6. Shown(w)' = Shown(w)
  BY <1>2 DEF Shown
<1>7. [v \in Watchers |-> Shown(v)]' = [v \in Watchers |-> Shown(v)]
  BY <1>4, <1>6
<1> QED BY <1>2, <1>3, <1>4, <1>5, <1>7, SightOfOne DEF Log!Begin

(* A stream that the client leaves, finds cut, or reads to its end.        *)
LEMMA StopsReading ==
  ASSUME StreamInv, NEW w \in Watchers, Reads(w), Snapshot(w)' = 0, Shown(w)' = Shown(w),
         NEW how, Standing(w)' = how, UNCHANGED <<masterVars, watching>>,
         \A v \in Watchers : v # w => Standing(v)' = Standing(v) /\ Snapshot(v)' = Snapshot(v)
                                        /\ Shown(v)' = Shown(v)
  PROVE  Log!Stop(w, how)
<1>1. LastLogged' = LastLogged /\ Complete' = Complete
  BY LogStays DEF masterVars
<1>2. Standing(w) = "reading"
  BY DEF Standing, Reads
<1>3. [v \in Watchers |-> Shown(v)]' = [v \in Watchers |-> Shown(v)]
  OBVIOUS
<1> QED BY <1>1, <1>2, <1>3, SightOfOne DEF Log!Stop, masterVars

LEMMA EndingStops ==
  ASSUME StreamInv, LogInv, NEW w \in Watchers, StreamEnds(w) \/ Leave(w)
  PROVE  Log!CutOff(w) \/ Log!End(w)
<1>1. /\ UNCHANGED <<masterVars, watching, seen, evicted>> /\ Reads(w)
      /\ \A v \in Watchers : v # w => stream'[v] = stream[v] /\ buffer'[v] = buffer[v]
      /\ stream'[w] = "left" \/ (stream'[w] = "done" /\ stream[w] = "shut" /\ buffer[w] = <<>>)
  BY DEF StreamEnds, Leave, StreamInv, TypeOK, Reads
<1>2. \A v \in Watchers : v # w => Standing(v)' = Standing(v) /\ Snapshot(v)' = Snapshot(v)
                                     /\ Shown(v)' = Shown(v)
  <2>1. \A v \in Watchers : v # w => Delivered(v)' = Delivered(v)
    BY <1>1 DEF Delivered
  <2> QED BY <1>1, <2>1, SightStays
<1>3. Snapshot(w)' = 0 /\ Shown(w)' = Shown(w)
  BY <1>1 DEF Snapshot, Reads, Shown
<1>4. CASE stream'[w] = "left" \/ w \in evicted
  <2>1. Standing(w)' = "cut"
    BY <1>1, <1>4 DEF Standing, Reads
  <2> QED BY <1>1, <1>2, <1>3, <2>1, StopsReading DEF Log!CutOff
<1>5. CASE stream'[w] = "done" /\ w \notin evicted
  <2>1. Log!Stop(w, "ended")
    <3>1. Standing(w)' = "ended"
      BY <1>1, <1>5 DEF Standing, Reads
    <3> QED BY <1>1, <1>2, <1>3, <3>1, StopsReading
  <2>2. /\ watching[w] \in Jobs /\ Over(watching[w]) /\ emitting.job # watching[w]
    BY <1>1, <1>5 DEF StreamInv, RegistryOK
  <2>3. watching[w] \in Complete
    BY <2>2 DEF Complete, Over
  <2>4. Delivered(w) = seen[w]
    <3>1. \A s \in Seq(Items) : s \o <<>> = s
      BY ConcatEmptySeq
    <3> QED BY <1>1, <1>5, <3>1 DEF Delivered, StreamInv, TypeOK
  <2>5. Len(Delivered(w)) \in Nat /\ 1 \in 1..Len(Delivered(w)) /\ Delivered(w)[1].seq > 0
    BY <1>1, DeliveredType DEF StreamInv, ItemsOK, LogInv, Legible, Reads
  <2>6. Snapshot(w) \in Shown(w) /\ Snapshot(w) = Delivered(w)[1].seq
    BY <1>1, <2>4, <2>5, Shapes DEF Snapshot, Shown, StreamInv
  <2>7. \A n \in sent[watching[w]] : n > Delivered(w)[1].seq => n \in Numbers(w)
    BY <1>1, <1>5, <2>2 DEF StreamInv, StreamFaithful, NoGap
  <2>8. \A n \in sent[watching[w]] : n > Snapshot(w) => n \in Shown(w)
    <3>1. \A n \in sent[watching[w]] : n # 0
      BY <2>2, Shapes DEF StreamInv
    <3>2. Numbers(w) \ {0} = Shown(w)
      BY <2>4 DEF Numbers, Shown
    <3> QED BY <2>6, <2>7, <3>1, <3>2
  <2>9. Log!After(w) \subseteq [v \in Watchers |-> Shown(v)][w]
    BY <2>8 DEF Log!After
  <2> QED BY <2>1, <2>3, <2>6, <2>9 DEF Log!End
<1> QED BY <1>1, <1>4, <1>5

(* The item that is read next, and what was read before it.                *)
LEMMA ReadsInOrder ==
  ASSUME StreamInv, LogInv, NEW w \in Watchers, Receive(w)
  PROVE  /\ Len(seen[w]) + 1 \in 1..Len(Delivered(w))
         /\ Delivered(w)[Len(seen[w]) + 1] = Head(buffer[w])
         /\ seen'[w] = Append(seen[w], Head(buffer[w]))
         /\ Len(seen[w]) \in Nat
         /\ \A i \in 1..Len(seen[w]) : i \in 1..Len(Delivered(w))
                                         /\ Delivered(w)[i] = seen[w][i]
<1>1. /\ seen[w] \in Seq(Items) /\ buffer[w] \in Seq(Items) /\ buffer[w] # <<>>
      /\ seen' = [seen EXCEPT ![w] = Append(@, Head(buffer[w]))]
      /\ seen \in [Watchers -> Seq(Items)]
  BY DEF Receive, StreamInv, TypeOK
<1>2. Len(buffer[w]) > 0 /\ Len(buffer[w]) \in Nat /\ Head(buffer[w]) = buffer[w][1]
  BY <1>1
<1> DEFINE d == Delivered(w)
<1>3. /\ Len(d) = Len(seen[w]) + Len(buffer[w]) /\ Len(seen[w]) \in Nat
      /\ \A i \in 1..Len(seen[w]) : d[i] = seen[w][i]
      /\ d[Len(seen[w]) + 1] = buffer[w][1]
  BY <1>1, <1>2, ConcatProperties DEF Delivered
<1> HIDE DEF d
<1>4. Len(seen[w]) + 1 \in 1..Len(d) /\ \A i \in 1..Len(seen[w]) : i \in 1..Len(d)
  <2>1. \A a, b \in Nat : b > 0 => a + 1 \in 1..(a + b) /\ \A i \in 1..a : i \in 1..(a + b)
    OBVIOUS
  <2>2. Len(seen[w]) \in Nat /\ Len(d) = Len(seen[w]) + Len(buffer[w])
    BY <1>3
  <2> QED BY <1>2, <2>1, <2>2, Zenon
<1>5. seen'[w] = Append(seen[w], Head(buffer[w]))
  BY <1>1
<1>6. \A i \in 1..Len(seen[w]) : i \in 1..Len(d) /\ d[i] = seen[w][i]
  BY <1>3, <1>4
<1>7. d[Len(seen[w]) + 1] = Head(buffer[w]) /\ Len(seen[w]) \in Nat
  BY <1>2, <1>3
<1>8. d = Delivered(w)
  BY DEF d
<1> QED BY <1>4, <1>5, <1>6, <1>7, <1>8, Zenon

LEMMA ReceiveShows ==
  ASSUME StreamInv, LogInv, NEW w \in Watchers, Receive(w)
  PROVE  Log!CutOff(w) \/ \E n \in 1..LastLogged : Log!Show(w, n)
<1> DEFINE s == seen[w]
           k == Len(s) + 1
           x == Delivered(w)[k]
<1>1. /\ k \in 1..Len(Delivered(w)) /\ x = Head(buffer[w]) /\ seen'[w] = Append(s, x)
      /\ Len(s) \in Nat
      /\ \A i \in 1..Len(s) : i \in 1..Len(Delivered(w)) /\ Delivered(w)[i] = s[i]
  BY ReadsInOrder
<1>2. /\ UNCHANGED <<masterVars, watching, evicted>> /\ Reads(w)
      /\ stream' = [stream EXCEPT ![w] = IF x = Overflow THEN "done" ELSE @]
      /\ \A v \in Watchers : v # w => seen'[v] = seen[v]
      /\ \A v \in Watchers : Delivered(v)' = Delivered(v)
      /\ s \in Seq(Items) /\ x \in Items
  BY <1>1, ReceiveMoves, Shapes DEF Receive, Reads, StreamInv, TypeOK
<1> HIDE DEF s, k, x
<1>3. \A v \in Watchers : v # w => stream'[v] = stream[v]
  BY <1>2 DEF StreamInv, TypeOK
<1>4. \A v \in Watchers : v # w => Standing(v)' = Standing(v) /\ Snapshot(v)' = Snapshot(v)
                                     /\ Shown(v)' = Shown(v)
  BY <1>2, <1>3, SightStays
<1>5. Shown(w)' = (Shown(w) \cup {x.seq}) \ {0}
  <2>1. /\ Len(Append(s, x)) = Len(s) + 1 /\ Append(s, x)[Len(s) + 1] = x
        /\ \A i \in 1..Len(s) : Append(s, x)[i] = s[i]
    BY <1>2, AppendProperties
  <2>2. 1..(Len(s) + 1) = (1..Len(s)) \cup {Len(s) + 1}
    BY <1>1
  <2> DEFINE t == Append(s, x)
  <2>3. {t[i].seq : i \in 1..Len(t)} = {s[i].seq : i \in 1..Len(s)} \cup {x.seq}
    <3> HIDE DEF t
    <3>1. Len(t) = Len(s) + 1 /\ t[Len(s) + 1] = x /\ \A i \in 1..Len(s) : t[i] = s[i]
      BY <2>1 DEF t
    <3> QED BY <2>2, <3>1
  <2> QED BY <1>1, <2>3 DEF Shown, s
<1>6. CASE x = Overflow
  <2>1. x.seq = 0 /\ x.kind = "overflow"
    BY <1>6, OverflowItem
  <2>2. Shown(w)' = Shown(w)
    BY <1>5, <2>1 DEF Shown
  <2>3. stream'[w] = "done" /\ w \in evicted'
    BY <1>1, <1>2, <1>6, <2>1 DEF StreamInv, ItemsOK, TypeOK, x
  <2>4. Standing(w)' = "cut" /\ Snapshot(w)' = 0
    BY <2>3 DEF Standing, Snapshot, Reads
  <2> QED BY <1>2, <1>4, <2>2, <2>4, StopsReading DEF Log!CutOff
<1>7. CASE x # Overflow
  <2> DEFINE n == x.seq
             j == watching[w]
  <2>1. /\ j \in Jobs /\ sent[j] \subseteq 1..MaxEvents /\ Len(Delivered(w)) \in Nat
        /\ \A i \in 1..Len(Delivered(w)) : Delivered(w)[i].seq \in Nat
    BY <1>2, Shapes DEF StreamInv, RegistryOK, Reads
  <2>2. /\ Delivered(w)[1].seq > 0
        /\ k \in 2..Len(Delivered(w)) => n \in sent[j]
        /\ \A m \in sent[j] : Delivered(w)[1].seq < m /\ m < n => m \in Numbers(w)
    BY <1>1, <1>2, <1>7 DEF LogInv, Legible, x
  <2>3. n \in 1..LastLogged
    <3>1. n > 0 /\ n \in Nat
      <4>1. k = 1 \/ k \in 2..Len(Delivered(w))
        BY <1>1, <2>1
      <4> QED BY <1>1, <2>1, <2>2, <4>1 DEF x
    <3>2. n <= lastSeq /\ (emitting.step = "drawn" => n < lastSeq) /\ lastSeq \in Nat
      BY <1>1, Shapes DEF StreamInv, NumbersOK, x
    <3> QED BY <3>1, <3>2 DEF LastLogged
  <2>4. \A i \in 1..Len(s) : s[i].seq < n /\ s[i].seq \in Nat
    <3> SUFFICES ASSUME NEW i \in 1..Len(s) PROVE s[i].seq < n /\ s[i].seq \in Nat
      OBVIOUS
    <3>1. i < k /\ i \in 1..Len(Delivered(w)) /\ Delivered(w)[i] = s[i]
      BY <1>1 DEF k
    <3>2. Delivered(w)[i].seq < Delivered(w)[k].seq
      BY <1>1, <1>7, <3>1 DEF StreamInv, StreamFaithful, SeqIncreases, x
    <3> QED BY <2>1, <3>1, <3>2 DEF x
  <2>5. Snapshot(w) = Delivered(w)[1].seq
    BY <1>2 DEF Snapshot
  <2>6. ASSUME Len(s) = 0 PROVE Log!IsNext(w, n)
    <3>1. Shown(w) = {}
      BY <2>6 DEF Shown, s
    <3>2. n = Snapshot(w)
      BY <2>5, <2>6 DEF k, x
    <3>3. Log!IsNext(w, n)
      BY <3>1, <3>2 DEF Log!IsNext
    <3> QED BY <3>3
  <2>7. ASSUME Len(s) > 0 PROVE Log!IsNext(w, n)
    <3>1. /\ k \in 2..Len(Delivered(w)) /\ 1 \in 1..Len(s) /\ Delivered(w)[1] = s[1]
      BY <1>1, <2>7 DEF k
    <3>2. Snapshot(w) \in Shown(w)
      BY <2>2, <2>5, <3>1 DEF Shown, s
    <3>3. n \in sent[j] /\ n > Snapshot(w)
      BY <2>2, <2>4, <2>5, <3>1
    <3>4. \A m \in Shown(w) : m < n
      BY <2>4 DEF Shown, s
    <3>5. ASSUME NEW m \in sent[j], m > Snapshot(w), m \notin Shown(w) PROVE n <= m
      <4> SUFFICES ASSUME m < n PROVE FALSE
        BY <2>1, <2>3
      <4>1. m \in Numbers(w) /\ m > 0
        BY <2>1, <2>2, <2>5, <3>5
      <4>2. PICK i \in 1..Len(Delivered(w)) : Delivered(w)[i].seq = m
        BY <4>1 DEF Numbers
      <4>3. Delivered(w)[i] # Overflow
        BY <4>1, <4>2, OverflowItem
      <4>4. ~(k < i)
        <5>1. k < i => Delivered(w)[k].seq < Delivered(w)[i].seq
          BY <1>1, <4>3 DEF StreamInv, StreamFaithful, SeqIncreases
        <5> QED BY <2>1, <1>1, <4>2, <5>1 DEF x
      <4>5. i # k
        BY <2>1, <2>3, <4>2 DEF x
      <4>6. i \in 1..Len(s)
        BY <1>1, <2>1, <4>4, <4>5 DEF k
      <4>7. m = s[i].seq
        BY <1>1, <4>2, <4>6
      <4> QED BY <3>5, <4>1, <4>6, <4>7 DEF Shown, s
    <3>6. n \notin Shown(w)
      BY <2>3, <3>4
    <3>7. /\ [v \in Watchers |-> Shown(v)][w] = Shown(w)
          /\ [v \in Watchers |-> Snapshot(v)][w] = Snapshot(w)
      OBVIOUS
    <3>8. Log!After(w) = {m \in sent[j] : m > Snapshot(w)}
      BY <3>7 DEF Log!After
    <3>9. Log!IsNext(w, n)
      BY <3>2, <3>3, <3>4, <3>5, <3>6, <3>7, <3>8 DEF Log!IsNext
    <3> QED BY <3>9
  <2>8. Log!IsNext(w, n)
    BY <1>1, <2>6, <2>7
  <2>9. Shown(w)' = Shown(w) \cup {n}
    <3>1. n # 0
      BY <2>3
    <3>2. 0 \notin Shown(w)
      BY DEF Shown
    <3> HIDE DEF n
    <3>3. Shown(w)' = (Shown(w) \cup {n}) \ {0}
      BY <1>5 DEF n
    <3> QED BY <3>1, <3>2, <3>3
  <2>10. stream'[w] = stream[w]
    BY <1>2, <1>7 DEF StreamInv, TypeOK
  <2>11. Standing(w) = "reading" /\ Standing(w)' = Standing(w) /\ Snapshot(w)' = Snapshot(w)
    BY <1>2, <2>10 DEF Standing, Snapshot, Reads
  <2>12. LastLogged' = LastLogged /\ Complete' = Complete /\ sent' = sent /\ watching' = watching
    BY <1>2, LogStays DEF masterVars
  <2>13. UNCHANGED <<[v \in Watchers |-> Standing(v)], [v \in Watchers |-> Snapshot(v)]>>
    BY <1>4, <2>11
  <2>14. Log!Show(w, n)
    BY <1>4, <2>8, <2>9, <2>11, <2>12, <2>13, SightOfOne DEF Log!Show
  <2> QED BY <2>3, <2>14
<1> QED BY <1>6, <1>7

LEMMA StepLogs == StreamInv /\ LogInv /\ [Next]_vars => [Log!Next]_Log!vars
<1> SUFFICES ASSUME StreamInv, LogInv, [Next]_vars PROVE [Log!Next]_Log!vars
  OBVIOUS
<1>1. CASE UNCHANGED vars
  <2>1. UNCHANGED <<phase, lastSeq, emitting, sent, watching, stream, buffer, seen, evicted>>
    BY <1>1 DEF vars, masterVars, clientVars
  <2>2. \A w \in Watchers : Delivered(w)' = Delivered(w)
    BY <2>1, BuffersUntouched
  <2>3. \A w \in Watchers : Standing(w)' = Standing(w) /\ Snapshot(w)' = Snapshot(w)
                              /\ Shown(w)' = Shown(w)
    BY <2>1, <2>2, SightStays
  <2>4. LastLogged' = LastLogged /\ Complete' = Complete
    BY <2>1, LogStays
  <2>5. UNCHANGED Log!vars
    BY <2>1, <2>3, <2>4, SightOfNone
  <2> QED BY <2>5
<1>2. ASSUME \/ \E j \in Jobs : Handler(j)
             \/ \E w \in Watchers : Offer(w) \/ Evict(w)
             \/ HandlerUnlocks
      PROVE  UNCHANGED Log!vars
  BY <1>2, HandlerIsSilent, MasterIsSilent, OfferIsSilent, EvictIsSilent DEF Handler
<1>3. ASSUME BroadcastBegins PROVE Log!Next
  BY <1>3, BroadcastWrites DEF Log!Next
<1>4. ASSUME NEW w \in Watchers, NEW j \in Jobs, WatchJob(w, j) PROVE Log!Next
  BY <1>4, WatchBegins DEF Log!Next
<1>5. ASSUME NEW w \in Watchers, Client(w) PROVE Log!Next
  <2>1. Log!CutOff(w) \/ Log!End(w) \/ \E n \in 1..LastLogged : Log!Show(w, n)
    BY <1>5, EndingStops, ReceiveShows DEF Client
  <2> QED BY <2>1 DEF Log!Next
<1> QED BY <1>1, <1>2, <1>3, <1>4, <1>5 DEF Next

LEMMA LogBegins == Init => Log!Init /\ LogInv
<1> SUFFICES ASSUME Init PROVE Log!Init /\ LogInv
  OBVIOUS
<1>1. /\ emitting.step = "idle" /\ emitting.job = None /\ lastSeq = 0 /\ evicted = {}
      /\ \A w \in Watchers : seen[w] = <<>> /\ stream[w] = "new"
  BY DEF Init, Idle
<1>2. LastLogged = 0 /\ Complete = {}
  BY <1>1 DEF LastLogged, Complete, Init
<1>3. \A w \in Watchers : Standing(w) = "new" /\ Snapshot(w) = 0 /\ Shown(w) = {}
  BY <1>1 DEF Standing, Snapshot, Shown, Reads
<1>4. Log!Init
  BY <1>2, <1>3 DEF Log!Init, Init
<1>5. LogInv
  BY <1>1 DEF LogInv, Entered, EvictedOK, Legible, Reads
<1> QED BY <1>4, <1>5

(* Whoever watches a job reads its log, from the snapshot on, whatever the *)
(* locks, the buffers and the evictions do in between.                     *)
THEOREM StreamsImplementLog == Spec => ImplementsLog
<1> QED
  BY LogBegins, StepLogs, StepLegible, StreamInvariance, PTL DEF Spec, ImplementsLog, Log!Spec

(* So do the sessions of cvd-cli, which read, leave and are cut off as     *)
(* their users will.                                                       *)
THEOREM SessionsImplementLog == SessionSpec => ImplementsLog
<1>1. SessionInit => Log!Init /\ LogInv
  BY LogBegins DEF SessionInit
<1>2. SessionInv /\ [SessionNext]_allVars => [Next]_vars
  BY SessionsAreClients DEF allVars
<1>3. SessionInv => StreamInv
  BY DEF SessionInv
<1> QED
  BY <1>1, <1>2, <1>3, StepLogs, StepLegible, SessionInvariance, PTL
     DEF SessionSpec, ImplementsLog, Log!Spec
=============================================================================
