---------------------------- MODULE EventStream ----------------------------
(***************************************************************************)
(* WatchJob: how the changes of a job reach its watchers.                  *)
(*                                                                         *)
(* An event draws its sequence number and is offered to every watcher of   *)
(* its job while the emitting handler holds the jobs lock; WatchJob takes  *)
(* the same lock for its snapshot.  The subscriber registry has a lock of  *)
(* its own, held by a broadcast and by terminate.  The handler that ends a *)
(* job closes the streams only after it has dropped the jobs lock.  Each   *)
(* watcher has a bounded buffer that its client empties at its own pace;   *)
(* a watcher whose buffer is found full is evicted.                        *)
(***************************************************************************)
EXTENDS Integers, Sequences, FiniteSets

CONSTANTS
  Jobs,      (* the job ids                                                *)
  Watchers,  (* the WatchJob calls, each with a channel of its own         *)
  Capacity,  (* SUBSCRIBER_CAPACITY, 64 in the code                        *)
  MaxEvents, (* bound: how many sequence numbers are drawn                 *)
  None       (* no job                                                     *)

ASSUME StreamAssumption ==
  /\ Capacity \in Nat \ {0}
  /\ MaxEvents \in Nat
  /\ None \notin Jobs

VARIABLES
  phase,     \* of each job: "absent", "live", "over", "gone" (collected)
  lastSeq,   \* event_seq
  subs,      \* the subscriber registry: the watchers registered for each job
  emitting,  \* the event its handler sends under the jobs lock, or Idle
  closing,   \* the jobs whose last handler has still to close the streams
  watching,  \* the job of each WatchJob call
  stream,    \* "new", "open", "shut" (all senders dropped), "done", "left"
  buffer,    \* what the channel of a watcher holds
  seen,      \* what its client has received
  sent,      \* history: the sequence numbers broadcast for each job
  evicted    \* history: the watchers that were evicted

masterVars == <<phase, lastSeq, subs, emitting, closing, sent>>
clientVars == <<watching, stream, buffer, seen, evicted>>
vars       == <<masterVars, clientVars>>

Items == [kind : {"event", "verdict", "overflow"}, seq : 0..MaxEvents]
Event(j, n) == [kind |-> IF phase[j] = "over" THEN "verdict" ELSE "event", seq |-> n]
Overflow    == [kind |-> "overflow", seq |-> 0]
Idle        == [step |-> "idle", job |-> None, seq |-> 0, todo |-> {}, full |-> {}]

TypeOK ==
  /\ phase    \in [Jobs -> {"absent", "live", "over", "gone"}]
  /\ lastSeq  \in 0..MaxEvents
  /\ subs     \in [Jobs -> SUBSET Watchers]
  /\ emitting \in [step : {"idle", "drawn", "sending"}, job : Jobs \cup {None},
                   seq : 0..MaxEvents, todo : SUBSET Watchers, full : SUBSET Watchers]
  /\ closing  \in SUBSET Jobs
  /\ sent     \in [Jobs -> SUBSET (1..MaxEvents)]
  /\ watching \in [Watchers -> Jobs \cup {None}]
  /\ stream   \in [Watchers -> {"new", "open", "shut", "done", "left"}]
  /\ buffer   \in [Watchers -> Seq(Items)]
  /\ \A w \in Watchers : Len(buffer[w]) <= Capacity
  /\ seen     \in [Watchers -> Seq(Items)]
  /\ evicted  \in SUBSET Watchers

Init ==
  /\ phase    = [j \in Jobs |-> "absent"]
  /\ lastSeq  = 0
  /\ subs     = [j \in Jobs |-> {}]
  /\ emitting = Idle
  /\ closing  = {}
  /\ sent     = [j \in Jobs |-> {}]
  /\ watching = [w \in Watchers |-> None]
  /\ stream   = [w \in Watchers |-> "new"]
  /\ buffer   = [w \in Watchers |-> <<>>]
  /\ seen     = [w \in Watchers |-> <<>>]
  /\ evicted  = {}

-----------------------------------------------------------------------------
(* Handlers.                                                               *)

JobsLockFree == emitting.step = "idle"
SubsLockFree == emitting.step # "sending"

(* emit_for_job: the event draws its number.                               *)
Emit(j) ==
  /\ lastSeq < MaxEvents
  /\ lastSeq'  = lastSeq + 1
  /\ emitting' = [step |-> "drawn", job |-> j, seq |-> lastSeq + 1, todo |-> {}, full |-> {}]

CreateJob(j) ==
  /\ JobsLockFree
  /\ phase[j] = "absent"
  /\ phase' = [phase EXCEPT ![j] = "live"]
  /\ Emit(j)
  /\ UNCHANGED <<subs, closing, sent, clientVars>>

(* report_progress and the other handlers refuse a terminal job.           *)
TakesReport(j) == phase[j] = "live"

(* Progress of a worker, or a status change that does not end the job.     *)
Report(j) ==
  /\ JobsLockFree
  /\ TakesReport(j)
  /\ Emit(j)
  /\ UNCHANGED <<phase, subs, closing, sent, clientVars>>

(* Mutant: the streams may be closed before the last event is sent.        *)
EndJobClosing(j) ==
  /\ JobsLockFree
  /\ phase[j] = "live"
  /\ phase'   = [phase EXCEPT ![j] = "over"]
  /\ closing' = closing \cup {j}
  /\ Emit(j)
  /\ UNCHANGED <<subs, sent, clientVars>>

EndJob(j) ==
  /\ JobsLockFree
  /\ phase[j] = "live"
  /\ phase' = [phase EXCEPT ![j] = "over"]
  /\ Emit(j)
  /\ UNCHANGED <<subs, closing, sent, clientVars>>

CollectJob(j) ==
  /\ JobsLockFree
  /\ phase[j] = "over"
  /\ phase' = [phase EXCEPT ![j] = "gone"]
  /\ UNCHANGED <<lastSeq, subs, emitting, closing, sent, clientVars>>

(* broadcast takes the registry's lock and visits who is registered.       *)
BroadcastBegins ==
  /\ emitting.step = "drawn"
  /\ emitting' = [emitting EXCEPT !.step = "sending", !.todo = subs[emitting.job]]
  /\ sent'     = [sent EXCEPT ![emitting.job] = @ \cup {emitting.seq}]
  /\ UNCHANGED <<phase, lastSeq, subs, closing, clientVars>>

HasRoom(w) == Len(buffer[w]) < Capacity

(* try_send to one watcher: it takes the event, is found full, or is       *)
(* found to have left.                                                     *)
Offer(w) ==
  /\ w \in emitting.todo
  /\ emitting.full = {}
  /\ \/ /\ stream[w] = "open"
        /\ HasRoom(w)
        /\ buffer'   = [buffer EXCEPT ![w] = Append(@, Event(emitting.job, emitting.seq))]
        /\ emitting' = [emitting EXCEPT !.todo = @ \ {w}]
        /\ UNCHANGED subs
     \/ /\ stream[w] = "open"
        /\ ~HasRoom(w)
        /\ emitting' = [emitting EXCEPT !.todo = @ \ {w}, !.full = @ \cup {w}]
        /\ UNCHANGED <<subs, buffer>>
     \/ /\ stream[w] = "left"
        /\ subs'     = [subs EXCEPT ![emitting.job] = @ \ {w}]
        /\ emitting' = [emitting EXCEPT !.todo = @ \ {w}]
        /\ UNCHANGED buffer
  /\ UNCHANGED <<phase, lastSeq, closing, sent, watching, stream, seen, evicted>>

(* Mutant: a watcher found full misses the event and stays.                *)
EvictNobody(w) ==
  /\ w \in emitting.full
  /\ emitting' = [emitting EXCEPT !.full = @ \ {w}]
  /\ UNCHANGED <<phase, lastSeq, subs, closing, sent, clientVars>>

(* A watcher found full is evicted.  The last word is offered to the same  *)
(* buffer, which has room only if the client has read something since.     *)
Evict(w) ==
  /\ w \in emitting.full
  /\ subs'     = [subs EXCEPT ![emitting.job] = @ \ {w}]
  /\ buffer'   = [buffer EXCEPT ![w] = IF stream[w] = "open" /\ HasRoom(w)
                                       THEN Append(@, Overflow) ELSE @]
  /\ stream'   = [stream EXCEPT ![w] = IF @ = "open" THEN "shut" ELSE @]
  /\ emitting' = [emitting EXCEPT !.full = @ \ {w}]
  /\ evicted'  = evicted \cup {w}
  /\ UNCHANGED <<phase, lastSeq, closing, sent, watching, seen>>

(* Mutant: every handler closes the streams of its job.                    *)
OwesAlways == closing \cup {emitting.job}

(* The handler that ended its job has still to close the streams.          *)
OwesClosing == IF phase[emitting.job] = "over" THEN closing \cup {emitting.job} ELSE closing

(* The broadcast is over and both locks are dropped.                       *)
HandlerUnlocks ==
  /\ emitting.step = "sending"
  /\ emitting.todo = {} /\ emitting.full = {}
  /\ closing'  = OwesClosing
  /\ emitting' = Idle
  /\ UNCHANGED <<phase, lastSeq, subs, sent, clientVars>>

(* terminate: all senders of the job are dropped.                          *)
Terminate(j) ==
  /\ j \in closing
  /\ SubsLockFree
  /\ closing' = closing \ {j}
  /\ stream'  = [w \in Watchers |-> IF w \in subs[j] /\ stream[w] = "open"
                                    THEN "shut" ELSE stream[w]]
  /\ subs'    = [subs EXCEPT ![j] = {}]
  /\ UNCHANGED <<phase, lastSeq, emitting, sent, watching, buffer, seen, evicted>>

-----------------------------------------------------------------------------
(* Clients.                                                                *)

SnapshotLocked == JobsLockFree

(* Mutant: the stream of a job that is over is registered, too.            *)
RegistersAlways(j) == TRUE

(* The stream of a job that is over has the snapshot and nothing else.     *)
Registers(j) == phase[j] = "live"

(* WatchJob under the jobs lock: the snapshot is the first item.           *)
WatchJob(w, j) ==
  /\ stream[w] = "new"
  /\ SnapshotLocked
  /\ phase[j] \in {"live", "over"}
  /\ lastSeq < MaxEvents
  /\ lastSeq'  = lastSeq + 1
  /\ watching' = [watching EXCEPT ![w] = j]
  /\ buffer'   = [buffer EXCEPT ![w] = <<Event(j, lastSeq + 1)>>]
  /\ stream'   = [stream EXCEPT ![w] = IF Registers(j) THEN "open" ELSE "shut"]
  /\ subs'     = IF Registers(j) THEN [subs EXCEPT ![j] = @ \cup {w}] ELSE subs
  /\ UNCHANGED <<phase, emitting, closing, sent, seen, evicted>>

(* The client reads an item.  The status an evicted watcher is sent is an  *)
(* error, and ends the stream.                                             *)
Receive(w) ==
  /\ stream[w] \in {"open", "shut"}
  /\ buffer[w] # <<>>
  /\ seen'   = [seen EXCEPT ![w] = Append(@, Head(buffer[w]))]
  /\ buffer' = [buffer EXCEPT ![w] = Tail(@)]
  /\ stream' = [stream EXCEPT ![w] = IF Head(buffer[w]) = Overflow THEN "done" ELSE @]
  /\ UNCHANGED <<masterVars, watching, evicted>>

(* The client sees the end of the stream once all is read.                 *)
StreamEnds(w) ==
  /\ stream[w] = "shut"
  /\ buffer[w] = <<>>
  /\ stream' = [stream EXCEPT ![w] = "done"]
  /\ UNCHANGED <<masterVars, watching, buffer, seen, evicted>>

(* The client detaches or its connection breaks.                           *)
Leave(w) ==
  /\ stream[w] \in {"open", "shut"}
  /\ stream' = [stream EXCEPT ![w] = "left"]
  /\ buffer' = [buffer EXCEPT ![w] = <<>>]
  /\ UNCHANGED <<masterVars, watching, seen, evicted>>

Handler(j) == CreateJob(j) \/ Report(j) \/ EndJob(j) \/ CollectJob(j) \/ Terminate(j)
Client(w)  == Receive(w) \/ StreamEnds(w) \/ Leave(w)

Next == \/ \E j \in Jobs : Handler(j)
        \/ \E w \in Watchers, j \in Jobs : WatchJob(w, j)
        \/ \E w \in Watchers : Offer(w) \/ Evict(w) \/ Client(w)
        \/ BroadcastBegins \/ HandlerUnlocks

Spec == Init /\ [][Next]_vars

-----------------------------------------------------------------------------
(* Properties.                                                             *)

(* What a watcher has received and will receive from its buffer.           *)
Delivered(w) == seen[w] \o buffer[w]

Numbers(w) == {Delivered(w)[i].seq : i \in 1..Len(Delivered(w))}

(* The numbers of one stream increase, whichever handlers and WatchJob     *)
(* calls draw from the common counter: order is kept by the jobs lock.     *)
SeqIncreases ==
  \A w \in Watchers : \A i, k \in 1..Len(Delivered(w)) :
    i < k /\ Delivered(w)[k] # Overflow => Delivered(w)[i].seq < Delivered(w)[k].seq

(* A stream has no gap: it holds, has delivered or is about to be offered  *)
(* every event of its job since the snapshot.  Only a watcher that left or *)
(* was evicted misses any, so a stream that was closed has the verdict.    *)
NoGap ==
  \A w \in Watchers :
    LET j      == watching[w]
        coming == IF emitting.job = j /\ w \in emitting.todo \cup emitting.full
                  THEN {emitting.seq} ELSE {}
    IN  stream[w] \in {"open", "shut", "done"} /\ w \notin evicted =>
          {n \in sent[j] : n > Delivered(w)[1].seq} \subseteq Numbers(w) \cup coming

(* The verdict of the job is the last item of a stream: nothing follows    *)
(* it, not even the snapshot of a handler that lost the race.              *)
VerdictLast ==
  \A w \in Watchers : \A i \in 1..Len(Delivered(w)) :
    Delivered(w)[i].kind = "verdict" => i = Len(Delivered(w))

(* A watcher is registered only for a job that is live or whose last       *)
(* handler has still to close the streams: neither WatchJob nor GC can     *)
(* slip in behind the closing and leave a stream open for ever.            *)
NobodyLeftBehind ==
  \A j \in Jobs : subs[j] # {} => phase[j] = "live" \/ j \in closing \/ emitting.job = j

(* What a stream shows is the history of its job from the snapshot on:     *)
(* in order, without a gap, and up to the verdict.                         *)
StreamFaithful == SeqIncreases /\ NoGap /\ VerdictLast

(* As JobLog sees it: an event is in the log once its broadcast begins, and *)
(* a watcher reads from its snapshot on until its stream ends or breaks.    *)
LastLogged  == IF emitting.step = "drawn" THEN lastSeq - 1 ELSE lastSeq
Complete    == {j \in Jobs : /\ phase[j] \in {"over", "gone"}
                             /\ emitting.job = j => emitting.step # "drawn"}
Reads(w)    == stream[w] \in {"open", "shut"}
Snapshot(w) == IF Reads(w) THEN Delivered(w)[1].seq ELSE 0
Shown(w)    == {seen[w][i].seq : i \in 1..Len(seen[w])} \ {0}
Standing(w) == IF stream[w] = "new" THEN "new" ELSE IF Reads(w) THEN "reading"
               ELSE IF stream[w] = "done" /\ w \notin evicted THEN "ended" ELSE "cut"

Log == INSTANCE JobLog WITH
  Readers <- Watchers, last <- LastLogged, log <- sent, closed <- Complete, job <- watching,
  state <- [w \in Watchers |-> Standing(w)], since <- [w \in Watchers |-> Snapshot(w)],
  shown <- [w \in Watchers |-> Shown(w)]

(* Behind locks, buffers and evictions every watcher reads the log of its  *)
(* job from its snapshot on, and even one that is evicted or leaves is     *)
(* shown no entry out of turn.                                             *)
ImplementsLog == Log!Spec
=============================================================================
