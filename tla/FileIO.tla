------------------------------- MODULE FileIO -------------------------------
(***************************************************************************)
(* One file of a workload and the check of its content: a file of the read *)
(* runner that is streamed block by block, hashed and compared with its S3 *)
(* object, or a file of the write runner that is written and read back.    *)
(*                                                                         *)
(* A read has a producer that opens the file and sends one event per       *)
(* block, and a consumer, the I/O task of the runner, that hashes the      *)
(* blocks in the order in which they arrive.  With direct_io the producer  *)
(* is a blocking thread behind a second channel, and a forwarder moves its *)
(* events.  Hashes are the byte sequences themselves: bytes are numbered   *)
(* by their place in the original, 0 is a byte that is not of it.          *)
(***************************************************************************)
EXTENDS Integers, Sequences, SequencesExt

CONSTANTS
  Lengths,     (* the lengths that the file may have                       *)
  BlockSize,   (* block_size of the job                                    *)
  Profiles,    (* the I/O profiles of jobs: mode, aligned, direct          *)
  Ops,         (* "check": read and compare; "verify": write and read back *)
  ChannelCap,  (* capacity of the channel to the consumer                  *)
  SyncCap      (* capacity of the channel of the blocking thread           *)

AllProfiles == {p \in [mode : {"seq", "rand"}, aligned : BOOLEAN, direct : BOOLEAN] :
                  p.direct => p.aligned}

ASSUME FileAssumption ==
  /\ Lengths \subseteq Nat
  /\ {BlockSize, ChannelCap, SyncCap} \subseteq Nat \ {0}
  /\ Profiles \subseteq AllProfiles
  /\ Ops \subseteq {"check", "verify"}

VARIABLES
  op,        \* which check it is
  profile,   \* the I/O profile
  original,  \* the S3 object, or the payload
  file,      \* what the file system holds
  damaged,   \* that is not what was put there
  stop,      \* abort or cancelled
  producer,  \* "open", "reading", "sending" or "ended"
  todo,      \* the ranges that it has not read
  event,     \* what it sends
  sync,      \* the channel of the blocking thread
  forwarder, \* "recv", "sending", "joining" or "ended"
  passing,   \* what it forwards
  channel,   \* the channel to the consumer
  open,      \* its receiving end exists
  consumer,  \* "writing", "recv", "awaiting", "comparing" or "done"
  digest,    \* the bytes that were hashed
  failed,    \* io_err
  verdict    \* "none", "ok", "mismatch", "error" or "skipped"

jobVars      == <<op, profile, original>>
fileVars     == <<file, damaged>>
producerVars == <<producer, todo, event>>
forwardVars  == <<sync, forwarder, passing>>
consumerVars == <<consumer, digest, failed, verdict>>
vars == <<jobVars, fileVars, stop, producerVars, forwardVars, channel, open, consumerVars>>

Event(kind, bytes) == [kind |-> kind, bytes |-> bytes]
NoEvent == Event("none", <<>>)

IsEvent(e) == e.kind \in {"none", "open", "chunk", "close", "error"} /\ e.bytes \in Seq(Nat)

TypeOK ==
  /\ op \in Ops /\ profile \in Profiles
  /\ original \in Seq(Nat) /\ Len(file) <= Len(original)
  /\ {stop, damaged, open, failed} \subseteq BOOLEAN
  /\ producer \in {"open", "reading", "sending", "ended"}
  /\ todo \in Seq(Nat \X Nat) /\ IsEvent(event) /\ IsEvent(passing)
  /\ Len(sync) <= SyncCap /\ (~profile.direct => sync = <<>>)
  /\ Len(channel) <= ChannelCap
  /\ \A i \in DOMAIN sync : IsEvent(sync[i])
  /\ \A i \in DOMAIN channel : IsEvent(channel[i])
  /\ forwarder \in {"recv", "sending", "joining", "ended"}
  /\ consumer \in {"writing", "recv", "awaiting", "comparing", "done"}
  /\ digest \in Seq(Nat)
  /\ verdict \in {"none", "ok", "mismatch", "error", "skipped"}
  /\ (verdict # "none") <=> (consumer = "done")

(* A file that lost its tail, or one byte.                                 *)
Corrupted(bytes) ==
  {SubSeq(bytes, 1, Len(bytes) - 1)} \cup {[bytes EXCEPT ![i] = 0] : i \in DOMAIN bytes}

(* What the file system may hold of bytes.                                 *)
Stored(bytes) == {bytes} \cup IF bytes = <<>> THEN {} ELSE Corrupted(bytes)

Init ==
  /\ op \in Ops /\ profile \in Profiles
  /\ \E n \in Lengths : original = [i \in 1..n |-> i]
  /\ file \in IF op = "check" THEN Stored(original) ELSE {<<>>}
  /\ damaged = (op = "check" /\ file # original)
  /\ stop = FALSE
  /\ producer = IF op = "check" THEN "open" ELSE "ended"
  /\ todo = <<>> /\ event = NoEvent
  /\ sync = <<>> /\ passing = NoEvent
  /\ forwarder = IF op = "check" /\ profile.direct THEN "recv" ELSE "ended"
  /\ channel = <<>> /\ open = TRUE
  /\ consumer = IF op = "check" THEN "recv" ELSE "writing"
  /\ digest = <<>> /\ failed = FALSE /\ verdict = "none"

-----------------------------------------------------------------------------
(* The ranges of a file.                                                   *)

Least(m, n) == IF m < n THEN m ELSE n

(* The blocks of a file of len bytes from the offset start on.             *)
RangesFrom(start, len) ==
  [k \in 1..(len - start + BlockSize - 1) \div BlockSize |->
     LET offset == start + (k - 1) * BlockSize
     IN  <<offset, Least(BlockSize, len - offset)>>]

ChunkRanges(len) == RangesFrom(0, len)

(* The start is drawn from the path and the length.                        *)
UnalignedRanges(len) ==
  IF len = 0 THEN {<<>>} ELSE {RangesFrom(start, len) : start \in 0..len - 1}

(* All orders of a sequence of distinct ranges.                            *)
Shuffled(ranges) == SetToSeqs(ToSet(ranges))

Covered(ranges) ==
  {i + 1 : i \in UNION {r[1]..(r[1] + r[2] - 1) : r \in ToSet(ranges)}}

Range1(len) == IF len = 0 THEN <<>> ELSE <<<<0, len>>>>

(* Where a producer reads, and in which order.                             *)
ReadPlans(len) ==
  IF profile.direct \/ (profile.mode = "seq" /\ profile.aligned) THEN {Range1(len)}
  ELSE IF profile.mode = "seq" THEN UnalignedRanges(len)
  ELSE UNION {Shuffled(r) : r \in IF profile.aligned THEN {ChunkRanges(len)}
                                                     ELSE UnalignedRanges(len)}

(* Where write_file writes; the order does not matter.                     *)
WritePlans(len) ==
  IF profile.direct \/ profile.aligned \/ profile.mode = "rand" THEN {ChunkRanges(len)}
  ELSE UnalignedRanges(len)

-----------------------------------------------------------------------------
(* The producer.                                                           *)

Sends(e) == producer' = "sending" /\ event' = e

(* The file is opened, or cannot be.                                       *)
Open ==
  /\ producer = "open"
  /\ \/ Sends(Event("open", <<>>)) /\ todo' \in ReadPlans(Len(file))
     \/ Sends(Event("error", <<>>)) /\ UNCHANGED todo
  /\ UNCHANGED <<jobVars, fileVars, stop, forwardVars, channel, open, consumerVars>>

(* How many bytes one read, or one pread, of the range may return: either  *)
(* may be short.                                                           *)
ReadSizes(range) == 1..Least(BlockSize, range[2])

(* A sequential reader goes on where a short read ended, a reader of       *)
(* ranges goes on with the next range.                                     *)
Rest(range, n) ==
  IF (profile.direct \/ (profile.mode = "seq" /\ profile.aligned)) /\ n < range[2]
  THEN <<<<range[1] + n, range[2] - n>>>>
  ELSE <<>>

ReadBlock ==
  /\ producer = "reading" /\ todo # <<>>
  /\ LET range == Head(todo)
     IN  \E n \in ReadSizes(range) :
           /\ Sends(Event("chunk", SubSeq(file, range[1] + 1, range[1] + n)))
           /\ todo' = Rest(range, n) \o Tail(todo)
  /\ UNCHANGED <<jobVars, fileVars, stop, forwardVars, channel, open, consumerVars>>

(* The length of the file cannot be had, or a seek or a read fails.        *)
ReadFails ==
  /\ producer = "reading"
  /\ Sends(Event("error", <<>>))
  /\ UNCHANGED <<jobVars, fileVars, stop, todo, forwardVars, channel, open, consumerVars>>

CloseFile ==
  /\ producer = "reading" /\ todo = <<>>
  /\ Sends(Event("close", <<>>))
  /\ UNCHANGED <<jobVars, fileVars, stop, todo, forwardVars, channel, open, consumerVars>>

(* After an error and after the last event the producer returns.           *)
AfterSend == IF event.kind \in {"error", "close"} THEN "ended" ELSE "reading"

(* Mutant: the producer never learns that the consumer has gone.           *)
SendForEver ==
  /\ producer = "sending" /\ ~profile.direct
  /\ open /\ Len(channel) < ChannelCap
  /\ channel' = Append(channel, event) /\ producer' = AfterSend
  /\ event' = NoEvent
  /\ UNCHANGED <<jobVars, fileVars, stop, todo, forwardVars, open, consumerVars>>

(* An asynchronous producer sends to the consumer: it waits for room, and  *)
(* returns if the consumer has dropped its end.                            *)
Send ==
  /\ producer = "sending" /\ ~profile.direct
  /\ \/ /\ open /\ Len(channel) < ChannelCap
        /\ channel' = Append(channel, event) /\ producer' = AfterSend
     \/ ~open /\ producer' = "ended" /\ UNCHANGED channel
  /\ event' = NoEvent
  /\ UNCHANGED <<jobVars, fileVars, stop, todo, forwardVars, open, consumerVars>>

(* The thread of direct_io sends to the forwarder: it blocks on a full     *)
(* channel until the forwarder, whose function owns the receiving end,     *)
(* takes an event or has returned.                                         *)
SendSync ==
  /\ producer = "sending" /\ profile.direct
  /\ \/ /\ forwarder # "ended" /\ Len(sync) < SyncCap
        /\ sync' = Append(sync, event) /\ producer' = AfterSend
     \/ forwarder = "ended" /\ producer' = "ended" /\ UNCHANGED sync
  /\ event' = NoEvent
  /\ UNCHANGED <<jobVars, fileVars, stop, todo, forwarder, passing, channel, open, consumerVars>>

-----------------------------------------------------------------------------
(* The forwarder of direct_io.                                             *)

ForwardRecv ==
  /\ forwarder = "recv"
  /\ \/ sync # <<>> /\ forwarder' = "sending" /\ passing' = Head(sync) /\ sync' = Tail(sync)
     \/ /\ sync = <<>> /\ producer = "ended"
        /\ forwarder' = "joining" /\ UNCHANGED <<sync, passing>>
  /\ UNCHANGED <<jobVars, fileVars, stop, producerVars, channel, open, consumerVars>>

ForwardSend ==
  /\ forwarder = "sending"
  /\ \/ /\ open /\ Len(channel) < ChannelCap
        /\ channel' = Append(channel, passing) /\ forwarder' = "recv"
     \/ ~open /\ forwarder' = "joining" /\ UNCHANGED channel
  /\ passing' = NoEvent
  /\ UNCHANGED <<jobVars, fileVars, stop, producerVars, sync, open, consumerVars>>

(* It waits for the thread, and drops its end of the channel only then.    *)
ForwardJoin ==
  /\ forwarder = "joining" /\ producer = "ended"
  /\ forwarder' = "ended" /\ sync' = <<>>
  /\ UNCHANGED <<jobVars, fileVars, stop, producerVars, passing, channel, open, consumerVars>>

(* stream_read_file has returned and dropped the sending end.              *)
StreamEnded == producer = "ended" /\ (profile.direct => forwarder = "ended")

-----------------------------------------------------------------------------
(* The consumer.                                                           *)

(* The loop is left and the receiving end dropped.                         *)
StopsReceiving == consumer' = "awaiting" /\ open' = FALSE /\ channel' = <<>>

(* An event that finds the job stopped is dropped with the rest.           *)
Recv ==
  /\ consumer = "recv"
  /\ \/ /\ channel # <<>> /\ stop
        /\ StopsReceiving /\ UNCHANGED <<digest, failed>>
     \/ /\ channel # <<>> /\ ~stop /\ Head(channel).kind = "error"
        /\ StopsReceiving /\ failed' = TRUE /\ UNCHANGED digest
     \/ /\ channel # <<>> /\ ~stop /\ Head(channel).kind # "error"
        /\ digest' = digest \o Head(channel).bytes
        /\ channel' = Tail(channel)
        /\ UNCHANGED <<consumer, open, failed>>
     \/ /\ channel = <<>> /\ StreamEnded
        /\ StopsReceiving /\ UNCHANGED <<digest, failed>>
  /\ UNCHANGED <<jobVars, fileVars, stop, producerVars, forwardVars, verdict>>

Finish(v) == consumer' = "done" /\ verdict' = v

(* Mutant: a read that was stopped is compared as well.                    *)
ReadReturnsUnchecked ==
  /\ consumer = "awaiting" /\ StreamEnded
  /\ \/ failed /\ Finish("error")
     \/ ~failed /\ consumer' = "comparing" /\ UNCHANGED verdict
  /\ UNCHANGED <<jobVars, fileVars, stop, producerVars, forwardVars, channel, open, digest, failed>>

(* The producer has been joined; a read that was stopped is not compared.  *)
ReadReturns ==
  /\ consumer = "awaiting" /\ StreamEnded
  /\ \/ failed /\ Finish("error")
     \/ ~failed /\ stop /\ Finish("skipped")
     \/ ~failed /\ ~stop /\ consumer' = "comparing" /\ UNCHANGED verdict
  /\ UNCHANGED <<jobVars, fileVars, stop, producerVars, forwardVars, channel, open, digest, failed>>

(* Mutant: the sizes are compared, the hashes are not.                     *)
CompareSizes ==
  /\ op = "check" /\ consumer = "comparing"
  /\ Finish(IF Len(digest) = Len(original) THEN "ok" ELSE "mismatch")
  /\ UNCHANGED <<jobVars, fileVars, stop, producerVars, forwardVars, channel, open, digest, failed>>

(* The object is fetched, which may fail, and compared with what was       *)
(* hashed: first the sizes, then the hashes.                               *)
Compare ==
  /\ op = "check" /\ consumer = "comparing"
  /\ Finish("error") \/ Finish(IF digest = original THEN "ok" ELSE "mismatch")
  /\ UNCHANGED <<jobVars, fileVars, stop, producerVars, forwardVars, channel, open, digest, failed>>

-----------------------------------------------------------------------------
(* Write and verify: a task of its own, one step after the other.          *)

(* A block that is not written is a hole of zeros.                         *)
Written(ranges) ==
  [i \in 1..Len(original) |-> IF i \in Covered(ranges) THEN original[i] ELSE 0]

WriteFile ==
  /\ consumer = "writing"
  /\ \/ \E ranges \in WritePlans(Len(original)) :
          /\ file' \in Stored(Written(ranges)) /\ damaged' = (file' # Written(ranges))
          /\ consumer' = "comparing" /\ UNCHANGED verdict
     \/ Finish("error") /\ UNCHANGED fileVars
  /\ UNCHANGED <<jobVars, stop, producerVars, forwardVars, channel, open, digest, failed>>

(* stream_sha256 reads the file from its start to its end.                 *)
Verify ==
  /\ op = "verify" /\ consumer = "comparing"
  /\ \/ Finish("error") /\ UNCHANGED digest
     \/ digest' = file /\ Finish(IF file = original THEN "ok" ELSE "mismatch")
  /\ UNCHANGED <<jobVars, fileVars, stop, producerVars, forwardVars, channel, open, failed>>

-----------------------------------------------------------------------------
(* Another task of the job fails, or the job is cancelled.                 *)
Stop ==
  /\ ~stop /\ consumer # "done"
  /\ stop' = TRUE
  /\ UNCHANGED <<jobVars, fileVars, producerVars, forwardVars, channel, open, consumerVars>>

Produce == Open \/ ReadBlock \/ ReadFails \/ CloseFile \/ Send \/ SendSync
Forward == ForwardRecv \/ ForwardSend \/ ForwardJoin
Consume == Recv \/ ReadReturns \/ Compare \/ WriteFile \/ Verify

Next == Produce \/ Forward \/ Consume \/ Stop

Spec == Init /\ [][Next]_vars

(* Reads, writes and fetches of the object return.                         *)
Fairness == WF_vars(Produce) /\ WF_vars(Forward) /\ WF_vars(Consume)

FairSpec == Spec /\ Fairness

-----------------------------------------------------------------------------
(* The bytes reach the hash in their order: every block of the file is     *)
(* read once, from its start to its end.                                   *)
WholeInOrder ==
  \/ profile.direct
  \/ profile.aligned /\ profile.mode = "seq"
  \/ op = "verify" /\ profile.mode = "rand"

(* A check passes only if the file has the content it should have: no read *)
(* that was cut short, and no damaged file, is reported as equal.          *)
MatchIsTrue == verdict = "ok" => file = original

(* Where the file is read and written as a whole and in order, a mismatch  *)
(* is reported only if the file system lost something: not of a read that  *)
(* the end of the job interrupted, on either side of the channels, nor of  *)
(* a file of which a block was not written.                                *)
AlarmIsTrue == verdict = "mismatch" /\ WholeInOrder => damaged

FileSound == TypeOK /\ MatchIsTrue

(* The I/O task gets back from every read, stopped or not, whatever was    *)
(* left in the channels; with direct_io only from one that is not stopped. *)
ReadEnds == <>(consumer = "done" \/ (profile.direct /\ stop))

(* read.rs: "dropping the consumer makes the producer's send fail, it      *)
(* returns by itself", so every read ends.                                 *)
EveryReadEnds == <>(consumer = "done")
=============================================================================
