---------------------------- MODULE FileIOProofs ----------------------------
(* A check passes only a file that is what it should be, and it alarms only *)
(* if the file system lost something, for every length, block size, profile *)
(* and capacity of the channels.                                            *)
EXTENDS FileIO, FiniteSetTheorems, SequenceTheorems, TLAPS

(* The pieces of a file of len bytes.                                      *)
Pieces(len) == {r \in Nat \X Nat : r[1] + r[2] <= len}

LEMMA Quotient ==
  ASSUME NEW a \in Nat, NEW b \in Nat \ {0}
  PROVE  a \div b \in Nat /\ (a \div b) * b <= a /\ a < (a \div b) * b + b
<1>1. a = b * (a \div b) + (a % b) /\ 0 <= a % b /\ a % b < b
  OBVIOUS
<1>2. a \div b \in Int /\ a % b \in Int
  OBVIOUS
<1>3. a \div b >= 0
  <2>1. CASE a \div b < 0
    <3>1. b * (a \div b) <= -b
      BY <2>1, <1>2
    <3> QED BY <3>1, <1>1, <1>2
  <2> QED BY <2>1, <1>2
<1>4. (a \div b) * b = b * (a \div b)
  BY <1>2
<1> QED BY <1>1, <1>2, <1>3, <1>4

LEMMA Times ==
  ASSUME NEW k \in Int, NEW q \in Int, NEW b \in Nat, k <= q
  PROVE  k * b <= q * b /\ (k - 1) * b = k * b - b
OBVIOUS

(* The k-th block begins in the file and ends in it.                       *)
LEMMA BlockInFile ==
  ASSUME NEW len \in Nat, NEW start \in 0..len,
         NEW k \in 1..((len - start + BlockSize - 1) \div BlockSize)
  PROVE  LET offset == start + (k - 1) * BlockSize
         IN  offset \in Nat /\ offset < len /\ Least(BlockSize, len - offset) \in Nat \ {0}
             /\ offset + Least(BlockSize, len - offset) <= len
<1> DEFINE a == len - start + BlockSize - 1
           q == a \div BlockSize
           y == (k - 1) * BlockSize
<1>1. BlockSize \in Nat \ {0}
  BY FileAssumption
<1>2. a \in Nat
  BY <1>1
<1>3. q \in Nat /\ q * BlockSize <= a
  BY <1>1, <1>2, Quotient
<1>4. k \in Int /\ k >= 1 /\ k <= q
  BY <1>3
<1>5. k * BlockSize <= q * BlockSize /\ y = k * BlockSize - BlockSize
  BY <1>1, <1>3, <1>4, Times
<1>6. y \in Nat
  BY <1>1, <1>4
<1>7. k * BlockSize \in Int /\ q * BlockSize \in Int
  BY <1>1, <1>3, <1>4
<1> HIDE DEF q, y
<1>8. y < len - start
  BY <1>1, <1>3, <1>5, <1>6, <1>7
<1> QED BY <1>1, <1>6, <1>8 DEF Least, y

LEMMA RangesArePieces ==
  ASSUME NEW len \in Nat, NEW start \in 0..len
  PROVE  RangesFrom(start, len) \in Seq(Pieces(len))
<1> DEFINE n == (len - start + BlockSize - 1) \div BlockSize
           f == RangesFrom(start, len)
<1>1. BlockSize \in Nat \ {0}
  BY FileAssumption
<1>2. n \in Nat
  BY <1>1, Quotient
<1>3. \A k \in 1..n : f[k] \in Pieces(len)
  BY BlockInFile DEF RangesFrom, Pieces
<1>4. f = [k \in 1..n |-> f[k]]
  BY DEF RangesFrom
<1> HIDE DEF n, f
<1>5. f \in [1..n -> Pieces(len)]
  BY <1>3, <1>4
<1> QED BY <1>2, <1>5 DEF f

LEMMA FiniteRange ==
  ASSUME NEW S, NEW s \in Seq(S)
  PROVE  IsFiniteSet(ToSet(s)) /\ ToSet(s) \subseteq S
<1> DEFINE T == ToSet(s)
<1>1. Len(s) \in Nat /\ s \in [1..Len(s) -> S] /\ DOMAIN s = 1..Len(s)
  BY LenProperties
<1>2. T = {s[i] : i \in 1..Len(s)}
  BY <1>1 DEF ToSet
<1>3. s \in Surjection(1..Len(s), T)
  BY <1>1, <1>2 DEF Surjection
<1>4. IsFiniteSet(1..Len(s))
  BY <1>1, FS_Interval
<1> HIDE DEF T
<1>5. IsFiniteSet(T)
  BY <1>3, <1>4, FS_Surjection
<1> QED BY <1>1, <1>2, <1>5 DEF T

LEMMA ShuffledArePieces ==
  ASSUME NEW S, NEW ranges \in Seq(S), NEW p \in Shuffled(ranges)
  PROVE  p \in Seq(S)
<1> DEFINE T == ToSet(ranges)
           n == Cardinality(T)
<1>1. IsFiniteSet(T) /\ T \subseteq S
  BY FiniteRange
<1>2. n \in Nat
  BY <1>1, FS_CardinalityType
<1>3. p \in [1..n -> T]
  BY DEF Shuffled, SetToSeqs
<1> HIDE DEF T, n
<1>4. p \in [1..n -> S]
  BY <1>1, <1>3
<1> QED BY <1>2, <1>4

LEMMA PlansArePieces ==
  ASSUME NEW len \in Nat, NEW plan \in ReadPlans(len)
  PROVE  plan \in Seq(Pieces(len))
<1>1. Range1(len) \in Seq(Pieces(len))
  BY DEF Range1, Pieces
<1>2. ChunkRanges(len) \in Seq(Pieces(len))
  BY RangesArePieces DEF ChunkRanges
<1>3. \A r \in UnalignedRanges(len) : r \in Seq(Pieces(len))
  <2>1. CASE len = 0
    BY <2>1 DEF UnalignedRanges
  <2>2. CASE len # 0
    <3>1. \A start \in 0..len - 1 : RangesFrom(start, len) \in Seq(Pieces(len))
      BY RangesArePieces
    <3> QED BY <2>2, <3>1 DEF UnalignedRanges
  <2> QED BY <2>1, <2>2
<1>4. \A r \in Seq(Pieces(len)) : \A p \in Shuffled(r) : p \in Seq(Pieces(len))
  BY ShuffledArePieces
<1>5. \/ plan = Range1(len)
      \/ plan \in UnalignedRanges(len)
      \/ \E r \in {ChunkRanges(len)} \cup UnalignedRanges(len) : plan \in Shuffled(r)
  BY DEF ReadPlans
<1> QED BY <1>1, <1>2, <1>3, <1>4, <1>5

(* What is written block by block from the start leaves no hole.           *)
LEMMA ChunksCover ==
  ASSUME NEW len \in Nat
  PROVE  1..len \subseteq Covered(ChunkRanges(len))
<1> SUFFICES ASSUME NEW i \in 1..len PROVE i \in Covered(ChunkRanges(len))
  OBVIOUS
<1> DEFINE B == BlockSize
           q == (i - 1) \div B
           k == q + 1
           m == (len - 0 + B - 1) \div B
           f == ChunkRanges(len)
<1>1. B \in Nat \ {0}
  BY FileAssumption
<1>2. i - 1 \in Nat /\ len + B - 1 \in Nat /\ len - 0 + B - 1 = len + B - 1
  BY <1>1
<1>3. q \in Nat /\ q * B <= i - 1 /\ i - 1 < q * B + B
  BY <1>1, <1>2, Quotient
<1>4. m \in Nat /\ m * B <= len + B - 1 /\ len + B - 1 < m * B + B
  BY <1>1, <1>2, Quotient
<1> HIDE DEF q, m
<1>5. k \in 1..m
  <2>1. q * B \in Int /\ m * B \in Int
    BY <1>1, <1>3, <1>4
  <2>2. q * B < m * B
    BY <1>1, <1>3, <1>4, <2>1
  <2>3. CASE m <= q
    <3>1. m * B <= q * B
      BY <1>1, <1>3, <1>4, <2>3, Times
    <3> QED BY <2>1, <2>2, <3>1
  <2> QED BY <1>3, <1>4, <2>3
<1>6. (k - 1) * B = q * B /\ q * B \in Nat
  BY <1>1, <1>3
<1> HIDE DEF k
<1>7. f = [j \in 1..m |-> <<0 + (j - 1) * B, Least(B, len - (0 + (j - 1) * B))>>]
  BY DEF ChunkRanges, RangesFrom, m
<1>8. f[k] = <<0 + q * B, Least(B, len - (0 + q * B))>>
  BY <1>5, <1>6, <1>7
<1>9. i - 1 \in f[k][1]..(f[k][1] + f[k][2] - 1)
  <2> DEFINE y == q * B
  <2>1. y \in Nat /\ y <= i - 1 /\ i - 1 < y + B
    BY <1>3, <1>6
  <2>2. f[k][1] = y /\ f[k][2] = Least(B, len - y)
    BY <1>6, <1>8
  <2> HIDE DEF y
  <2> QED BY <1>1, <2>1, <2>2 DEF Least
<1>10. f[k] \in ToSet(f)
  BY <1>5, <1>7 DEF ToSet
<1> HIDE DEF f
<1>11. i - 1 \in UNION {r[1]..(r[1] + r[2] - 1) : r \in ToSet(f)}
  BY <1>9, <1>10
<1>12. i = (i - 1) + 1
  OBVIOUS
<1> QED BY <1>11, <1>12 DEF Covered, f

-----------------------------------------------------------------------------
(* What a file may hold.                                                   *)

Kinds == {"none", "open", "chunk", "close", "error"}
Events(B) == [kind : Kinds, bytes : Seq(B)]

Numbered(bytes) == bytes = [i \in 1..Len(bytes) |-> i]

LEMMA EventTypes ==
  ASSUME NEW B
  PROVE  /\ NoEvent \in Events(B)
         /\ \A k \in Kinds : Event(k, <<>>) \in Events(B)
         /\ \A bytes \in Seq(B) : Event("chunk", bytes) \in Events(B)
BY EmptySeq DEF Events, Event, NoEvent, Kinds

LEMMA StoredType ==
  ASSUME NEW bytes \in Seq(Nat), NEW b \in Stored(bytes)
  PROVE  b \in Seq(Nat) /\ Len(b) <= Len(bytes)
<1>1. CASE b = bytes
  BY <1>1
<1>2. CASE bytes # <<>> /\ b = SubSeq(bytes, 1, Len(bytes) - 1)
  <2>1. Len(bytes) \in Nat \ {0}
    BY <1>2, EmptySeq
  <2>2. \A i \in 1..(Len(bytes) - 1) : bytes[i] \in Nat
    BY ElementOfSeq
  <2> QED BY <1>2, <2>1, <2>2, SubSeqProperties
<1>3. CASE \E i \in DOMAIN bytes : b = [bytes EXCEPT ![i] = 0]
  <2>1. PICK i \in 1..Len(bytes) : b = [bytes EXCEPT ![i] = 0]
    BY <1>3, LenProperties
  <2>2. b \in Seq(Nat) /\ Len(b) = Len(bytes)
    BY <2>1, ExceptSeq
  <2> QED BY <2>2, LenProperties
<1> QED BY <1>1, <1>2, <1>3 DEF Stored, Corrupted

(* A file that was damaged has lost a byte of the original.                *)
LEMMA DamageLoses ==
  ASSUME NEW bytes \in Seq(Nat), Numbered(bytes), NEW b \in Stored(bytes), b # bytes
  PROVE  \E i \in 1..Len(bytes) : i \notin ToSet(b)
<1> DEFINE n == Len(bytes)
<1>1. n \in Nat /\ DOMAIN bytes = 1..n /\ \A i \in 1..n : bytes[i] = i
  BY LenProperties DEF Numbered
<1>2. bytes # <<>> /\ n # 0
  BY EmptySeq DEF Stored
<1>3. CASE b = SubSeq(bytes, 1, n - 1)
  <2> HIDE DEF n
  <2> DEFINE m == n - 1
  <2>1. m \in Nat /\ \A i \in 1..m : bytes[i] \in Nat
    BY <1>1, <1>2
  <2> HIDE DEF m
  <2>6. /\ SubSeq(bytes, 1, m) \in Seq(Nat)
        /\ Len(SubSeq(bytes, 1, m)) = IF 1 <= m THEN m - 1 + 1 ELSE 0
        /\ \A i \in 1..(m - 1 + 1) : SubSeq(bytes, 1, m)[i] = bytes[1 + i - 1]
    BY <2>1, SubSeqProperties
  <2>2. b \in Seq(Nat) /\ Len(b) = n - 1
    BY <1>1, <1>2, <1>3, <2>1, <2>6 DEF m
  <2>3. \A i \in 1..(n - 1) : b[i] = bytes[1 + i - 1]
    BY <1>1, <1>2, <1>3, <2>1, <2>6 DEF m
  <2>4. DOMAIN b = 1..(n - 1) /\ \A i \in 1..(n - 1) : b[i] = i
    BY <1>1, <2>2, <2>3, LenProperties
  <2>5. n \notin ToSet(b) /\ n \in 1..n
    BY <1>1, <1>2, <2>4 DEF ToSet
  <2> QED BY <2>5 DEF n
<1>4. ASSUME NEW i \in DOMAIN bytes, b = [bytes EXCEPT ![i] = 0] PROVE i \notin ToSet(b) /\ i \in 1..n
  BY <1>1, <1>4 DEF ToSet
<1> QED BY <1>2, <1>3, <1>4 DEF Stored, Corrupted

LEMMA ReadPiece ==
  ASSUME NEW f \in Seq(Nat), NEW p \in Nat, NEW n \in Nat, p + n <= Len(f)
  PROVE  SubSeq(f, p + 1, p + n) \in Seq(ToSet(f))
<1>1. Len(f) \in Nat /\ DOMAIN f = 1..Len(f)
  BY LenProperties
<1>2. \A i \in (p + 1)..(p + n) : f[i] \in ToSet(f)
  BY <1>1 DEF ToSet
<1> QED BY <1>2, SubSeqProperties

-----------------------------------------------------------------------------
(* Types, and where the bytes come from.                                   *)

JobType ==
  /\ op \in Ops /\ profile \in Profiles /\ stop \in BOOLEAN
  /\ original \in Seq(Nat) /\ Numbered(original)
  /\ file \in Seq(Nat) /\ Len(file) <= Len(original) /\ damaged \in BOOLEAN

(* The producer reads in the file, and only what is in the file is on the  *)
(* way and is hashed.                                                      *)
FlowType ==
  /\ producer \in {"open", "reading", "sending", "ended"}
  /\ forwarder \in {"recv", "sending", "joining", "ended"}
  /\ todo \in Seq(Pieces(Len(file)))
  /\ event \in Events(ToSet(file)) /\ passing \in Events(ToSet(file))
  /\ sync \in Seq(Events(ToSet(file))) /\ Len(sync) <= SyncCap /\ (~profile.direct => sync = <<>>)
  /\ channel \in Seq(Events(ToSet(file))) /\ Len(channel) <= ChannelCap

ConsumerType ==
  /\ consumer \in {"writing", "recv", "awaiting", "comparing", "done"}
  /\ digest \in Seq(ToSet(file)) /\ failed \in BOOLEAN /\ open \in BOOLEAN
  /\ verdict \in {"none", "ok", "mismatch", "error", "skipped"}
  /\ (verdict # "none") <=> (consumer = "done")

(* A check never writes; a verification has no producer.                   *)
RolesKept ==
  /\ op = "check" => /\ file \in Stored(original) /\ damaged = (file # original)
                     /\ consumer # "writing"
  /\ op = "verify" => /\ producer = "ended" /\ forwarder = "ended" /\ consumer \notin {"recv", "awaiting"}
                      /\ todo = <<>> /\ sync = <<>> /\ channel = <<>>
                      /\ event = NoEvent /\ passing = NoEvent
                      /\ consumer # "done" => digest = <<>>

OkIsEqual == verdict = "ok" => file = original

SoundInv == JobType /\ FlowType /\ ConsumerType /\ RolesKept /\ OkIsEqual

LEMMA InitSound == Init => SoundInv
<1> SUFFICES ASSUME Init PROVE SoundInv
  OBVIOUS
<1>1. PICK n \in Lengths : original = [i \in 1..n |-> i]
  BY DEF Init
<1>2. n \in Nat
  BY FileAssumption
<1>3. original \in Seq(Nat) /\ Len(original) = n /\ Numbered(original)
  <2>1. original \in [1..n -> Nat]
    BY <1>1
  <2>2. original \in Seq(Nat) /\ Len(original) = n
    BY <1>1, <1>2, <2>1
  <2> QED BY <1>1, <2>2 DEF Numbered
<1>4. op \in {"check", "verify"}
  BY FileAssumption DEF Init
<1>5. file \in Seq(Nat) /\ Len(file) <= Len(original)
  <2>1. CASE op = "check"
    BY <1>3, <2>1, StoredType DEF Init
  <2>2. CASE op = "verify"
    <3>1. file = <<>>
      BY <2>2 DEF Init
    <3>2. <<>> \in Seq(Nat) /\ Len(<<>>) = 0
      BY EmptySeq
    <3> QED BY <3>1, <3>2, <1>2, <1>3
  <2> QED BY <1>4, <2>1, <2>2
<1>6. JobType
  BY <1>3, <1>5 DEF Init, JobType
<1>7. FlowType
  BY EventTypes, EmptySeq, FileAssumption DEF Init, FlowType
<1>8. ConsumerType
  BY EmptySeq DEF Init, ConsumerType
<1>9. RolesKept /\ OkIsEqual
  BY DEF Init, RolesKept, OkIsEqual
<1> QED BY <1>6, <1>7, <1>8, <1>9 DEF SoundInv

LEMMA ProducerAlone ==
  ASSUME SoundInv, FlowType',
         UNCHANGED <<jobVars, fileVars, stop, open, consumerVars>>, op = "check"
  PROVE  SoundInv'
<1>1. JobType' /\ OkIsEqual'
  BY DEF SoundInv, JobType, OkIsEqual, jobVars, fileVars, consumerVars, Numbered
<1>2. ConsumerType'
  BY DEF SoundInv, ConsumerType, fileVars, consumerVars
<1>3. RolesKept'
  BY DEF SoundInv, RolesKept, jobVars, fileVars, consumerVars
<1> QED BY <1>1, <1>2, <1>3 DEF SoundInv

LEMMA TheProducerChecks ==
  ASSUME SoundInv, producer # "ended" \/ forwarder # "ended" PROVE op = "check"
BY FileAssumption DEF SoundInv, JobType, RolesKept

LEMMA ProduceSound == SoundInv /\ Produce => SoundInv'
<1> SUFFICES ASSUME SoundInv, Produce PROVE SoundInv'
  OBVIOUS
<1> DEFINE B == ToSet(file)
<1>1. UNCHANGED <<jobVars, fileVars, stop, open, consumerVars>> /\ producer # "ended"
  BY DEF Produce, Open, ReadBlock, ReadFails, CloseFile, Send, SendSync, forwardVars
<1>2. op = "check"
  BY <1>1, TheProducerChecks
<1>3. /\ file \in Seq(Nat) /\ Len(file) \in Nat /\ UNCHANGED file /\ UNCHANGED profile
      /\ event \in Events(B) /\ todo \in Seq(Pieces(Len(file)))
      /\ channel \in Seq(Events(B)) /\ sync \in Seq(Events(B))
  BY <1>1, LenProperties DEF SoundInv, JobType, FlowType, fileVars, jobVars
<1>4. ASSUME NEW e \in Events(B), Sends(e), todo' \in Seq(Pieces(Len(file))),
             UNCHANGED <<forwardVars, channel>>
      PROVE  FlowType'
  BY <1>3, <1>4 DEF SoundInv, FlowType, Sends, forwardVars
<1>5. CASE Open
  <2>1. \A plan \in ReadPlans(Len(file)) : plan \in Seq(Pieces(Len(file)))
    BY <1>3, PlansArePieces
  <2>2. Event("open", <<>>) \in Events(B) /\ Event("error", <<>>) \in Events(B)
    BY EventTypes DEF Kinds
  <2> HIDE DEF B
  <2> QED BY <1>3, <1>4, <1>5, <2>1, <2>2, <1>1, <1>2, ProducerAlone DEF Open
<1>6. CASE ReadBlock
  <2> DEFINE range == Head(todo)
  <2>1. range \in Pieces(Len(file)) /\ Tail(todo) \in Seq(Pieces(Len(file)))
    BY <1>3, <1>6, HeadTailProperties DEF ReadBlock
  <2>2. PICK n \in ReadSizes(range) :
           /\ Sends(Event("chunk", SubSeq(file, range[1] + 1, range[1] + n)))
           /\ todo' = Rest(range, n) \o Tail(todo)
    BY <1>6 DEF ReadBlock
  <2> HIDE DEF range
  <2>3. range[1] \in Nat /\ range[2] \in Nat /\ range[1] + range[2] <= Len(file)
    BY <2>1 DEF Pieces
  <2>4. n \in Nat /\ n <= range[2]
    BY <2>3, FileAssumption DEF ReadSizes, Least
  <2>5. Event("chunk", SubSeq(file, range[1] + 1, range[1] + n)) \in Events(B)
    <3>1. range[1] + n <= Len(file)
      BY <1>3, <2>3, <2>4
    <3>2. SubSeq(file, range[1] + 1, range[1] + n) \in Seq(B)
      BY <1>3, <2>3, <2>4, <3>1, ReadPiece
    <3> HIDE DEF B
    <3> QED BY <3>2, EventTypes
  <2>6. Rest(range, n) \in Seq(Pieces(Len(file)))
    <3>1. n < range[2] => <<range[1] + n, range[2] - n>> \in Pieces(Len(file))
      BY <2>3, <2>4 DEF Pieces
    <3> QED BY <3>1, EmptySeq DEF Rest
  <2>7. todo' \in Seq(Pieces(Len(file)))
    BY <2>1, <2>2, <2>6, ConcatProperties
  <2>8. UNCHANGED <<forwardVars, channel>>
    BY <1>6 DEF ReadBlock
  <2> HIDE DEF B
  <2>9. FlowType'
    BY <1>4, <2>2, <2>5, <2>7, <2>8
  <2> QED BY <2>9, <1>1, <1>2, ProducerAlone
<1>7. CASE ReadFails \/ CloseFile
  <2>1. Event("close", <<>>) \in Events(B) /\ Event("error", <<>>) \in Events(B)
    BY EventTypes DEF Kinds
  <2> HIDE DEF B
  <2> QED BY <1>3, <1>4, <1>7, <2>1, <1>1, <1>2, ProducerAlone DEF ReadFails, CloseFile
<1>8. CASE Send
  <2>1. UNCHANGED <<todo, forwardVars>> /\ event' = NoEvent /\ producer' \in {"ended", "reading"}
    BY <1>8 DEF Send, AfterSend
  <2>2. channel' \in Seq(Events(B)) /\ Len(channel') <= ChannelCap
    <3>1. CASE UNCHANGED channel
      BY <1>3, <3>1 DEF SoundInv, FlowType
    <3>2. CASE Len(channel) < ChannelCap /\ channel' = Append(channel, event)
      <4> HIDE DEF B
      <4>1. channel' \in Seq(Events(B)) /\ Len(channel') = Len(channel) + 1 /\ Len(channel) \in Nat
        BY <1>3, <3>2, AppendProperties, LenProperties
      <4> QED BY <3>2, <4>1, FileAssumption
    <3> QED BY <1>8, <3>1, <3>2 DEF Send
  <2>3. FlowType'
    BY <1>3, <2>1, <2>2, EventTypes DEF SoundInv, FlowType, forwardVars
  <2> QED BY <2>3, <1>1, <1>2, ProducerAlone
<1>9. CASE SendSync
  <2>1. /\ UNCHANGED <<todo, forwarder, passing, channel>> /\ event' = NoEvent
        /\ producer' \in {"ended", "reading"} /\ profile.direct
    BY <1>9 DEF SendSync, AfterSend
  <2>2. sync' \in Seq(Events(B)) /\ Len(sync') <= SyncCap
    <3>1. CASE UNCHANGED sync
      BY <1>3, <3>1 DEF SoundInv, FlowType
    <3>2. CASE Len(sync) < SyncCap /\ sync' = Append(sync, event)
      <4> HIDE DEF B
      <4>1. sync' \in Seq(Events(B)) /\ Len(sync') = Len(sync) + 1 /\ Len(sync) \in Nat
        BY <1>3, <3>2, AppendProperties, LenProperties
      <4> QED BY <3>2, <4>1, FileAssumption
    <3> QED BY <1>9, <3>1, <3>2 DEF SendSync
  <2>3. FlowType'
    BY <1>3, <2>1, <2>2, EventTypes DEF SoundInv, FlowType
  <2> QED BY <2>3, <1>1, <1>2, ProducerAlone
<1> QED BY <1>5, <1>6, <1>7, <1>8, <1>9 DEF Produce

LEMMA ForwardSound == SoundInv /\ Forward => SoundInv'
<1> SUFFICES ASSUME SoundInv, Forward PROVE SoundInv'
  OBVIOUS
<1> DEFINE B == ToSet(file)
<1>1. UNCHANGED <<jobVars, fileVars, stop, producerVars, open, consumerVars>> /\ forwarder # "ended"
  BY DEF Forward, ForwardRecv, ForwardSend, ForwardJoin
<1>2. op = "check"
  BY <1>1, TheProducerChecks
<1>3. /\ UNCHANGED <<file, profile, producer, todo, event>> /\ passing \in Events(B)
      /\ channel \in Seq(Events(B)) /\ sync \in Seq(Events(B))
      /\ Len(sync) \in Nat /\ Len(channel) \in Nat /\ Len(sync) <= SyncCap
  BY <1>1, LenProperties DEF SoundInv, FlowType, fileVars, jobVars, producerVars
<1> SUFFICES FlowType'
  BY <1>1, <1>2, ProducerAlone
<1>4. CASE ForwardRecv
  <2>1. CASE sync # <<>> /\ forwarder' = "sending" /\ passing' = Head(sync) /\ sync' = Tail(sync)
    <3> HIDE DEF B
    <3>1. passing' \in Events(B) /\ sync' \in Seq(Events(B)) /\ Len(sync') = Len(sync) - 1
      BY <1>3, <2>1, HeadTailProperties
    <3>2. profile.direct
      BY <2>1 DEF SoundInv, FlowType
    <3>3. Len(sync') <= SyncCap /\ UNCHANGED channel
      BY <1>3, <1>4, <3>1, FileAssumption DEF ForwardRecv
    <3> QED BY <1>3, <2>1, <3>1, <3>2, <3>3 DEF SoundInv, FlowType, B
  <2>2. CASE forwarder' = "joining" /\ UNCHANGED <<sync, passing>>
    BY <1>3, <1>4, <2>2 DEF SoundInv, FlowType, ForwardRecv
  <2> QED BY <1>4, <2>1, <2>2 DEF ForwardRecv
<1>5. CASE ForwardSend
  <2>1. passing' = NoEvent /\ UNCHANGED sync /\ forwarder' \in {"recv", "joining"}
    BY <1>5 DEF ForwardSend
  <2>2. channel' \in Seq(Events(B)) /\ Len(channel') <= ChannelCap
    <3>1. CASE UNCHANGED channel
      BY <1>3, <3>1 DEF SoundInv, FlowType
    <3>2. CASE Len(channel) < ChannelCap /\ channel' = Append(channel, passing)
      <4> HIDE DEF B
      <4>1. channel' \in Seq(Events(B)) /\ Len(channel') = Len(channel) + 1
        BY <1>3, <3>2, AppendProperties
      <4> QED BY <1>3, <3>2, <4>1, FileAssumption
    <3> QED BY <1>5, <3>1, <3>2 DEF ForwardSend
  <2> QED BY <1>3, <2>1, <2>2, EventTypes DEF SoundInv, FlowType
<1>6. CASE ForwardJoin
  <2>1. sync' = <<>> /\ forwarder' = "ended" /\ UNCHANGED <<passing, channel>>
    BY <1>6 DEF ForwardJoin
  <2> QED BY <1>3, <2>1, EmptySeq, FileAssumption DEF SoundInv, FlowType
<1> QED BY <1>4, <1>5, <1>6 DEF Forward

LEMMA RecvSound == SoundInv /\ Recv => SoundInv'
<1> SUFFICES ASSUME SoundInv, Recv PROVE SoundInv'
  OBVIOUS
<1> DEFINE B == ToSet(file)
<1>1. /\ UNCHANGED <<jobVars, fileVars, stop, producerVars, forwardVars, verdict>>
      /\ consumer = "recv" /\ consumer' \in {"recv", "awaiting"}
  BY DEF Recv, StopsReceiving
<1>2. op = "check"
  BY <1>1, FileAssumption DEF SoundInv, JobType, RolesKept
<1>3. /\ UNCHANGED <<file, original, damaged, profile, op>> /\ channel \in Seq(Events(B)) /\ Len(channel) \in Nat
      /\ Len(channel) <= ChannelCap /\ digest \in Seq(B)
  BY <1>1, LenProperties DEF SoundInv, FlowType, ConsumerType, fileVars, jobVars
<1>4. channel' \in Seq(Events(B)) /\ Len(channel') <= ChannelCap
  <2> HIDE DEF B
  <2>1. CASE channel' = <<>>
    BY <2>1, EmptySeq, FileAssumption
  <2>2. CASE channel # <<>> /\ channel' = Tail(channel)
    BY <1>3, <2>2, HeadTailProperties, FileAssumption
  <2> QED BY <2>1, <2>2 DEF Recv, StopsReceiving
<1>5. digest' \in Seq(B)
  <2> HIDE DEF B
  <2>1. CASE UNCHANGED digest
    BY <1>3, <2>1
  <2>2. CASE channel # <<>> /\ digest' = digest \o Head(channel).bytes
    <3>1. Head(channel) \in Events(B)
      BY <1>3, <2>2, HeadTailProperties
    <3>2. Head(channel).bytes \in Seq(B)
      BY <3>1 DEF Events
    <3> QED BY <1>3, <2>2, <3>2, ConcatProperties
  <2> QED BY <2>1, <2>2 DEF Recv
<1>6. FlowType'
  BY <1>1, <1>3, <1>4 DEF SoundInv, FlowType, producerVars, forwardVars
<1>7. failed' \in BOOLEAN /\ open' \in BOOLEAN
  BY DEF Recv, StopsReceiving, SoundInv, ConsumerType
<1>8. ConsumerType'
  BY <1>1, <1>3, <1>5, <1>7 DEF SoundInv, ConsumerType
<1>9. JobType' /\ RolesKept' /\ OkIsEqual'
  BY <1>1, <1>2, <1>3 DEF SoundInv, JobType, RolesKept, OkIsEqual, Numbered
<1> QED BY <1>6, <1>8, <1>9 DEF SoundInv

(* Steps that read nothing and change the consumer's state alone.          *)
LEMMA ConsumerAlone ==
  ASSUME SoundInv, UNCHANGED <<jobVars, fileVars, stop, producerVars, forwardVars, channel, open, failed>>,
         ConsumerType', RolesKept', OkIsEqual'
  PROVE  SoundInv'
<1>1. JobType'
  BY DEF SoundInv, JobType, jobVars, fileVars, Numbered
<1>2. FlowType'
  BY DEF SoundInv, FlowType, jobVars, fileVars, producerVars, forwardVars
<1> QED BY <1>1, <1>2 DEF SoundInv

LEMMA ReadReturnsSound == SoundInv /\ ReadReturns => SoundInv'
<1> SUFFICES ASSUME SoundInv, ReadReturns PROVE SoundInv'
  OBVIOUS
<1>1. /\ UNCHANGED <<jobVars, fileVars, stop, producerVars, forwardVars, channel, open, digest, failed>>
      /\ consumer = "awaiting"
  BY DEF ReadReturns
<1>2. \/ consumer' = "done" /\ verdict' \in {"error", "skipped"}
      \/ consumer' = "comparing" /\ UNCHANGED verdict
  BY DEF ReadReturns, Finish
<1>3. op = "check"
  BY <1>1, FileAssumption DEF SoundInv, JobType, RolesKept
<1>4. ConsumerType'
  BY <1>1, <1>2 DEF SoundInv, ConsumerType, fileVars
<1>5. RolesKept' /\ OkIsEqual'
  BY <1>1, <1>2, <1>3 DEF SoundInv, ConsumerType, RolesKept, OkIsEqual, jobVars, fileVars
<1> QED BY <1>1, <1>4, <1>5, ConsumerAlone

LEMMA CompareSound == SoundInv /\ Compare => SoundInv'
<1> SUFFICES ASSUME SoundInv, Compare PROVE SoundInv'
  OBVIOUS
<1>1. /\ UNCHANGED <<jobVars, fileVars, stop, producerVars, forwardVars, channel, open, digest, failed>>
      /\ op = "check" /\ consumer = "comparing" /\ consumer' = "done"
      /\ verdict' \in {"error", "ok", "mismatch"} /\ (verdict' = "ok" => digest = original)
  BY DEF Compare, Finish
<1>2. ConsumerType'
  BY <1>1 DEF SoundInv, ConsumerType, fileVars
<1>3. digest = original => file = original
  <2> SUFFICES ASSUME digest = original, file # original PROVE FALSE
    OBVIOUS
  <2>1. original \in Seq(Nat) /\ Numbered(original) /\ file \in Stored(original)
    BY <1>1 DEF SoundInv, JobType, RolesKept
  <2>2. PICK i \in 1..Len(original) : i \notin ToSet(file)
    BY <2>1, DamageLoses
  <2>3. original[i] = i
    BY <2>1 DEF Numbered
  <2>4. digest[i] \in ToSet(file)
    BY ElementOfSeq DEF SoundInv, ConsumerType
  <2> QED BY <2>2, <2>3, <2>4
<1>4. RolesKept' /\ OkIsEqual'
  BY <1>1, <1>3 DEF SoundInv, RolesKept, OkIsEqual, jobVars, fileVars
<1> QED BY <1>1, <1>2, <1>4, ConsumerAlone

LEMMA VerifySound == SoundInv /\ Verify => SoundInv'
<1> SUFFICES ASSUME SoundInv, Verify PROVE SoundInv'
  OBVIOUS
<1>1. /\ UNCHANGED <<jobVars, fileVars, stop, producerVars, forwardVars, channel, open, failed>>
      /\ op = "verify" /\ consumer' = "done"
      /\ verdict' \in {"error", "ok", "mismatch"} /\ (verdict' = "ok" => file = original)
      /\ digest' = digest \/ digest' = file
  BY DEF Verify, Finish
<1>2. file \in Seq(ToSet(file))
  <2>1. file \in Seq(Nat)
    BY DEF SoundInv, JobType
  <2>2. Len(file) \in Nat /\ DOMAIN file = 1..Len(file) /\ file \in [1..Len(file) -> Nat]
    BY <2>1, LenProperties
  <2>3. file \in [1..Len(file) -> ToSet(file)]
    BY <2>2 DEF ToSet
  <2> QED BY <2>2, <2>3
<1>3. ConsumerType'
  BY <1>1, <1>2 DEF SoundInv, ConsumerType, fileVars
<1>4. RolesKept' /\ OkIsEqual'
  BY <1>1 DEF SoundInv, RolesKept, OkIsEqual, jobVars, fileVars, producerVars, forwardVars
<1> QED BY <1>1, <1>3, <1>4, ConsumerAlone

(* A block that is not written is there all the same.                      *)
LEMMA WrittenType ==
  ASSUME SoundInv, NEW ranges
  PROVE  Written(ranges) \in Seq(Nat) /\ Len(Written(ranges)) = Len(original)
<1>1. Len(original) \in Nat /\ \A i \in 1..Len(original) : original[i] \in Nat
  BY LenProperties, ElementOfSeq DEF SoundInv, JobType
<1>2. Written(ranges) \in [1..Len(original) -> Nat]
  BY <1>1 DEF Written
<1> QED BY <1>1, <1>2 DEF Written

LEMMA WriteFileSound == SoundInv /\ WriteFile => SoundInv'
<1> SUFFICES ASSUME SoundInv, WriteFile PROVE SoundInv'
  OBVIOUS
<1>1. /\ UNCHANGED <<jobVars, stop, producerVars, forwardVars, channel, open, digest, failed>>
      /\ consumer = "writing"
  BY DEF WriteFile
<1>2. op = "verify" /\ verdict = "none"
  BY <1>1, FileAssumption DEF SoundInv, JobType, RolesKept, ConsumerType
<1>3. /\ producer = "ended" /\ forwarder = "ended" /\ todo = <<>> /\ sync = <<>> /\ channel = <<>>
      /\ event = NoEvent /\ passing = NoEvent /\ digest = <<>>
  BY <1>1, <1>2 DEF SoundInv, RolesKept
<1>4. file' \in Seq(Nat) /\ Len(file') <= Len(original) /\ damaged' \in BOOLEAN
  <2>1. CASE UNCHANGED fileVars
    BY <2>1 DEF SoundInv, JobType, fileVars
  <2>2. CASE \E ranges \in WritePlans(Len(original)) :
               file' \in Stored(Written(ranges)) /\ damaged' = (file' # Written(ranges))
    BY <2>2, WrittenType, StoredType
  <2> QED BY <2>1, <2>2 DEF WriteFile
<1>5. \/ consumer' = "comparing" /\ verdict' = verdict
      \/ consumer' = "done" /\ verdict' = "error"
  BY DEF WriteFile, Finish
<1>6. JobType'
  BY <1>1, <1>4 DEF SoundInv, JobType, jobVars, Numbered
<1>7. FlowType'
  <2>1. /\ producer' = "ended" /\ forwarder' = "ended" /\ todo' = <<>> /\ sync' = <<>> /\ channel' = <<>>
        /\ event' = NoEvent /\ passing' = NoEvent
    BY <1>1, <1>3 DEF producerVars, forwardVars
  <2> QED BY <2>1, EventTypes, EmptySeq, FileAssumption DEF FlowType
<1>8. ConsumerType'
  <2>1. digest' = <<>>
    BY <1>1, <1>3
  <2> QED BY <2>1, <1>1, <1>2, <1>5, EmptySeq DEF SoundInv, ConsumerType
<1>9. RolesKept' /\ OkIsEqual'
  BY <1>1, <1>2, <1>3, <1>5 DEF RolesKept, OkIsEqual, jobVars, producerVars, forwardVars
<1> QED BY <1>6, <1>7, <1>8, <1>9 DEF SoundInv

LEMMA NextSound == SoundInv /\ [Next]_vars => SoundInv'
<1> SUFFICES ASSUME SoundInv, [Next]_vars PROVE SoundInv'
  OBVIOUS
<1>1. CASE Stop \/ UNCHANGED vars
  <2>1. /\ UNCHANGED <<jobVars, fileVars, producerVars, forwardVars, channel, open, consumerVars>>
        /\ stop' \in BOOLEAN
    BY <1>1 DEF Stop, vars, SoundInv, JobType
  <2>2. JobType' /\ ConsumerType'
    BY <2>1 DEF SoundInv, JobType, ConsumerType, jobVars, fileVars, consumerVars, Numbered
  <2>3. FlowType'
    BY <2>1 DEF SoundInv, FlowType, jobVars, fileVars, producerVars, forwardVars
  <2>4. RolesKept' /\ OkIsEqual'
    BY <2>1 DEF SoundInv, RolesKept, OkIsEqual, jobVars, fileVars, producerVars, forwardVars, consumerVars
  <2> QED BY <2>2, <2>3, <2>4 DEF SoundInv
<1> QED BY <1>1, ProduceSound, ForwardSound, RecvSound, ReadReturnsSound, CompareSound, VerifySound,
           WriteFileSound DEF Next, Consume

LEMMA SoundIsSound == SoundInv => FileSound
<1> SUFFICES ASSUME SoundInv PROVE TypeOK
  BY DEF SoundInv, OkIsEqual, FileSound, MatchIsTrue
<1> DEFINE B == ToSet(file)
<1>1. B \subseteq Nat
  BY FiniteRange DEF SoundInv, JobType
<1>2. \A e \in Events(B) : IsEvent(e)
  <2>1. \A s \in Seq(B) : s \in Seq(Nat)
    BY <1>1, SeqMonotonic
  <2> QED BY <2>1 DEF Events, IsEvent, Kinds
<1>3. IsEvent(event) /\ IsEvent(passing)
  BY <1>2 DEF SoundInv, FlowType
<1>4. \A s \in Seq(Events(B)) : \A i \in DOMAIN s : IsEvent(s[i])
  BY <1>2, ElementOfSeq, LenProperties
<1>5. (\A i \in DOMAIN sync : IsEvent(sync[i])) /\ (\A i \in DOMAIN channel : IsEvent(channel[i]))
  BY <1>4 DEF SoundInv, FlowType
<1>6. todo \in Seq(Nat \X Nat) /\ digest \in Seq(Nat)
  <2>1. Pieces(Len(file)) \subseteq Nat \X Nat
    BY DEF Pieces
  <2> HIDE DEF B
  <2> QED BY <2>1, <1>1, SeqMonotonic DEF SoundInv, FlowType, ConsumerType, B
<1> QED BY <1>3, <1>5, <1>6 DEF TypeOK, SoundInv, JobType, FlowType, ConsumerType

(* No check passes a file that is not what it should be, however the       *)
(* blocks were cut, ordered and passed on and whenever the read was        *)
(* stopped: read_file_recording_blocks, and stream_sha256 after a write.   *)
THEOREM ChecksAreSound == Spec => []FileSound
<1> QED BY InitSound, NextSound, SoundIsSound, PTL DEF Spec

-----------------------------------------------------------------------------
(* A read that is whole and in order.                                      *)

LEMMA Regroup ==
  ASSUME NEW T, NEW a \in Seq(T), NEW p \in Seq(T), NEW s \in Seq(T), NEW e \in T
  PROVE  /\ Append(((a \o p) \o s) \o <<>>, e) = ((a \o p) \o s) \o <<e>>
         /\ ((a \o p) \o Append(s, e)) \o <<>> = ((a \o p) \o s) \o <<e>>
<1>1. <<e>> \in Seq(T) /\ <<>> \in Seq(T)
  BY EmptySeq
<1>2. a \o p \in Seq(T) /\ (a \o p) \o s \in Seq(T) /\ Append(s, e) \in Seq(T) /\ Append(a, e) \in Seq(T)
  BY ConcatProperties, AppendProperties
<1>3. ((a \o p) \o s) \o <<>> = (a \o p) \o s
  BY <1>2, ConcatEmptySeq
<1>4. Append((a \o p) \o s, e) = ((a \o p) \o s) \o <<e>>
  BY <1>2, AppendIsConcat
<1>5. (a \o p) \o Append(s, e) = ((a \o p) \o s) \o <<e>>
  <2>1. Append(s, e) = s \o <<e>>
    BY AppendIsConcat
  <2>2. ((a \o p) \o s) \o <<e>> = (a \o p) \o (s \o <<e>>)
    BY <1>1, <1>2, ConcatAssociative
  <2> QED BY <2>1, <2>2
<1>6. ((a \o p) \o Append(s, e)) \o <<>> = (a \o p) \o Append(s, e)
  <2>1. (a \o p) \o Append(s, e) \in Seq(T)
    BY <1>2, ConcatProperties
  <2> QED BY <2>1, ConcatEmptySeq
<1> QED BY <1>3, <1>4, <1>5, <1>6

LEMMA FirstAndRest ==
  ASSUME NEW T, NEW a \in Seq(T), NEW s \in Seq(T), s # <<>>
  PROVE  /\ (a \o <<Head(s)>>) \o Tail(s) = (a \o <<>>) \o s
         /\ Head(s \o a) = Head(s) /\ Tail(s \o a) = Tail(s) \o a
<1>1. Head(s) \in T /\ Tail(s) \in Seq(T) /\ <<Head(s)>> \in Seq(T) /\ Len(s) \in Nat \ {0} /\ Head(s) = s[1]
  BY HeadTailProperties, EmptySeq
<1>2. <<Head(s)>> \o Tail(s) = s
  <2>1. SubSeq(s, 1, Len(s)) = <<s[1]>> \o SubSeq(s, 2, Len(s))
    BY <1>1, SubSeqRecursiveFirst
  <2>2. Tail(s) = SubSeq(s, 2, Len(s)) /\ SubSeq(s, 1, Len(s)) = s
    BY TailIsSubSeq, SubSeqFull
  <2> QED BY <1>1, <2>1, <2>2
<1>3. (a \o <<Head(s)>>) \o Tail(s) = a \o (<<Head(s)>> \o Tail(s)) /\ a \o <<>> = a
  BY <1>1, ConcatAssociative, ConcatEmptySeq
<1>4. s \o a \in Seq(T) /\ Len(s \o a) = Len(s) + Len(a)
      /\ \A i \in 1..Len(s) + Len(a) : (s \o a)[i] = IF i <= Len(s) THEN s[i] ELSE a[i - Len(s)]
  BY ConcatProperties
<1>5. Len(a) \in Nat /\ s \o a # <<>>
  BY <1>1, <1>4, LenProperties, EmptySeq
<1>6. Head(s \o a) = Head(s)
  BY <1>1, <1>4, <1>5
<1>7. Tail(s \o a) = Tail(s) \o a
  <2>1. /\ Tail(s \o a) \in Seq(T) /\ Len(Tail(s \o a)) = Len(s) + Len(a) - 1
        /\ \A i \in 1..Len(s) + Len(a) - 1 : Tail(s \o a)[i] = (s \o a)[i + 1]
    BY <1>1, <1>4, <1>5, HeadTailProperties
  <2>2. Len(Tail(s)) = Len(s) - 1 /\ \A i \in 1..Len(s) - 1 : Tail(s)[i] = s[i + 1]
    BY HeadTailProperties
  <2>3. /\ Tail(s) \o a \in Seq(T) /\ Len(Tail(s) \o a) = Len(s) - 1 + Len(a)
        /\ \A i \in 1..Len(s) - 1 + Len(a) : (Tail(s) \o a)[i] = IF i <= Len(s) - 1 THEN Tail(s)[i]
                                                                 ELSE a[i - (Len(s) - 1)]
    BY <1>1, <2>2, ConcatProperties
  <2>4. ASSUME NEW i \in 1..Len(s) + Len(a) - 1 PROVE Tail(s \o a)[i] = (Tail(s) \o a)[i]
    BY <1>1, <1>4, <1>5, <2>1, <2>2, <2>3
  <2> QED BY <1>1, <1>5, <2>1, <2>3, <2>4, SeqEqual
<1> QED BY <1>2, <1>3, <1>6, <1>7

(* flow are the next pieces of the file, after the bytes that were hashed: *)
(* pos[i] is where the i-th of them ends.                                  *)
Cut(flow, bytes, pos) ==
  /\ pos \in [0..Len(flow) -> 0..Len(file)]
  /\ bytes = SubSeq(file, 1, pos[0])
  /\ \A i \in 1..Len(flow) : pos[i - 1] <= pos[i] /\ flow[i].bytes = SubSeq(file, pos[i - 1] + 1, pos[i])

LEMMA CutAppend ==
  ASSUME file \in Seq(Nat), NEW T, NEW flow \in Seq(T), NEW e \in T, NEW bytes, NEW pos, Cut(flow, bytes, pos),
         NEW q \in Nat, pos[Len(flow)] <= q, q <= Len(file),
         e.bytes = SubSeq(file, pos[Len(flow)] + 1, q)
  PROVE  \E p : Cut(Append(flow, e), bytes, p) /\ p[Len(Append(flow, e))] = q
<1> DEFINE n == Len(flow)
           f == Append(flow, e)
           p == [i \in 0..n + 1 |-> IF i = n + 1 THEN q ELSE pos[i]]
<1>1. n \in Nat /\ Len(file) \in Nat
  BY LenProperties
<1>2. Len(f) = n + 1 /\ (\A i \in 1..n : f[i] = flow[i]) /\ f[n + 1] = e
  BY AppendProperties
<1>3. pos \in [0..n -> 0..Len(file)] /\ bytes = SubSeq(file, 1, pos[0])
      /\ \A i \in 1..n : pos[i - 1] <= pos[i] /\ flow[i].bytes = SubSeq(file, pos[i - 1] + 1, pos[i])
  BY DEF Cut
<1> HIDE DEF f, n
<1>4. p \in [0..n + 1 -> 0..Len(file)]
  BY <1>1, <1>3
<1>5. p[0] = pos[0] /\ p[n + 1] = q /\ p[n] = pos[n]
  BY <1>1
<1>6. ASSUME NEW i \in 1..n + 1
      PROVE  p[i - 1] <= p[i] /\ f[i].bytes = SubSeq(file, p[i - 1] + 1, p[i])
  <2>1. CASE i = n + 1
    <3>1. p[i - 1] = pos[n] /\ p[i] = q
      BY <1>1, <2>1
    <3> QED BY <1>2, <2>1, <3>1 DEF n
  <2>2. CASE i # n + 1
    <3>1. i \in 1..n
      BY <1>1, <2>2
    <3>2. p[i - 1] = pos[i - 1] /\ p[i] = pos[i]
      BY <1>1, <3>1
    <3> QED BY <1>2, <1>3, <3>1, <3>2
  <2> QED BY <2>1, <2>2
<1>7. Cut(f, bytes, p)
  <2> HIDE DEF p
  <2> QED BY <1>2, <1>3, <1>4, <1>5, <1>6 DEF Cut
<1> QED BY <1>2, <1>5, <1>7 DEF f

LEMMA CutTail ==
  ASSUME file \in Seq(Nat), NEW T, NEW flow \in Seq(T), flow # <<>>, NEW bytes, NEW pos, Cut(flow, bytes, pos)
  PROVE  \E p : /\ Cut(Tail(flow), bytes \o Head(flow).bytes, p)
                /\ p[Len(Tail(flow))] = pos[Len(flow)]
<1> DEFINE n == Len(flow)
           f == Tail(flow)
           p == [i \in 0..n - 1 |-> pos[i + 1]]
<1>1. n \in Nat \ {0} /\ Len(file) \in Nat
  BY LenProperties, EmptySeq
<1>2. Len(f) = n - 1 /\ (\A i \in 1..n - 1 : f[i] = flow[i + 1]) /\ Head(flow) = flow[1]
  BY HeadTailProperties
<1>3. pos \in [0..n -> 0..Len(file)] /\ bytes = SubSeq(file, 1, pos[0])
      /\ \A i \in 1..n : pos[i - 1] <= pos[i] /\ flow[i].bytes = SubSeq(file, pos[i - 1] + 1, pos[i])
  BY DEF Cut
<1> HIDE DEF f, n
<1>4. p \in [0..n - 1 -> 0..Len(file)]
  BY <1>1, <1>3
<1>5. p[0] = pos[1] /\ p[n - 1] = pos[n]
  BY <1>1
<1>6. bytes \o Head(flow).bytes = SubSeq(file, 1, p[0])
  <2>1. pos[0] \in 0..Len(file) /\ pos[1] \in 0..Len(file) /\ pos[0] <= pos[1]
        /\ flow[1].bytes = SubSeq(file, pos[0] + 1, pos[1])
    <3>1. 1 \in 1..n /\ 1 - 1 = 0 /\ 0 \in 0..n /\ 1 \in 0..n
      BY <1>1
    <3>2. pos[1 - 1] <= pos[1] /\ flow[1].bytes = SubSeq(file, pos[1 - 1] + 1, pos[1])
      BY ONLY <3>1, <1>3
    <3> QED BY <3>1, <3>2, <1>3
  <2>2. 1 \in 1..Len(file) + 1 /\ pos[0] \in (1 - 1)..Len(file) /\ pos[1] \in pos[0]..Len(file)
    BY <1>1, <2>1
  <2>3. SubSeq(file, 1, pos[0]) \o SubSeq(file, pos[0] + 1, pos[1]) = SubSeq(file, 1, pos[1])
    BY <2>2, ConcatAdjacentSubSeq
  <2> QED BY <1>2, <1>3, <1>5, <2>1, <2>3
<1>7. ASSUME NEW i \in 1..n - 1
      PROVE  p[i - 1] <= p[i] /\ f[i].bytes = SubSeq(file, p[i - 1] + 1, p[i])
  <2>1. i + 1 \in 1..n /\ p[i - 1] = pos[i] /\ p[i] = pos[i + 1] /\ (i + 1) - 1 = i
    BY <1>1
  <2>2. pos[(i + 1) - 1] <= pos[i + 1] /\ flow[i + 1].bytes = SubSeq(file, pos[(i + 1) - 1] + 1, pos[i + 1])
    BY <1>3, <2>1
  <2> HIDE DEF p
  <2> QED BY <1>2, <2>1, <2>2
<1>8. Cut(f, bytes \o Head(flow).bytes, p)
  <2> HIDE DEF p
  <2> QED BY <1>2, <1>4, <1>6, <1>7 DEF Cut
<1> QED BY <1>2, <1>5, <1>8 DEF f, n

(* The file or the part that is left to be read.                           *)
Left(p) == IF p = Len(file) THEN <<>> ELSE <<<<p, Len(file) - p>>>>

(* After the pieces that are on the way comes what the producer will read, *)
(* unless an error is the last of them.                                    *)
Remains(flow, p) ==
  /\ producer = "open" => p = 0
  /\ producer \in {"reading", "sending"} => todo = Left(p)
  /\ producer = "ended" => p = Len(file)
  /\ flow # <<>> /\ flow[Len(flow)].kind = "close" => p = Len(file)

Breaks(flow) == flow # <<>> /\ flow[Len(flow)].kind = "error"

LastOnly(flow) ==
  \A i \in 1..Len(flow) : flow[i].kind \in {"error", "close"} =>
                            i = Len(flow) /\ producer \in {"sending", "ended"}

Pipe(flow, bytes) ==
  /\ LastOnly(flow)
  /\ \E pos : Cut(flow, bytes, pos) /\ (Breaks(flow) \/ Remains(flow, pos[Len(flow)]))

(* All events that are on their way to the consumer, the next one first.   *)
Passing == IF forwarder = "sending" THEN <<passing>> ELSE <<>>
Sending == IF producer = "sending" THEN <<event>> ELSE <<>>
Flow == ((channel \o Passing) \o sync) \o Sending

(* The forwarder outlives the thread that it waits for, and both outlive   *)
(* the consumer's interest.                                                *)
StagesOK ==
  /\ ~profile.direct => forwarder = "ended"
  /\ op = "check" =>
       /\ open = (consumer = "recv")
       /\ profile.direct /\ forwarder = "ended" => producer = "ended" /\ sync = <<>>
       /\ consumer = "recv" /\ forwarder = "joining" => sync = <<>> /\ producer = "ended"

InOrder == profile.direct \/ (profile.aligned /\ profile.mode = "seq")

(* Only a read that was neither stopped nor failed is compared, and that   *)
(* has hashed the file; a file that is written in order has no hole.       *)
WholeOK ==
  /\ op = "check" /\ InOrder =>
       /\ consumer = "recv" => ~failed /\ Pipe(Flow, digest)
       /\ consumer = "awaiting" /\ ~failed /\ ~stop => digest = file
       /\ consumer = "comparing" => digest = file
  /\ op = "verify" /\ WholeInOrder /\ consumer # "writing" /\ verdict # "error" =>
       damaged = (file # original)
  /\ WholeInOrder /\ verdict = "mismatch" => file # original

LEMMA FlowTypes ==
  ASSUME SoundInv
  PROVE  LET T == Events(ToSet(file))
         IN  /\ channel \in Seq(T) /\ Passing \in Seq(T) /\ sync \in Seq(T) /\ Sending \in Seq(T)
             /\ event \in T /\ passing \in T /\ Flow \in Seq(T) /\ Len(Flow) \in Nat
             /\ file \in Seq(Nat) /\ Len(file) \in Nat
<1> DEFINE T == Events(ToSet(file))
<1>1. /\ channel \in Seq(T) /\ sync \in Seq(T) /\ event \in T /\ passing \in T
      /\ file \in Seq(Nat) /\ Len(file) \in Nat
  BY LenProperties DEF SoundInv, JobType, FlowType
<1> HIDE DEF T
<1>2. Passing \in Seq(T) /\ Sending \in Seq(T)
  BY <1>1, EmptySeq DEF Passing, Sending
<1>3. Flow \in Seq(T)
  BY <1>1, <1>2, ConcatProperties DEF Flow
<1> QED BY <1>1, <1>2, <1>3, LenProperties DEF T

(* The last event on the way is the one that the producer sends.           *)
LEMMA LastIsSent ==
  ASSUME SoundInv, producer = "sending"
  PROVE  Flow # <<>> /\ Flow[Len(Flow)] = event
<1> DEFINE T == Events(ToSet(file))
           X == (channel \o Passing) \o sync
<1>1. channel \in Seq(T) /\ Passing \in Seq(T) /\ sync \in Seq(T) /\ event \in T
  BY FlowTypes
<1> HIDE DEF T
<1>2. X \in Seq(T) /\ <<event>> \in Seq(T) /\ Len(<<event>>) = 1
  BY <1>1, ConcatProperties
<1>3. Flow = X \o <<event>>
  BY DEF Flow, Sending
<1> HIDE DEF X
<1>4. Len(X) \in Nat
  BY <1>2, LenProperties
<1>5. Len(Flow) = Len(X) + 1 /\ Flow[Len(X) + 1] = <<event>>[Len(X) + 1 - Len(X)]
  BY <1>2, <1>3, <1>4, ConcatProperties
<1>6. Len(X) + 1 - Len(X) = 1 /\ Len(X) + 1 # 0 /\ Len(<<>>) = 0
  BY <1>4, EmptySeq
<1> QED BY <1>5, <1>6

(* An event moves on; its producer may go on with the next.                *)
LEMMA PipeMoves ==
  ASSUME SoundInv, Pipe(Flow, digest), Flow' = Flow, UNCHANGED <<file, digest, todo>>,
         \/ UNCHANGED producer
         \/ producer = "sending" /\ producer' = AfterSend
  PROVE  Pipe(Flow, digest)'
<1>1. PICK pos : Cut(Flow, digest, pos) /\ (Breaks(Flow) \/ Remains(Flow, pos[Len(Flow)]))
  BY DEF Pipe
<1>2. Cut(Flow, digest, pos)'
  BY <1>1 DEF Cut
<1>3. CASE UNCHANGED producer
  <2>1. LastOnly(Flow)'
    BY <1>3 DEF Pipe, LastOnly
  <2>2. (Breaks(Flow) \/ Remains(Flow, pos[Len(Flow)]))'
    BY <1>1, <1>3 DEF Breaks, Remains, Left
  <2> QED BY <1>2, <2>1, <2>2 DEF Pipe
<1>4. CASE producer = "sending" /\ producer' = AfterSend
  <2>1. Flow # <<>> /\ Flow[Len(Flow)] = event
    BY <1>4, LastIsSent
  <2>2. event.kind \in {"error", "close"} => producer' = "ended"
    BY <1>4 DEF AfterSend
  <2>3. LastOnly(Flow)'
    BY <1>4, <2>1, <2>2 DEF Pipe, LastOnly
  <2>4. ~Breaks(Flow) => Remains(Flow, pos[Len(Flow)])'
    <3> SUFFICES ASSUME ~Breaks(Flow) PROVE Remains(Flow, pos[Len(Flow)])'
      OBVIOUS
    <3>1. Remains(Flow, pos[Len(Flow)])
      BY <1>1
    <3>2. event.kind # "error"
      BY <2>1 DEF Breaks
    <3>3. producer' = IF event.kind = "close" THEN "ended" ELSE "reading"
      BY <1>4, <3>2 DEF AfterSend
    <3> QED BY <1>4, <2>1, <3>1, <3>3 DEF Remains, Left
  <2>5. (Breaks(Flow) \/ Remains(Flow, pos[Len(Flow)]))'
    BY <1>1, <2>4 DEF Breaks
  <2> QED BY <1>2, <2>3, <2>5 DEF Pipe
<1> QED BY <1>3, <1>4

LEMMA FlowAppends ==
  ASSUME SoundInv, producer # "sending", NEW e \in Events(ToSet(file)), Sends(e),
         UNCHANGED <<forwardVars, channel>>
  PROVE  Flow' = Append(Flow, e)
<1> DEFINE T == Events(ToSet(file))
<1>1. channel \in Seq(T) /\ Passing \in Seq(T) /\ sync \in Seq(T)
  BY FlowTypes
<1>2. Flow = ((channel \o Passing) \o sync) \o <<>>
  BY DEF Flow, Sending
<1>3. Flow' = ((channel \o Passing) \o sync) \o <<e>>
  BY DEF Flow, Sending, Passing, Sends, forwardVars
<1> HIDE DEF T
<1>4. e \in T
  BY DEF T
<1>5. Append(((channel \o Passing) \o sync) \o <<>>, e) = ((channel \o Passing) \o sync) \o <<e>>
  BY <1>1, <1>4, Regroup, SMTT(30)
<1> QED BY <1>2, <1>3, <1>5

(* The producer adds the next piece.                                       *)
LEMMA PipeGrows ==
  ASSUME SoundInv, Pipe(Flow, digest), producer \in {"open", "reading"},
         NEW e \in Events(ToSet(file)), Sends(e), UNCHANGED <<file, digest, forwardVars, channel>>,
         \A p \in 0..Len(file) : Remains(Flow, p) =>
           \E q \in p..Len(file) :
             /\ e.bytes = SubSeq(file, p + 1, q)
             /\ e.kind = "error" \/ (todo' = Left(q) /\ (e.kind = "close" => q = Len(file)))
  PROVE  Pipe(Flow, digest)'
<1> DEFINE T == Events(ToSet(file))
           n == Len(Flow)
<1>1. Flow \in Seq(T) /\ n \in Nat /\ file \in Seq(Nat) /\ Len(file) \in Nat /\ e \in T
  BY FlowTypes
<1>2. Flow' = Append(Flow, e) /\ producer' = "sending"
  BY FlowAppends DEF Sends
<1> HIDE DEF T
<1>3. Len(Flow') = n + 1 /\ (\A i \in 1..n : Flow'[i] = Flow[i]) /\ Flow'[n + 1] = e /\ Flow' # <<>>
  BY <1>1, <1>2, AppendProperties
<1> HIDE DEF n
<1>4. \A i \in 1..n : Flow[i].kind \notin {"error", "close"}
  BY DEF Pipe, LastOnly, n
<1>5. ~Breaks(Flow)
  <2>1. Flow # <<>> => n \in 1..n
    BY <1>1, EmptySeq DEF n
  <2> QED BY <1>4, <2>1 DEF Breaks, n
<1>6. PICK pos : Cut(Flow, digest, pos) /\ Remains(Flow, pos[n])
  BY <1>5 DEF Pipe, n
<1>7. pos[n] \in 0..Len(file)
  <2>1. pos \in [0..n -> 0..Len(file)] /\ n \in 0..n
    BY <1>1, <1>6 DEF Cut, n
  <2> QED BY <2>1
<1>8. PICK q \in pos[n]..Len(file) :
        /\ e.bytes = SubSeq(file, pos[n] + 1, q)
        /\ e.kind = "error" \/ (todo' = Left(q) /\ (e.kind = "close" => q = Len(file)))
  BY <1>6, <1>7
<1>9. q \in Nat /\ pos[n] <= q /\ q <= Len(file)
  BY <1>1, <1>7
<1>10. PICK p : Cut(Append(Flow, e), digest, p) /\ p[Len(Append(Flow, e))] = q
  <2>1. e.bytes = SubSeq(file, pos[Len(Flow)] + 1, q) /\ pos[Len(Flow)] <= q
    BY <1>8, <1>9 DEF n
  <2> QED BY <1>1, <1>6, <1>9, <2>1, CutAppend
<1>11. Cut(Flow, digest, p)' /\ p[Len(Flow')] = q
  BY <1>2, <1>10 DEF Cut
<1>12. LastOnly(Flow)'
  <2>1. \A i \in 1..n + 1 : i \in 1..n \/ i = n + 1
    BY <1>1
  <2> QED BY <1>2, <1>3, <1>4, <2>1 DEF LastOnly
<1>13. (Breaks(Flow) \/ Remains(Flow, p[Len(Flow)]))'
  <2>1. CASE e.kind = "error"
    BY <1>3, <2>1 DEF Breaks
  <2>2. CASE todo' = Left(q) /\ (e.kind = "close" => q = Len(file))
    BY <1>2, <1>3, <1>11, <2>2 DEF Remains, Left
  <2> QED BY <1>8, <2>1, <2>2
<1> QED BY <1>11, <1>12, <1>13 DEF Pipe

-----------------------------------------------------------------------------
(* The steps of a read.                                                    *)

WholeInv == SoundInv /\ StagesOK /\ WholeOK

LEMMA InitWhole == Init => StagesOK /\ WholeOK
<1> SUFFICES ASSUME Init PROVE StagesOK /\ WholeOK
  OBVIOUS
<1>1. StagesOK
  BY DEF Init, StagesOK
<1>2. ASSUME op = "check" PROVE Pipe(Flow, digest)
  <2>1. /\ producer = "open" /\ channel = <<>> /\ sync = <<>> /\ digest = <<>> /\ forwarder # "sending"
        /\ todo = <<>>
    BY <1>2 DEF Init
  <2>2. <<>> \in Seq(Nat) /\ Len(<<>>) = 0 /\ <<>> \o <<>> = <<>>
    BY EmptySeq, ConcatEmptySeq
  <2>3. Flow = <<>>
    BY <2>1, <2>2 DEF Flow, Passing, Sending
  <2> DEFINE pos == [i \in 0..0 |-> 0]
  <2>4. SubSeq(file, 1, 0) = <<>>
    BY SubSeqEmpty
  <2>5. Len(file) \in Nat
    BY InitSound, LenProperties DEF SoundInv, JobType
  <2>6. Cut(<<>>, <<>>, pos) /\ pos[Len(<<>>)] = 0
    BY <2>2, <2>4, <2>5 DEF Cut
  <2>7. Remains(<<>>, 0)
    BY <2>1 DEF Remains
  <2>8. LastOnly(<<>>)
    BY <2>2 DEF LastOnly
  <2> HIDE DEF pos
  <2> QED BY <2>1, <2>3, <2>6, <2>7, <2>8 DEF Pipe
<1>3. WholeOK
  BY <1>2 DEF Init, WholeOK
<1> QED BY <1>1, <1>3

(* Steps that leave the consumer as it is.                                 *)
LEMMA WholeStays ==
  ASSUME WholeInv, UNCHANGED <<jobVars, fileVars, consumerVars, stop>>,
         op = "check" /\ InOrder /\ consumer = "recv" => Pipe(Flow, digest)'
  PROVE  WholeOK'
BY DEF WholeInv, WholeOK, InOrder, WholeInOrder, jobVars, fileVars, consumerVars

LEMMA Range1IsLeft == ReadPlans(Len(file)) = {Left(0)} \/ ~InOrder
BY DEF ReadPlans, InOrder, Range1, Left

LEMMA ReadWhole ==
  ASSUME WholeInv, op = "check", InOrder, consumer = "recv",
         Open \/ ReadBlock \/ ReadFails \/ CloseFile
  PROVE  Pipe(Flow, digest)'
<1> DEFINE B == ToSet(file)
<1>1. /\ Pipe(Flow, digest) /\ SoundInv /\ producer \in {"open", "reading"}
      /\ UNCHANGED <<file, digest, forwardVars, channel>>
  BY DEF WholeInv, WholeOK, Open, ReadBlock, ReadFails, CloseFile, fileVars, consumerVars
<1>2. file \in Seq(Nat) /\ Len(file) \in Nat /\ BlockSize \in Nat \ {0}
  BY <1>1, FlowTypes, FileAssumption
<1>3. /\ Event("open", <<>>) \in Events(B) /\ Event("error", <<>>) \in Events(B)
      /\ Event("close", <<>>) \in Events(B)
  BY EventTypes DEF Kinds
<1>4. \A p \in Nat : SubSeq(file, p + 1, p) = <<>>
  BY SubSeqEmpty
<1> HIDE DEF B
<1>5. CASE Sends(Event("error", <<>>))
  <2>1. \A p \in 0..Len(file) : Event("error", <<>>).bytes = SubSeq(file, p + 1, p)
    BY <1>2, <1>4 DEF Event
  <2>2. Event("error", <<>>).kind = "error"
    BY DEF Event
  <2>3. \A p \in 0..Len(file) : p \in p..Len(file)
    BY <1>2
  <2> QED BY <1>1, <1>3, <1>5, <2>1, <2>2, <2>3, PipeGrows DEF B
<1>6. CASE Open /\ Sends(Event("open", <<>>)) /\ todo' \in ReadPlans(Len(file))
  <2>1. todo' = Left(0) /\ producer = "open"
    BY <1>6, Range1IsLeft DEF Open
  <2> DEFINE e == Event("open", <<>>)
  <2>2. e.kind = "open" /\ e.bytes = <<>>
    BY DEF Event
  <2> HIDE DEF e
  <2>3. ASSUME NEW p \in 0..Len(file), Remains(Flow, p)
        PROVE  \E q \in p..Len(file) :
                 /\ e.bytes = SubSeq(file, p + 1, q)
                 /\ e.kind = "error" \/ (todo' = Left(q) /\ (e.kind = "close" => q = Len(file)))
    <3>1. p = 0
      BY <2>1, <2>3 DEF Remains
    <3>2. e.bytes = SubSeq(file, 0 + 1, 0)
      BY <1>4, <2>2
    <3> QED BY <1>2, <2>1, <2>2, <3>1, <3>2
  <2> QED BY <1>1, <1>3, <1>6, <2>3, PipeGrows DEF B, e
<1>7. CASE CloseFile
  <2> DEFINE e == Event("close", <<>>)
  <2>1. todo = <<>> /\ UNCHANGED todo /\ Sends(e) /\ producer = "reading"
    BY <1>7 DEF CloseFile
  <2>2. e.kind = "close" /\ e.bytes = <<>>
    BY DEF Event
  <2> HIDE DEF e
  <2>3. ASSUME NEW p \in 0..Len(file), Remains(Flow, p)
        PROVE  \E q \in p..Len(file) :
                 /\ e.bytes = SubSeq(file, p + 1, q)
                 /\ e.kind = "error" \/ (todo' = Left(q) /\ (e.kind = "close" => q = Len(file)))
    <3>1. Left(p) = <<>>
      BY <2>1, <2>3 DEF Remains
    <3>2. p = Len(file)
      BY <3>1 DEF Left
    <3>3. e.bytes = SubSeq(file, p + 1, p)
      BY <1>2, <1>4, <2>2
    <3> QED BY <1>2, <2>1, <3>1, <3>2, <3>3
  <2> QED BY <1>1, <1>3, <2>1, <2>3, PipeGrows DEF B, e
<1>8. CASE ReadBlock
  <2> DEFINE range == Head(todo)
  <2>1. PICK n \in ReadSizes(range) :
           /\ Sends(Event("chunk", SubSeq(file, range[1] + 1, range[1] + n)))
           /\ todo' = Rest(range, n) \o Tail(todo)
    BY <1>8 DEF ReadBlock
  <2> DEFINE e == Event("chunk", SubSeq(file, range[1] + 1, range[1] + n))
  <2>2. e.kind = "chunk" /\ e.bytes = SubSeq(file, range[1] + 1, range[1] + n)
    BY DEF Event
  <2>3. producer = "reading" /\ todo # <<>>
    BY <1>8 DEF ReadBlock
  <2> HIDE DEF e
  <2>4. ASSUME NEW p \in 0..Len(file), Remains(Flow, p)
        PROVE  \E q \in p..Len(file) :
                 /\ e.bytes = SubSeq(file, p + 1, q)
                 /\ e.kind = "error" \/ (todo' = Left(q) /\ (e.kind = "close" => q = Len(file)))
    <3>1. todo = <<<<p, Len(file) - p>>>> /\ p # Len(file)
      BY <2>3, <2>4 DEF Remains, Left
    <3>2. range[1] = p /\ range[2] = Len(file) - p /\ Tail(todo) = <<>>
      BY <3>1
    <3> HIDE DEF range
    <3>3. n \in Nat /\ n <= Len(file) - p
      BY <1>2, <3>1, <3>2 DEF ReadSizes, Least
    <3>4. todo' = Left(p + n)
      <4>1. Rest(range, n) \in Seq(Pieces(Len(file)))
        <5>1. n < range[2] => <<range[1] + n, range[2] - n>> \in Pieces(Len(file))
          BY <1>2, <3>2, <3>3 DEF Pieces
        <5> QED BY <5>1, EmptySeq DEF Rest
      <4>2. todo' = Rest(range, n)
        BY <2>1, <3>2, <4>1, ConcatEmptySeq
      <4>3. CASE n < Len(file) - p
        <5>1. todo' = <<<<p + n, Len(file) - p - n>>>>
          BY <3>2, <4>2, <4>3 DEF Rest, InOrder
        <5>2. Len(file) - p - n = Len(file) - (p + n) /\ p + n # Len(file)
          BY <1>2, <3>3, <4>3
        <5> QED BY <5>1, <5>2 DEF Left
      <4>4. CASE n = Len(file) - p
        <5>1. p + n = Len(file)
          BY <1>2, <3>3, <4>4
        <5>2. Rest(range, n) = <<>>
          BY <1>2, <3>2, <3>3, <4>4 DEF Rest
        <5> QED BY <4>2, <5>1, <5>2 DEF Left
      <4> QED BY <1>2, <3>3, <4>3, <4>4
    <3>5. p + n \in p..Len(file)
      BY <1>2, <3>3
    <3> QED BY <2>2, <3>2, <3>4, <3>5
  <2>5. e \in Events(B)
    <3>1. Head(todo) \in Pieces(Len(file))
      BY <1>1, <2>3, HeadTailProperties DEF SoundInv, FlowType
    <3>2. range[1] \in Nat /\ range[2] \in Nat /\ range[1] + range[2] <= Len(file)
      BY <3>1 DEF Pieces
    <3> HIDE DEF range
    <3>3. n \in Nat /\ range[1] + n <= Len(file)
      BY <1>2, <3>2 DEF ReadSizes, Least
    <3>4. SubSeq(file, range[1] + 1, range[1] + n) \in Seq(B)
      BY <1>2, <3>2, <3>3, ReadPiece DEF B
    <3> QED BY <3>4, EventTypes DEF e
  <2> HIDE DEF range
  <2>6. Sends(e)
    BY <2>1 DEF e
  <2> QED BY <1>1, <2>4, <2>5, <2>6, PipeGrows DEF B
<1> QED BY <1>5, <1>6, <1>7, <1>8 DEF Open, ReadFails

(* Events that move on.                                                    *)
LEMMA MoveWhole ==
  ASSUME WholeInv, op = "check", InOrder, consumer = "recv",
         Send \/ SendSync \/ ForwardRecv \/ ForwardSend \/ ForwardJoin
  PROVE  Pipe(Flow, digest)'
<1> DEFINE T == Events(ToSet(file))
<1>1. /\ Pipe(Flow, digest) /\ SoundInv /\ UNCHANGED <<file, digest, todo>> /\ open
      /\ profile.direct /\ forwarder = "ended" => producer = "ended" /\ sync = <<>>
      /\ forwarder = "joining" => sync = <<>> /\ producer = "ended"
      /\ ~profile.direct => forwarder = "ended" /\ sync = <<>>
  BY DEF WholeInv, WholeOK, StagesOK, SoundInv, FlowType, Send, SendSync, ForwardRecv, ForwardSend,
         ForwardJoin, fileVars, consumerVars, producerVars
<1>2. /\ channel \in Seq(T) /\ Passing \in Seq(T) /\ sync \in Seq(T) /\ Sending \in Seq(T)
      /\ event \in T /\ passing \in T
  BY <1>1, FlowTypes
<1> HIDE DEF T
<1>3. CASE Send
  <2>1. /\ channel' = Append(channel, event) /\ producer = "sending" /\ producer' = AfterSend
        /\ UNCHANGED forwardVars /\ forwarder = "ended" /\ sync = <<>>
    BY <1>1, <1>3 DEF Send
  <2>2. Flow = ((channel \o <<>>) \o <<>>) \o <<event>>
    BY <2>1 DEF Flow, Passing, Sending
  <2>3. producer' # "sending"
    BY <2>1 DEF AfterSend
  <2>4. Flow' = ((Append(channel, event) \o <<>>) \o <<>>) \o <<>>
    BY <2>1, <2>3 DEF Flow, Passing, Sending, forwardVars
  <2>5. channel \o <<>> = channel /\ (channel \o <<>>) \o <<>> = channel
    BY <1>2, ConcatEmptySeq
  <2>6. Append(channel, event) \in Seq(T) /\ Append(channel, event) = channel \o <<event>>
    BY <1>2, AppendProperties, AppendIsConcat
  <2>7. Append(channel, event) \o <<>> = Append(channel, event)
    BY <2>6, ConcatEmptySeq
  <2>8. Flow' = Flow
    BY <2>2, <2>4, <2>5, <2>6, <2>7
  <2> QED BY <1>1, <2>1, <2>8, PipeMoves
<1>4. CASE SendSync
  <2>1. /\ sync' = Append(sync, event) /\ producer = "sending" /\ producer' = AfterSend
        /\ UNCHANGED <<forwarder, passing, channel>>
    BY <1>1, <1>4 DEF SendSync
  <2>2. producer' # "sending"
    BY <2>1 DEF AfterSend
  <2>3. Flow = ((channel \o Passing) \o sync) \o <<event>>
    BY <2>1 DEF Flow, Sending
  <2>4. Flow' = ((channel \o Passing) \o Append(sync, event)) \o <<>>
    BY <2>1, <2>2 DEF Flow, Sending, Passing
  <2>5. ((channel \o Passing) \o Append(sync, event)) \o <<>> = ((channel \o Passing) \o sync) \o <<event>>
    BY <1>2, Regroup, SMTT(60)
  <2>6. Flow' = Flow
    BY <2>3, <2>4, <2>5
  <2> QED BY <1>1, <2>1, <2>6, PipeMoves
<1>5. CASE ForwardRecv
  <2>1. UNCHANGED <<producer, event, channel>> /\ Sending' = Sending /\ Passing = <<>>
    BY <1>5 DEF ForwardRecv, producerVars, Sending, Passing
  <2>2. CASE sync # <<>> /\ forwarder' = "sending" /\ passing' = Head(sync) /\ sync' = Tail(sync)
    <3>1. Flow' = ((channel \o <<Head(sync)>>) \o Tail(sync)) \o Sending
      BY <2>1, <2>2 DEF Flow, Passing
    <3>2. (channel \o <<Head(sync)>>) \o Tail(sync) = (channel \o <<>>) \o sync
      BY <1>2, <2>2, FirstAndRest
    <3>3. Flow' = Flow
      BY <2>1, <3>1, <3>2 DEF Flow
    <3> QED BY <1>1, <2>1, <3>3, PipeMoves
  <2>3. CASE forwarder' = "joining" /\ UNCHANGED <<sync, passing>>
    <3>1. Flow' = Flow
      BY <2>1, <2>3 DEF Flow, Passing
    <3> QED BY <1>1, <2>1, <3>1, PipeMoves
  <2> QED BY <1>5, <2>2, <2>3 DEF ForwardRecv
<1>6. CASE ForwardSend
  <2>1. /\ channel' = Append(channel, passing) /\ forwarder = "sending" /\ forwarder' = "recv"
        /\ UNCHANGED <<producer, event, sync>>
    BY <1>1, <1>6 DEF ForwardSend, producerVars
  <2>2. Flow = ((channel \o <<passing>>) \o sync) \o Sending
    BY <2>1 DEF Flow, Passing
  <2>3. Flow' = ((Append(channel, passing) \o <<>>) \o sync) \o Sending
    BY <2>1 DEF Flow, Passing, Sending
  <2>4. (Append(channel, passing) \o <<>>) \o sync = (channel \o <<passing>>) \o sync
    <3>1. Append(channel, passing) = channel \o <<passing>> /\ Append(channel, passing) \in Seq(T)
      BY <1>2, AppendIsConcat, AppendProperties
    <3>2. Append(channel, passing) \o <<>> = Append(channel, passing)
      BY <3>1, ConcatEmptySeq
    <3> QED BY <3>1, <3>2
  <2>5. Flow' = Flow
    BY <2>2, <2>3, <2>4
  <2> QED BY <1>1, <2>1, <2>5, PipeMoves
<1>7. CASE ForwardJoin
  <2>1. UNCHANGED <<producer, event, channel, sync>> /\ Sending' = Sending /\ Passing' = Passing
    BY <1>1, <1>7 DEF ForwardJoin, producerVars, Passing, Sending
  <2>2. Flow' = Flow
    BY <2>1 DEF Flow
  <2> QED BY <1>1, <2>1, <2>2, PipeMoves
<1> QED BY <1>3, <1>4, <1>5, <1>6, <1>7

LEMMA StagesStay ==
  ASSUME WholeInv, [Next]_vars
  PROVE  StagesOK'
<1>1. op \in {"check", "verify"} /\ UNCHANGED jobVars
  BY FileAssumption DEF WholeInv, SoundInv, JobType, Next, Produce, Forward, Consume, Stop, Open, ReadBlock,
     ReadFails, CloseFile, Send, SendSync, ForwardRecv, ForwardSend, ForwardJoin, Recv, ReadReturns, Compare,
     WriteFile, Verify, vars
<1>2. CASE Open \/ ReadBlock \/ ReadFails \/ CloseFile \/ Send \/ SendSync
  BY <1>2 DEF WholeInv, StagesOK, Open, ReadBlock, ReadFails, CloseFile, Send, SendSync,
     consumerVars, forwardVars, jobVars
<1>3. CASE Forward
  <2>1. forwarder # "ended"
    BY <1>3 DEF Forward, ForwardRecv, ForwardSend, ForwardJoin
  <2> QED BY <1>3, <2>1 DEF WholeInv, StagesOK, Forward, ForwardRecv, ForwardSend, ForwardJoin,
     consumerVars, jobVars, producerVars
<1>4. CASE Recv \/ ReadReturns \/ Compare
  BY <1>4 DEF WholeInv, StagesOK, Recv, StopsReceiving, ReadReturns, Compare, Finish,
     consumerVars, jobVars, producerVars, forwardVars
<1>5. CASE WriteFile \/ Verify
  <2>1. op = "verify"
    BY <1>1, <1>5 DEF WholeInv, SoundInv, RolesKept, WriteFile, Verify
  <2> QED BY <1>1, <1>5, <2>1 DEF WholeInv, StagesOK, WriteFile, Verify, jobVars, forwardVars
<1>6. CASE Stop \/ UNCHANGED vars
  BY <1>6 DEF WholeInv, StagesOK, Stop, vars, consumerVars, jobVars, producerVars, forwardVars
<1> QED BY <1>2, <1>3, <1>4, <1>5, <1>6 DEF Next, Produce, Consume

(* The consumer takes an event, or leaves.                                 *)
LEMMA RecvWhole ==
  ASSUME WholeInv, op = "check", InOrder, Recv
  PROVE  /\ consumer' = "recv" => ~failed' /\ Pipe(Flow, digest)'
         /\ consumer' = "awaiting" /\ ~failed' /\ ~stop' => digest' = file
<1> DEFINE T == Events(ToSet(file))
<1>1. /\ consumer = "recv" /\ ~failed /\ Pipe(Flow, digest) /\ SoundInv /\ StagesOK
      /\ UNCHANGED <<file, producer, todo, event, forwarder, passing, sync, stop>>
  BY DEF Recv, WholeInv, WholeOK, fileVars, producerVars, forwardVars
<1>2. PICK pos : Cut(Flow, digest, pos) /\ (Breaks(Flow) \/ Remains(Flow, pos[Len(Flow)]))
  BY <1>1 DEF Pipe
<1>3. /\ channel \in Seq(T) /\ Passing \in Seq(T) /\ sync \in Seq(T) /\ Sending \in Seq(T) /\ Flow \in Seq(T)
      /\ Len(Flow) \in Nat /\ file \in Seq(Nat) /\ Len(file) \in Nat
  BY <1>1, FlowTypes
<1> HIDE DEF T
<1>4. CASE channel # <<>> /\ ~stop /\ Head(channel).kind # "error"
  <2>1. /\ digest' = digest \o Head(channel).bytes /\ channel' = Tail(channel)
        /\ UNCHANGED <<consumer, failed>>
    BY <1>4 DEF Recv
  <2>2. Head(Flow) = Head(channel) /\ Flow' = Tail(Flow) /\ Flow # <<>>
    <3> DEFINE X == channel \o Passing
               Y == X \o sync
    <3>1. X \in Seq(T) /\ Y \in Seq(T) /\ X # <<>> /\ Y # <<>> /\ Flow # <<>>
      BY <1>3, <1>4, ConcatProperties, ConcatEqualIffEmpty DEF Flow
    <3>2. Head(X) = Head(channel) /\ Tail(X) = Tail(channel) \o Passing
      BY <1>3, <1>4, FirstAndRest
    <3> HIDE DEF X
    <3>3. Head(Y) = Head(X) /\ Tail(Y) = Tail(X) \o sync
      BY <1>3, <3>1, FirstAndRest
    <3>4. Flow = Y \o Sending
      BY DEF Flow, X
    <3> HIDE DEF Y
    <3>5. Head(Flow) = Head(Y) /\ Tail(Flow) = Tail(Y) \o Sending
      BY <1>3, <3>1, <3>4, FirstAndRest
    <3>6. Flow' = ((Tail(channel) \o Passing) \o sync) \o Sending
      BY <1>1, <2>1 DEF Flow, Passing, Sending
    <3> QED BY <3>1, <3>2, <3>3, <3>5, <3>6
  <2>3. PICK p : /\ Cut(Tail(Flow), digest \o Head(Flow).bytes, p)
                 /\ p[Len(Tail(Flow))] = pos[Len(Flow)]
    BY <1>2, <1>3, <2>2, CutTail
  <2>4. Cut(Flow, digest, p)'
    BY <1>1, <2>1, <2>2, <2>3 DEF Cut
  <2> DEFINE n == Len(Flow)
             f == Flow'
  <2>5. n \in Nat \ {0} /\ Len(f) = n - 1 /\ (\A i \in 1..n - 1 : f[i] = Flow[i + 1]) /\ Flow[1] = Head(Flow)
        /\ f \in Seq(T)
    BY <1>3, <2>2, HeadTailProperties, EmptySeq
  <2> HIDE DEF n, f
  <2>6. LastOnly(Flow)'
    <3>1. \A i \in 1..n : Flow[i].kind \in {"error", "close"} => i = n /\ producer \in {"sending", "ended"}
      BY <1>1 DEF Pipe, LastOnly, n
    <3>2. ASSUME NEW i \in 1..n - 1, f[i].kind \in {"error", "close"}
          PROVE  i = n - 1 /\ producer \in {"sending", "ended"}
      <4>1. i + 1 \in 1..n /\ f[i] = Flow[i + 1]
        BY <2>5
      <4>2. i + 1 = n /\ producer \in {"sending", "ended"}
        BY <3>1, <3>2, <4>1
      <4> QED BY <2>5, <4>2
    <3>3. LastOnly(f)
      BY <2>5, <3>2 DEF LastOnly
    <3> QED BY <1>1, <3>3 DEF LastOnly, f
  <2>7. f # <<>> => n - 1 \in 1..n - 1 /\ f[n - 1] = Flow[n]
    <3>1. f # <<>> => n - 1 # 0
      BY <2>5, EmptySeq
    <3> QED BY <2>5, <3>1
  <2>8. Breaks(Flow) => Breaks(f)
    <3>1. CASE f = <<>>
      <4>1. n = 1
        BY <2>5, <3>1, EmptySeq
      <4> QED BY <1>4, <2>2, <2>5, <4>1 DEF Breaks, n
    <3>2. CASE f # <<>>
      BY <2>5, <2>7, <3>2 DEF Breaks, n
    <3> QED BY <3>1, <3>2
  <2>9. ~Breaks(Flow) => Remains(Flow, pos[n])
    BY <1>2 DEF n
  <2>10. ~Breaks(Flow) => Remains(f, pos[n])
    BY <2>2, <2>5, <2>7, <2>9 DEF Remains, n
  <2>11. p[Len(f)] = pos[n]
    BY <2>2, <2>3 DEF f, n
  <2>12. Breaks(f) \/ Remains(f, p[Len(f)])
    BY <2>8, <2>10, <2>11
  <2>13. (Breaks(Flow) \/ Remains(Flow, p[Len(Flow)]))'
    BY <1>1, <2>12 DEF Breaks, Remains, Left, f
  <2>14. Pipe(Flow, digest)'
    BY <2>4, <2>6, <2>13 DEF Pipe
  <2> QED BY <1>1, <2>1, <2>14
<1>5. CASE channel = <<>> /\ StreamEnded /\ StopsReceiving /\ UNCHANGED <<digest, failed>>
  <2>1. /\ producer = "ended" /\ forwarder = "ended" /\ sync = <<>>
    BY <1>1, <1>5 DEF StreamEnded, StagesOK, SoundInv, FlowType
  <2>2. Flow = <<>>
    <3>1. <<>> \o <<>> = <<>>
      BY <1>3, ConcatEmptySeq, EmptySeq
    <3> QED BY <1>5, <2>1, <3>1 DEF Flow, Passing, Sending
  <2>3. Len(Flow) = 0 /\ ~Breaks(Flow)
    BY <2>2, EmptySeq DEF Breaks
  <2>4. pos[0] = Len(file)
    BY <1>2, <2>1, <2>3 DEF Remains
  <2>5. digest = file
    BY <1>2, <1>3, <2>4, SubSeqFull DEF Cut
  <2> QED BY <1>5, <2>5 DEF StopsReceiving
<1>6. CASE stop /\ StopsReceiving
  BY <1>1, <1>6 DEF StopsReceiving
<1>7. CASE StopsReceiving /\ failed'
  BY <1>7 DEF StopsReceiving
<1> QED BY <1>4, <1>5, <1>6, <1>7 DEF Recv

(* What a file that is written in order holds.                             *)
LEMMA WrittenWhole ==
  ASSUME SoundInv, op = "verify", WholeInOrder, NEW ranges \in WritePlans(Len(original))
  PROVE  Written(ranges) = original
<1>1. ranges = ChunkRanges(Len(original))
  BY DEF WholeInOrder, WritePlans
<1>2. original \in Seq(Nat) /\ Len(original) \in Nat
  BY LenProperties DEF SoundInv, JobType
<1>3. 1..Len(original) \subseteq Covered(ranges)
  BY <1>1, <1>2, ChunksCover
<1>4. Written(ranges) = [i \in 1..Len(original) |-> original[i]]
  BY <1>3 DEF Written
<1>5. original = [i \in 1..Len(original) |-> original[i]]
  BY <1>2, LenProperties
<1> QED BY <1>4, <1>5

LEMMA NextWhole == WholeInv /\ [Next]_vars => WholeOK'
<1> SUFFICES ASSUME WholeInv, [Next]_vars PROVE WholeOK'
  OBVIOUS
<1>1. op \in {"check", "verify"} /\ SoundInv
  BY FileAssumption DEF WholeInv, SoundInv, JobType
<1>2. CASE Open \/ ReadBlock \/ ReadFails \/ CloseFile
  <2>1. UNCHANGED <<jobVars, fileVars, consumerVars, stop>>
    BY <1>2 DEF Open, ReadBlock, ReadFails, CloseFile
  <2> QED BY <1>2, <2>1, ReadWhole, WholeStays
<1>3. CASE Send \/ SendSync \/ ForwardRecv \/ ForwardSend \/ ForwardJoin
  <2>1. UNCHANGED <<jobVars, fileVars, consumerVars, stop>>
    BY <1>3 DEF Send, SendSync, ForwardRecv, ForwardSend, ForwardJoin
  <2> QED BY <1>3, <2>1, MoveWhole, WholeStays
<1>4. CASE Recv
  <2>1. /\ UNCHANGED <<jobVars, fileVars, stop, verdict>> /\ consumer = "recv"
        /\ consumer' \in {"recv", "awaiting"} /\ op = "check"
    BY <1>1, <1>4 DEF Recv, StopsReceiving, SoundInv, RolesKept
  <2>2. verdict = "none"
    BY <1>1, <2>1 DEF SoundInv, ConsumerType
  <2>3. InOrder => /\ consumer' = "recv" => ~failed' /\ Pipe(Flow, digest)'
                   /\ consumer' = "awaiting" /\ ~failed' /\ ~stop' => digest' = file
    BY <1>4, <2>1, RecvWhole
  <2> QED BY <2>1, <2>2, <2>3 DEF WholeOK, InOrder, jobVars, fileVars
<1>5. CASE ReadReturns
  <2>1. /\ UNCHANGED <<jobVars, fileVars, stop, digest, failed>> /\ consumer = "awaiting" /\ op = "check"
        /\ \/ consumer' = "done" /\ verdict' \in {"error", "skipped"}
           \/ ~failed /\ ~stop /\ consumer' = "comparing" /\ UNCHANGED verdict
    BY <1>1, <1>5 DEF ReadReturns, Finish, SoundInv, RolesKept
  <2>2. verdict = "none"
    BY <1>1, <2>1 DEF SoundInv, ConsumerType
  <2> QED BY <2>1, <2>2 DEF WholeInv, WholeOK, InOrder, jobVars, fileVars
<1>6. CASE Compare
  <2>1. /\ UNCHANGED <<jobVars, fileVars, digest>> /\ op = "check" /\ consumer = "comparing"
        /\ consumer' = "done" /\ (verdict' = "mismatch" => digest # original)
    BY <1>6 DEF Compare, Finish
  <2>2. WholeInOrder => InOrder
    BY <2>1 DEF WholeInOrder, InOrder
  <2> QED BY <2>1, <2>2 DEF WholeInv, WholeOK, InOrder, WholeInOrder, jobVars, fileVars
<1>7. CASE WriteFile
  <2>1. /\ UNCHANGED jobVars /\ op = "verify" /\ verdict = "none"
        /\ \/ verdict' = "error"
           \/ /\ UNCHANGED verdict
              /\ \E ranges \in WritePlans(Len(original)) : damaged' = (file' # Written(ranges))
    BY <1>1, <1>7 DEF WriteFile, Finish, SoundInv, RolesKept, ConsumerType
  <2>2. WholeInOrder /\ verdict' # "error" => damaged' = (file' # original)
    BY <1>1, <2>1, WrittenWhole
  <2> QED BY <2>1, <2>2 DEF WholeOK, WholeInOrder, jobVars
<1>8. CASE Verify
  <2>1. /\ UNCHANGED <<jobVars, fileVars>> /\ op = "verify" /\ consumer = "comparing"
        /\ (verdict' = "mismatch" => file # original) /\ verdict = "none"
    BY <1>1, <1>8 DEF Verify, Finish, SoundInv, ConsumerType
  <2> QED BY <2>1 DEF WholeInv, WholeOK, WholeInOrder, jobVars, fileVars
<1>9. CASE Stop
  <2>1. UNCHANGED <<jobVars, fileVars, producerVars, forwardVars, channel, consumerVars>> /\ stop'
    BY <1>9 DEF Stop
  <2>2. Pipe(Flow, digest) => Pipe(Flow, digest)'
    <3>1. Flow' = Flow /\ UNCHANGED <<file, digest, todo, producer>>
      BY <2>1 DEF Flow, Passing, Sending, fileVars, producerVars, forwardVars, consumerVars
    <3> QED BY <1>1, <3>1, PipeMoves
  <2> QED BY <2>1, <2>2 DEF WholeInv, WholeOK, InOrder, WholeInOrder, jobVars, fileVars, consumerVars
<1>10. CASE UNCHANGED vars
  <2>1. Pipe(Flow, digest) => Pipe(Flow, digest)'
    <3>1. Flow' = Flow /\ UNCHANGED <<file, digest, todo, producer>>
      BY <1>10 DEF vars, Flow, Passing, Sending, fileVars, producerVars, forwardVars, consumerVars
    <3> QED BY <1>1, <3>1, PipeMoves
  <2> QED BY <1>10, <2>1, WholeStays DEF vars, WholeInv, WholeOK
<1> QED BY <1>2, <1>3, <1>4, <1>5, <1>6, <1>7, <1>8, <1>9, <1>10 DEF Next, Produce, Forward, Consume

(* A read in order, or a file that was written in order, does not raise a  *)
(* false alarm, whenever the job is stopped and however the events are     *)
(* passed on: stream_read_file, its consumer and stream_sha256.            *)
THEOREM AlarmsAreTrue == Spec => []AlarmIsTrue
<1>1. Init => WholeInv
  BY InitSound, InitWhole DEF WholeInv
<1>2. WholeInv /\ [Next]_vars => WholeInv'
  <2>1. WholeInv => SoundInv
    BY DEF WholeInv
  <2> QED BY <2>1, NextSound, StagesStay, NextWhole DEF WholeInv
<1>3. WholeInv => AlarmIsTrue
  <2> SUFFICES ASSUME WholeInv, verdict = "mismatch", WholeInOrder PROVE damaged
    BY DEF AlarmIsTrue
  <2>1. op \in {"check", "verify"} /\ file # original /\ consumer = "done"
    BY FileAssumption DEF WholeInv, WholeOK, SoundInv, JobType, ConsumerType
  <2> QED BY <2>1 DEF WholeInv, WholeOK, SoundInv, RolesKept
<1> QED BY <1>1, <1>2, <1>3, PTL DEF Spec
=============================================================================
