--------------------------- MODULE WorkingSetProofs ---------------------------
(***************************************************************************)
(* Proofs about JobSpec and WorkingSet.  What the master accepts the       *)
(* workers understand and can build, whatever is sent; and a worker finds  *)
(* what it works on, fails only for a cause and leaves nothing behind, for *)
(* every specification, any tree that is scanned and trees of any size.    *)
(***************************************************************************)
EXTENDS WorkingSet, FiniteSetTheorems, SequenceTheorems, WellFoundedInduction, TLAPS

-----------------------------------------------------------------------------
(* The specification, from the client to the worker.                       *)

LEMMA ASectionIsSet ==
  /\ NoSection \notin ReadSections
  /\ NoSection \notin S3Sections
PROOF
  <1>1. \A r \in ReadSections : DOMAIN r # DOMAIN NoSection
    BY DEF ReadSections, NoSection
  <1>2. \A r \in S3Sections : DOMAIN r # DOMAIN NoSection
    BY DEF S3Sections, NoSection
  <1> QED BY <1>1, <1>2

LEMMA RedactedReadFields ==
  ASSUME NEW r \in ReadSections, r.s3 \in S3Sections
  PROVE  /\ RedactedRead(r) \in ReadSections
         /\ RedactedRead(r).concurrency = r.concurrency
         /\ RedactedRead(r).files = r.files /\ RedactedRead(r).dirs = r.dirs
         /\ RedactedRead(r).think = r.think /\ RedactedRead(r).rate = r.rate
         /\ RedactedRead(r).s3 \in S3Sections
         /\ RedactedRead(r).s3.bucket = r.s3.bucket /\ RedactedRead(r).s3.url = r.s3.url
         /\ RedactedRead(r).s3.region = r.s3.region
         /\ RedactedRead(r).s3.accessKey = Redacted /\ RedactedRead(r).s3.secretKey = Redacted
PROOF
  <1> DEFINE s == [r.s3 EXCEPT !.accessKey = Redacted, !.secretKey = Redacted]
  <1>0. Redacted \in Keys
    BY DEF Keys
  <1>1. /\ s \in S3Sections
        /\ s.bucket = r.s3.bucket /\ s.url = r.s3.url /\ s.region = r.s3.region
        /\ s.accessKey = Redacted /\ s.secretKey = Redacted
    BY <1>0 DEF S3Sections
  <1>2. RedactedRead(r) = [r EXCEPT !.s3 = s]
    BY DEF RedactedRead
  <1> HIDE DEF s
  <1> QED BY <1>1, <1>2 DEF ReadSections

(* Storing a job changes the number of workers and the two keys, no more.  *)
LEMMA StoredFields ==
  ASSUME NEW p \in BenchSpec
  PROVE  /\ Stored(p) \in BenchSpec
         /\ Stored(p).fs = p.fs /\ Stored(p).ioMode = p.ioMode
         /\ Stored(p).aligned = p.aligned /\ Stored(p).direct = p.direct
         /\ Stored(p).blockSize = p.blockSize /\ Stored(p).duration = p.duration
         /\ Stored(p).warmup = p.warmup
         /\ Stored(p).write = p.write /\ Stored(p).metadata = p.metadata
PROOF
  <1> DEFINE w == IF p.workers <= 0 THEN 1 ELSE p.workers
             r == IF HasConsistency(p) THEN RedactedRead(p.read) ELSE p.read
  <1>1. w \in Int
    BY DEF BenchSpec
  <1>2. r \in {NoSection} \cup ReadSections
    <2>1. CASE HasConsistency(p)
      <3>1. p.read \in ReadSections /\ p.read.s3 \in S3Sections
        BY <2>1 DEF HasConsistency, BenchSpec, ReadSections
      <3> QED BY <2>1, <3>1, RedactedReadFields
    <2>2. CASE ~HasConsistency(p)
      BY <2>2 DEF BenchSpec
    <2> QED BY <2>1, <2>2
  <1>3. Stored(p) = [p EXCEPT !.workers = w, !.read = r]
    BY DEF Stored
  <1> HIDE DEF w, r
  <1> QED BY <1>1, <1>2, <1>3 DEF BenchSpec

LEMMA StoredRead ==
  ASSUME NEW p \in BenchSpec
  PROVE  /\ p.read = NoSection <=> Stored(p).read = NoSection
         /\ p.read # NoSection =>
              /\ Stored(p).read.concurrency = p.read.concurrency
              /\ Stored(p).read.files = p.read.files /\ Stored(p).read.dirs = p.read.dirs
              /\ Stored(p).read.think = p.read.think /\ Stored(p).read.rate = p.read.rate
              /\ p.read.s3 = NoSection <=> Stored(p).read.s3 = NoSection
              /\ p.read.s3 # NoSection =>
                   /\ Stored(p).read.s3.bucket = p.read.s3.bucket
                   /\ Stored(p).read.s3.url = p.read.s3.url
                   /\ Stored(p).read.s3.region = p.read.s3.region
                   /\ Stored(p).read.s3.accessKey = Redacted
                   /\ Stored(p).read.s3.secretKey = Redacted
PROOF
  <1>1. Stored(p).read = IF HasConsistency(p) THEN RedactedRead(p.read) ELSE p.read
    BY DEF Stored, BenchSpec
  <1>2. CASE HasConsistency(p)
    <2>1. p.read # NoSection /\ p.read \in ReadSections /\ p.read.s3 \in S3Sections
      BY <1>2 DEF HasConsistency, BenchSpec, ReadSections
    <2> QED BY <1>1, <1>2, <2>1, RedactedReadFields, ASectionIsSet
  <1>3. CASE ~HasConsistency(p)
    BY <1>1, <1>3 DEF HasConsistency
  <1> QED BY <1>2, <1>3

(* Filling in the defaults leaves what the checks look at alone, but for   *)
(* the warm-up and the concurrency of the layout.                          *)
LEMMA DefaultedFields ==
  ASSUME NEW p \in BenchSpec
  PROVE  /\ FromProto(p).fs = p.fs
         /\ FromProto(p).aligned = p.aligned /\ FromProto(p).direct = p.direct
         /\ FromProto(p).blockSize = p.blockSize /\ FromProto(p).duration = p.duration
         /\ FromProto(p).warmup = IF p.warmup = Unset THEN 0 ELSE p.warmup
         /\ FromProto(p).read = p.read /\ FromProto(p).write = p.write
         /\ FromProto(p).metadata = DefaultLayout(p.metadata)
PROOF
  BY DEF FromProto, BenchSpec

LEMMA LayoutKeepsSection ==
  ASSUME NEW m \in {NoSection} \cup MetadataSections
  PROVE  m # NoSection <=> DefaultLayout(m) # NoSection
PROOF
  <1>1. CASE m \in MetadataSections
    <2>1. DOMAIN DefaultLayout(m) = DOMAIN m
      BY <1>1 DEF DefaultLayout, MetadataSections
    <2>2. DOMAIN m # DOMAIN NoSection
      BY <1>1 DEF MetadataSections, NoSection
    <2> QED BY <2>1, <2>2
  <1>2. CASE m = NoSection
    BY <1>2 DEF DefaultLayout
  <1> QED BY <1>1, <1>2

(* The master and the workers read the same job: what create_job takes,    *)
(* parse_and_validate does not refuse once it has been stored, and the     *)
(* credentials that travel beside it are there when they are needed.       *)
THEOREM AcceptedIsUnderstood ==
  \A p \in BenchSpec : Accepts(p) =>
     /\ Understands(Stored(p))
     /\ HasConsistency(FromProto(Stored(p))) <=> Credentials(p) # NoSection
PROOF
  <1> SUFFICES ASSUME NEW p \in BenchSpec, Accepts(p)
               PROVE  /\ Understands(Stored(p))
                      /\ HasConsistency(FromProto(Stored(p))) <=> Credentials(p) # NoSection
    OBVIOUS
  <1> DEFINE q == Stored(p)
  <1>0. q \in BenchSpec
    BY StoredFields
  <1> HIDE DEF q
  <1>a. /\ q.fs = p.fs /\ q.ioMode = p.ioMode /\ q.aligned = p.aligned /\ q.direct = p.direct
        /\ q.blockSize = p.blockSize /\ q.duration = p.duration /\ q.warmup = p.warmup
        /\ q.write = p.write /\ q.metadata = p.metadata
    BY StoredFields DEF q
  <1>b. /\ p.read = NoSection <=> q.read = NoSection
        /\ p.read # NoSection =>
             /\ q.read.concurrency = p.read.concurrency
             /\ q.read.files = p.read.files /\ q.read.dirs = p.read.dirs
             /\ q.read.think = p.read.think /\ q.read.rate = p.read.rate
             /\ p.read.s3 = NoSection <=> q.read.s3 = NoSection
             /\ p.read.s3 # NoSection =>
                  /\ q.read.s3.bucket = p.read.s3.bucket
                  /\ q.read.s3.url = p.read.s3.url /\ q.read.s3.region = p.read.s3.region
                  /\ q.read.s3.accessKey = Redacted /\ q.read.s3.secretKey = Redacted
    BY StoredRead DEF q
  <1>1. Parses(p) /\ Valid(FromProto(p), FALSE)
    BY DEF Accepts
  <1>2. Parses(q)
    BY <1>1, <1>a, <1>b DEF Parses, ReadParses
  <1>3. Valid(FromProto(q), TRUE)
    <2>1. FromProto(q).metadata = FromProto(p).metadata /\ FromProto(q).warmup = FromProto(p).warmup
      BY <1>0, <1>a, DefaultedFields
    <2>2. q.read # NoSection => ValidRead(q.read, TRUE)
      <3>1. p.read # NoSection => ValidRead(p.read, FALSE)
        BY <1>1, DefaultedFields DEF Valid
      <3> QED BY <3>1, <1>b DEF ValidRead, ValidConsistency, Redacted
    <2>3. {q.read, q.write, q.metadata} # {NoSection}
      <3>1. {p.read, p.write, FromProto(p).metadata} # {NoSection}
        BY <1>1, DefaultedFields DEF Valid
      <3>2. p.read # NoSection \/ p.write # NoSection \/ p.metadata # NoSection
        BY <3>1, DefaultedFields, LayoutKeepsSection DEF BenchSpec
      <3> QED BY <3>2, <1>a, <1>b
    <2> DEFINE f == FromProto(p)
               g == FromProto(q)
    <2>4. Valid(f, FALSE)
      BY <1>1
    <2>5. /\ g.fs = f.fs /\ g.duration = f.duration /\ g.warmup = f.warmup
          /\ g.blockSize = f.blockSize /\ g.direct = f.direct /\ g.aligned = f.aligned
          /\ g.write = f.write /\ g.metadata = f.metadata /\ g.read = q.read
      BY <1>0, <1>a, <2>1, DefaultedFields
    <2>6. {g.read, g.write, g.metadata} # {NoSection}
      <3>1. g.write = q.write /\ (q.metadata # NoSection => g.metadata # NoSection)
        BY <1>0, <1>a, DefaultedFields, LayoutKeepsSection DEF BenchSpec
      <3> QED BY <2>3, <2>5, <3>1
    <2> HIDE DEF f, g
    <2>7. Valid(g, TRUE)
      BY <2>2, <2>4, <2>5, <2>6 DEF Valid
    <2> QED BY <2>7 DEF g
  <1>4. HasConsistency(FromProto(q)) <=> Credentials(p) # NoSection
    <2>1. HasConsistency(FromProto(q)) <=> HasConsistency(p)
      BY <1>0, <1>b, DefaultedFields DEF HasConsistency
    <2>2. [accessKey |-> p.read.s3.accessKey, secretKey |-> p.read.s3.secretKey] # NoSection
      <3>1. "set" \in DOMAIN NoSection
        BY DEF NoSection
      <3>2. "set" \notin DOMAIN [accessKey |-> p.read.s3.accessKey, secretKey |-> p.read.s3.secretKey]
        OBVIOUS
      <3> QED BY <3>1, <3>2
    <2> QED BY <2>1, <2>2 DEF Credentials
  <1> QED BY <1>2, <1>3, <1>4 DEF Understands, q

-----------------------------------------------------------------------------
(* Paths.                                                                  *)

Names   == Kinds \X Nat
Home(p) == p[1]

LEMMA Counting ==
  ASSUME NEW P, 0 \in P, \A n \in Nat : n \in P => n + 1 \in P
  PROVE  Nat \subseteq P
<1> DEFINE TT == Nat \ P
<1> SUFFICES ASSUME TT # {} PROVE FALSE
  OBVIOUS
<1>1. PICK x \in TT : \A y \in TT : ~(<<y, x>> \in OpToRel(<, Nat))
  <2> HIDE DEF TT
  <2>1. TT \subseteq Nat
    BY DEF TT
  <2> QED BY <2>1, NatLessThanWellFounded, WFMin
<1>2. x # 0 /\ x - 1 \in Nat
  OBVIOUS
<1>3. x - 1 \notin P
  BY <1>2
<1>4. <<x - 1, x>> \in OpToRel(<, Nat)
  BY <1>2 DEF OpToRel
<1> QED BY <1>1, <1>2, <1>3, <1>4

LEMMA Longer ==
  ASSUME NEW p \in Paths, NEW n \in Names
  PROVE  /\ Append(p, n) \in Paths /\ Len(Append(p, n)) = Len(p) + 1
         /\ Parent(Append(p, n)) = p /\ Last(Append(p, n)) = n /\ Home(Append(p, n)) = Home(p)
         /\ Len(p) \in Nat /\ Len(p) > 0
<1>1. p \in Seq(Names) /\ p # <<>>
  BY DEF Paths, Names
<1>2. Len(p) \in Nat /\ Len(p) > 0
  BY <1>1, EmptySeq
<1>3. Append(p, n) \in Seq(Names) /\ Len(Append(p, n)) = Len(p) + 1
  BY <1>1, AppendProperties
<1>4. Parent(Append(p, n)) = p
  <2>1. Parent(Append(p, n)) = SubSeq(Append(p, n), 1, Len(p))
    BY <1>2, <1>3 DEF Parent, Front
  <2>2. \A i \in 1..Len(p) : Append(p, n)[i] = p[i] /\ p[i] \in Names
    BY <1>1, AppendProperties, ElementOfSeq
  <2>3. /\ SubSeq(Append(p, n), 1, Len(p)) \in Seq(Names)
        /\ Len(SubSeq(Append(p, n), 1, Len(p))) = Len(p)
        /\ \A i \in 1..Len(p) : SubSeq(Append(p, n), 1, Len(p))[i] = p[i]
    BY <1>2, <2>2, SubSeqProperties
  <2> QED BY <1>1, <2>1, <2>3, SeqEqual
<1> QED BY <1>1, <1>2, <1>3, <1>4, AppendProperties DEF Last, Home, Paths, Names

LEMMA LastName ==
  ASSUME NEW p \in Paths
  PROVE  Last(p) \in Names /\ Home(p) \in Names /\ Len(p) \in Nat \ {0}
<1>1. p \in Seq(Names) /\ p # <<>> /\ Len(p) \in Nat /\ Len(p) # 0
  BY EmptySeq DEF Paths, Names
<1> QED BY <1>1, ElementOfSeq DEF Last, Home

LEMMA Shorter ==
  ASSUME NEW p \in Paths, Len(p) > 1
  PROVE  /\ Parent(p) \in Paths /\ Len(Parent(p)) = Len(p) - 1 /\ Home(Parent(p)) = Home(p)
         /\ p = Append(Parent(p), Last(p)) /\ Last(p) \in Names
<1>1. p \in Seq(Names) /\ p # <<>> /\ Len(p) \in Nat
  BY DEF Paths, Names
<1>2. PICK q \in Seq(Names), n \in Names : p = Append(q, n)
  BY <1>1, SequenceEmptyOrAppend
<1>3. Len(p) = Len(q) + 1
  BY <1>2, AppendProperties
<1>4. q \in Paths
  <2>1. Len(q) > 0
    BY <1>1, <1>3, LenProperties
  <2> QED BY <2>1, EmptySeq DEF Paths, Names
<1>5. Parent(p) = q /\ Last(p) = n /\ Home(p) = Home(q)
  BY <1>2, <1>4, Longer
<1>6. Len(q) \in Nat
  BY <1>4, LastName
<1> QED BY <1>2, <1>3, <1>4, <1>5, <1>6

LEMMA RootsArePaths ==
  /\ WriteRoot \in Paths /\ MetaRoot \in Paths /\ ScanRoot \in Paths
  /\ Len(WriteRoot) = 1 /\ Len(MetaRoot) = 1 /\ Len(ScanRoot) = 1
  /\ Home(WriteRoot) # Home(MetaRoot) /\ Home(WriteRoot) # Home(ScanRoot)
  /\ Home(MetaRoot) # Home(ScanRoot)
  /\ IsDir(WriteRoot) /\ IsDir(MetaRoot) /\ IsDir(ScanRoot)
  /\ \A k \in {"root", "dir", "tasks", "task", "mkdir", "sub"}, i \in Nat : <<k, i>> \in Names
  /\ \A k \in {"file", "link", "data", "create"}, i \in Nat : <<k, i>> \in Names
<1>1. /\ \A k \in {"root", "dir", "tasks", "task", "mkdir", "sub"}, i \in Nat : <<k, i>> \in Names
      /\ \A k \in {"file", "link", "data", "create"}, i \in Nat : <<k, i>> \in Names
  BY DEF Names, Kinds, DirKinds
<1>2. \A n \in Names : <<n>> \in Seq(Names) /\ Len(<<n>>) = 1 /\ <<n>> # <<>>
  OBVIOUS
<1>3. <<"root", 1>> \in Names /\ <<"root", 2>> \in Names /\ <<"root", 3>> \in Names
  BY <1>1
<1>4. WriteRoot \in Paths /\ MetaRoot \in Paths /\ ScanRoot \in Paths
  BY <1>2, <1>3 DEF Paths, Names, WriteRoot, MetaRoot, ScanRoot
<1> QED BY <1>1, <1>4 DEF WriteRoot, MetaRoot, ScanRoot, Home, IsDir, Last, DirKinds

(* A path of one name is a root; what has its home there lies under it.    *)
LEMMA ShortPath ==
  ASSUME NEW p \in Paths, NEW q \in Paths, Len(p) = 1, Len(q) = 1, Home(p) = Home(q)
  PROVE  p = q
<1>1. p \in Seq(Names) /\ q \in Seq(Names)
  BY DEF Paths, Names
<1> QED BY <1>1, SeqEqual DEF Home

LEMMA UnderRoot ==
  ASSUME NEW r \in Paths, Len(r) = 1, NEW p \in Paths
  PROVE  IsPrefix(r, p) <=> Home(p) = Home(r)
<1>1. p \in Seq(Names) /\ r \in Seq(Names) /\ Len(p) \in Nat /\ Len(p) >= 1
  BY LastName DEF Paths, Names
<1>2. /\ SubSeq(r, 1, 1) \in Seq(Names) /\ SubSeq(p, 1, 1) \in Seq(Names)
      /\ Len(SubSeq(r, 1, 1)) = 1 /\ Len(SubSeq(p, 1, 1)) = 1
      /\ SubSeq(r, 1, 1)[1] = r[1] /\ SubSeq(p, 1, 1)[1] = p[1]
  <2>1. \A i \in 1..1 : i = 1
    OBVIOUS
  <2>2. \A i \in 1..1 : r[i] \in Names /\ p[i] \in Names
    BY <1>1, <2>1, LastName DEF Home
  <2> QED BY <2>2, SubSeqProperties
<1>3. SubSeq(r, 1, 1) = SubSeq(p, 1, 1) <=> r[1] = p[1]
  BY <1>2, SeqEqual
<1> QED BY <1>1, <1>3 DEF IsPrefix, Home

(* A tree without its root is empty.                                       *)
LEMMA NoRootNoTree ==
  ASSUME NEW T, IsTree(T), NEW r \in Paths, Len(r) = 1, r \notin T
  PROVE  \A p \in T : Home(p) # Home(r)
<1> DEFINE P == {n \in Nat : \A p \in T : Len(p) <= n => Home(p) # Home(r)}
<1>1. \A p \in T : p \in Paths /\ Len(p) \in Nat /\ Len(p) > 0
  BY LastName DEF IsTree
<1>2. 0 \in P
  BY <1>1
<1>3. ASSUME NEW n \in Nat, n \in P PROVE n + 1 \in P
  <2> SUFFICES ASSUME NEW p \in T, Len(p) = n + 1 PROVE Home(p) # Home(r)
    BY <1>1, <1>3
  <2>1. CASE Len(p) = 1
    BY <1>1, <2>1, ShortPath
  <2>2. CASE Len(p) > 1
    <3>1. Parent(p) \in T /\ Len(Parent(p)) = n /\ Home(Parent(p)) = Home(p)
      BY <1>1, <2>2, Shorter DEF IsTree
    <3> QED BY <3>1, <1>3
  <2> QED BY <1>1, <2>1, <2>2
<1>4. Nat \subseteq P
  <2> HIDE DEF P
  <2> QED BY <1>2, <1>3, Counting
<1> QED BY <1>1, <1>4

-----------------------------------------------------------------------------
(* The layout of a tree.                                                   *)

GoodTree(m) ==
  /\ m.depth \in Nat \ {0} /\ m.width \in Nat \ {0} /\ m.files \in Nat
  /\ m.concurrency \in Nat \ {0} /\ m.layoutConcurrency \in Nat \ {0}
  /\ NeedsFiles(m) => m.files > 0

(* What is defined step by step exists.                                    *)
StepByStep(g, a, F, d) == g[0] = a /\ \A k \in 1..d : g[k] = F[k][g[k - 1]]

LEMMA Recursion ==
  ASSUME NEW V, NEW a \in V, NEW F \in [Nat -> [V -> V]], NEW d \in Nat
  PROVE  \E g \in [0..d -> V] : StepByStep(g, a, F, d)
<1> DEFINE Is(g, n) == g[0] = a /\ \A k \in 1..n : g[k] = F[k][g[k - 1]]
           P == {n \in Nat : \E g \in [0..n -> V] : Is(g, n)}
<1>1. 0 \in P
  <2> DEFINE g == [k \in 0..0 |-> a]
  <2>1. g \in [0..0 -> V] /\ Is(g, 0)
    OBVIOUS
  <2> HIDE DEF g, Is
  <2> QED BY <2>1
<1>2. ASSUME NEW n \in Nat, n \in P PROVE n + 1 \in P
  <2>1. PICK g \in [0..n -> V] : Is(g, n)
    BY <1>2
  <2> DEFINE v == F[n + 1][g[n]]
             h == [k \in 0..(n + 1) |-> IF k <= n THEN g[k] ELSE v]
  <2>2. v \in V
    OBVIOUS
  <2>3. h \in [0..(n + 1) -> V]
    BY <2>2
  <2>4. ASSUME NEW k \in 1..(n + 1) PROVE h[k] = F[k][h[k - 1]]
    <3>1. CASE k <= n
      <4>1. h[k] = g[k] /\ h[k - 1] = g[k - 1] /\ k \in 1..n
        BY <3>1
      <4> QED BY <2>1, <4>1
    <3>2. CASE ~(k <= n)
      <4>1. h[k] = v /\ h[k - 1] = g[n] /\ k = n + 1
        BY <3>2
      <4> QED BY <4>1
    <3> QED BY <3>1, <3>2
  <2>5. h[0] = a
    BY <2>1
  <2>6. Is(h, n + 1)
    BY <2>4, <2>5
  <2> HIDE DEF h, Is
  <2> QED BY <2>3, <2>6
<1>3. d \in P
  <2> HIDE DEF P
  <2> QED BY <1>1, <1>2, Counting
<1> QED BY <1>3 DEF StepByStep

NextLayer(L, w) == {Append(p, <<"dir", i>>) : p \in L, i \in 1..w}

LEMMA LayersAre ==
  ASSUME NEW m, m.depth \in Nat, m.width \in Nat
  PROVE  /\ Layers(m)[0] = {MetaRoot}
         /\ \A k \in 1..m.depth : Layers(m)[k] = NextLayer(Layers(m)[k - 1], m.width)
<1> DEFINE w == m.width
           d == m.depth
           V == SUBSET Paths
           F == [k \in Nat |-> [L \in V |-> NextLayer(L, w)]]
           G(g) == [k \in 0..d |-> IF k = 0 THEN {MetaRoot} ELSE NextLayer(g[k - 1], w)]
<1> HIDE DEF w, d
<1>1. {MetaRoot} \in V
  BY RootsArePaths
<1>2. ASSUME NEW L \in V PROVE NextLayer(L, w) \in V
  <2> SUFFICES ASSUME NEW q \in NextLayer(L, w) PROVE q \in Paths
    OBVIOUS
  <2>0. PICK p \in L, i \in 1..w : q = Append(p, <<"dir", i>>)
    BY DEF NextLayer
  <2>1. p \in Paths /\ <<"dir", i>> \in Names
    BY RootsArePaths DEF w
  <2> QED BY <2>0, <2>1, Longer
<1>3. F \in [Nat -> [V -> V]] /\ \A k \in Nat, L \in V : F[k][L] = NextLayer(L, w)
  BY <1>2
<1>4. d \in Nat
  BY DEF d
<1> HIDE DEF F, V
<1>5. PICK g \in [0..d -> V] : g[0] = {MetaRoot} /\ \A k \in 1..d : g[k] = F[k][g[k - 1]]
  <2> DEFINE r == {MetaRoot}
  <2>1. r \in V
    BY <1>1
  <2>2. F \in [Nat -> [V -> V]]
    BY <1>3
  <2> HIDE DEF r
  <2>3. \E g \in [0..d -> V] : StepByStep(g, r, F, d)
    BY ONLY <2>1, <2>2, <1>4, Recursion
  <2> QED BY <2>3 DEF r, StepByStep
<1>6. \A k \in 1..d : g[k] = NextLayer(g[k - 1], w)
  BY <1>3, <1>4, <1>5
<1>7. g = G(g)
  BY <1>4, <1>5, <1>6
<1>8. Layers(m) = CHOOSE f : f = G(f)
  BY DEF Layers, NextLayer, w, d
<1>9. \A f : G(f)[0] = {MetaRoot} /\ \A k \in 1..d : G(f)[k] = NextLayer(f[k - 1], w)
  BY <1>4
<1> HIDE DEF G
<1>10. Layers(m) = G(Layers(m))
  BY <1>7, <1>8
<1> QED BY <1>9, <1>10 DEF w, d

LEMMA LayerPaths ==
  ASSUME NEW m, GoodTree(m)
  PROVE  /\ Layers(m)[0] = {MetaRoot}
         /\ \A k \in 1..m.depth : Layers(m)[k] = NextLayer(Layers(m)[k - 1], m.width)
         /\ \A k \in 0..m.depth : \A p \in Layers(m)[k] :
              p \in Paths /\ Len(p) = k + 1 /\ Home(p) = Home(MetaRoot) /\ IsDir(p)
         /\ \A k \in 1..m.depth : \A p \in Layers(m)[k] :
              Parent(p) \in Layers(m)[k - 1] /\ Last(p)[1] = "dir"
<1> DEFINE L == Layers(m)
           d == m.depth
           Fit(k) == \A p \in L[k] : /\ p \in Paths /\ Len(p) = k + 1
                                     /\ Home(p) = Home(MetaRoot) /\ IsDir(p)
           P == {n \in Nat : n <= d => Fit(n)}
<1>1. d \in Nat /\ m.width \in Nat
  BY DEF GoodTree
<1>2. L[0] = {MetaRoot} /\ \A k \in 1..d : L[k] = NextLayer(L[k - 1], m.width)
  BY <1>1, LayersAre
<1> HIDE DEF L, d
<1>3. 0 \in P
  BY <1>2, RootsArePaths
<1>4. ASSUME NEW k \in Nat, k + 1 <= d, Fit(k), NEW p \in L[k + 1]
      PROVE  /\ p \in Paths /\ Len(p) = k + 2 /\ Home(p) = Home(MetaRoot) /\ IsDir(p)
             /\ Parent(p) \in L[k] /\ Last(p)[1] = "dir"
  <2>1. k + 1 \in 1..d /\ (k + 1) - 1 = k
    BY <1>1, <1>4
  <2>2. p \in NextLayer(L[k], m.width)
    BY <1>2, <1>4, <2>1
  <2>3. PICK q \in L[k], i \in 1..m.width : p = Append(q, <<"dir", i>>)
    BY <2>2 DEF NextLayer
  <2>4. <<"dir", i>> \in Names
    BY <1>1, RootsArePaths
  <2>5. q \in Paths /\ Len(q) = k + 1 /\ Home(q) = Home(MetaRoot)
    BY <1>4
  <2>6. /\ p \in Paths /\ Len(p) = k + 2 /\ Home(p) = Home(MetaRoot)
        /\ Parent(p) = q /\ Last(p) = <<"dir", i>>
    BY <2>3, <2>4, <2>5, Longer
  <2> QED BY <2>6 DEF IsDir, DirKinds
<1>5. ASSUME NEW k \in Nat, k \in P PROVE k + 1 \in P
  <2> SUFFICES ASSUME k + 1 <= d PROVE Fit(k + 1)
    OBVIOUS
  <2>1. Fit(k)
    BY <1>1, <1>5
  <2>2. (k + 1) + 1 = k + 2
    OBVIOUS
  <2> HIDE DEF P
  <2> QED BY <1>4, <2>1, <2>2
<1>6. Nat \subseteq P
  <2> HIDE DEF P
  <2> QED BY <1>3, <1>5, Counting
<1>7. \A k \in 0..d : Fit(k)
  BY <1>1, <1>6
<1>8. ASSUME NEW k \in 1..d, NEW p \in L[k] PROVE Parent(p) \in L[k - 1] /\ Last(p)[1] = "dir"
  <2>1. k - 1 \in Nat /\ (k - 1) + 1 = k /\ k <= d /\ k - 1 \in 0..d
    BY <1>1
  <2>2. Fit(k - 1)
    BY <1>7, <2>1
  <2> HIDE DEF Fit, P
  <2> QED BY <1>4, <2>1, <2>2
<1> QED BY <1>2, <1>7, <1>8 DEF L, d

(* The batches, one after the other.                                       *)
LEMMA BatchesAre ==
  ASSUME NEW m, GoodTree(m)
  PROVE  /\ Len(Batches(m)) = m.depth + 2 + m.concurrency
         /\ \A k \in 1..m.depth : Batches(m)[k] = Layers(m)[k]
         /\ Batches(m)[m.depth + 1] = Files(m)
         /\ Batches(m)[m.depth + 2] = {TasksRoot}
         /\ \A t \in 1..m.concurrency : Batches(m)[m.depth + 2 + t] = {TaskRoot(t)}
<1> DEFINE d == m.depth
           c == m.concurrency
           L == Layers(m)
           F == Files(m)
           R == TasksRoot
           T == [t \in 1..c |-> {TaskRoot(t)}]
           X == [k \in 1..d |-> L[k]]
           V == {L[k] : k \in 1..d} \cup {F, {R}} \cup {T[t] : t \in 1..c}
           Y == <<F, {R}>>
<1>1. d \in Nat /\ c \in Nat
  BY DEF GoodTree
<1>2. Batches(m) = (X \o Y) \o T
  BY DEF Batches
<1>3. \A t \in 1..c : T[t] = {TaskRoot(t)}
  OBVIOUS
<1> HIDE DEF L, F, R, d, c
<1>4. X \in Seq(V) /\ Len(X) = d /\ \A k \in 1..d : X[k] = L[k]
  BY <1>1
<1>5. T \in Seq(V) /\ Len(T) = c
  <2>1. T \in [1..c -> V]
    OBVIOUS
  <2> QED BY <1>1, <2>1
<1>6. Y \in Seq(V) /\ Len(Y) = 2 /\ Y[1] = F /\ Y[2] = {R}
  OBVIOUS
<1> HIDE DEF X, Y, T, V
<1>7. /\ X \o Y \in Seq(V) /\ Len(X \o Y) = d + 2
      /\ \A i \in 1..(d + 2) : (X \o Y)[i] = IF i <= d THEN X[i] ELSE Y[i - d]
  <2>1. /\ X \o Y \in Seq(V) /\ Len(X \o Y) = Len(X) + Len(Y)
        /\ \A i \in 1..(Len(X) + Len(Y)) : (X \o Y)[i] = IF i <= Len(X) THEN X[i] ELSE Y[i - Len(X)]
    <3>1. X \in Seq(V) /\ Y \in Seq(V)
      BY <1>4, <1>6
    <3> QED BY ONLY <3>1, ConcatProperties, SMTT(30)
  <2> QED BY <1>4, <1>6, <2>1
<1>8. /\ Len((X \o Y) \o T) = d + 2 + c
      /\ \A i \in 1..(d + 2 + c) : ((X \o Y) \o T)[i] = IF i <= d + 2 THEN (X \o Y)[i] ELSE T[i - (d + 2)]
  <2> DEFINE Z == X \o Y
  <2>1. Z \in Seq(V) /\ Len(Z) = d + 2
    BY <1>7
  <2> HIDE DEF Z
  <2>2. /\ Len(Z \o T) = Len(Z) + Len(T)
        /\ \A i \in 1..(Len(Z) + Len(T)) : (Z \o T)[i] = IF i <= Len(Z) THEN Z[i] ELSE T[i - Len(Z)]
    BY <1>5, <2>1, ConcatProperties
  <2>3. /\ Len(Z \o T) = d + 2 + c
        /\ \A i \in 1..(d + 2 + c) : (Z \o T)[i] = IF i <= d + 2 THEN Z[i] ELSE T[i - (d + 2)]
    BY <1>5, <2>1, <2>2
  <2> QED BY <2>3 DEF Z
<1> DEFINE B == (X \o Y) \o T
<1>9. \A k \in 1..d : B[k] = L[k]
  BY <1>1, <1>4, <1>7, <1>8
<1>10. B[d + 1] = F /\ B[d + 2] = {R}
  <2>1. d + 1 \in 1..(d + 2) /\ d + 2 \in 1..(d + 2) /\ d + 1 \in 1..(d + 2 + c) /\ d + 2 \in 1..(d + 2 + c)
        /\ (d + 1) - d = 1 /\ (d + 2) - d = 2 /\ ~(d + 1 <= d) /\ ~(d + 2 <= d)
    BY <1>1
  <2> QED BY <1>1, <1>6, <1>7, <1>8, <2>1
<1>11. \A t \in 1..c : B[d + 2 + t] = {TaskRoot(t)}
  <2> TAKE t \in 1..c
  <2>1. d + 2 + t \in 1..(d + 2 + c) /\ (d + 2 + t) - (d + 2) = t /\ ~(d + 2 + t <= d + 2)
    BY <1>1
  <2> QED BY <1>3, <1>8, <2>1
<1> QED BY <1>2, <1>8, <1>9, <1>10, <1>11 DEF L, F, R, d, c

(* The sizes of the layers, and their sum.                                 *)
LEMMA SizesAre ==
  ASSUME NEW m, m.depth \in Nat, m.width \in Nat
  PROVE  \E layer \in [0..m.depth -> Nat], sum \in [0..m.depth -> Nat] :
           /\ layer[0] = 1 /\ sum[0] = 0
           /\ \A k \in 1..m.depth : /\ layer[k] = layer[k - 1] * m.width
                                    /\ sum[k] = sum[k - 1] + layer[k]
           /\ TotalDirs(m) = sum[m.depth]
<1> DEFINE w == m.width
           d == m.depth
           F == [k \in Nat |-> [n \in Nat |-> n * w]]
           G(f) == [k \in 0..d |-> IF k = 0 THEN 1 ELSE f[k - 1] * w]
           a == CHOOSE f : f = G(f)
           H == [k \in Nat |-> [n \in Nat |-> n + IF k \in 0..d THEN a[k] ELSE 0]]
           K(f) == [k \in 0..d |-> IF k = 0 THEN 0 ELSE f[k - 1] + a[k]]
           b == CHOOSE f : f = K(f)
<1>0. TotalDirs(m) = b[d]
  BY DEF TotalDirs
<1>1. d \in Nat /\ w \in Nat
  OBVIOUS
<1> HIDE DEF w, d
<1>2. F \in [Nat -> [Nat -> Nat]] /\ \A k \in Nat, n \in Nat : F[k][n] = n * w
  BY <1>1
<1> HIDE DEF F
<1>3. PICK f \in [0..d -> Nat] : f[0] = 1 /\ \A k \in 1..d : f[k] = F[k][f[k - 1]]
  <2> DEFINE r == 1
             V == Nat
  <2>1. r \in V /\ F \in [Nat -> [V -> V]]
    BY <1>2
  <2> HIDE DEF r, V
  <2>2. \E g \in [0..d -> V] : StepByStep(g, r, F, d)
    BY ONLY <2>1, <1>1, Recursion
  <2> QED BY <2>2 DEF r, V, StepByStep
<1>4. ASSUME NEW k \in 1..d PROVE f[k] = f[k - 1] * w
  <2>1. f[k - 1] \in Nat /\ k \in Nat
    BY <1>1, <1>3
  <2> QED BY <1>2, <1>3, <2>1
<1>5. f = G(f)
  BY <1>1, <1>3, <1>4
<1>6. ASSUME NEW g, g = G(g)
      PROVE  g \in [0..d -> Nat] /\ g[0] = 1 /\ \A k \in 1..d : g[k] = g[k - 1] * w
  <2>1. DOMAIN g = 0..d /\ g[0] = 1 /\ \A k \in 1..d : g[k] = g[k - 1] * w
    <3>1. DOMAIN G(g) = 0..d /\ G(g)[0] = 1 /\ \A k \in 1..d : G(g)[k] = g[k - 1] * w
      BY <1>1
    <3> HIDE DEF G
    <3> QED BY <1>6, <3>1
  <2> DEFINE P == {n \in Nat : n <= d => g[n] \in Nat}
  <2>2. 0 \in P
    BY <2>1
  <2>3. ASSUME NEW n \in Nat, n \in P PROVE n + 1 \in P
    <3> SUFFICES ASSUME n + 1 <= d PROVE g[n + 1] \in Nat
      OBVIOUS
    <3>1. g[n] \in Nat /\ g[n + 1] = g[n] * w
      BY <1>1, <2>1, <2>3
    <3> QED BY <1>1, <3>1
  <2>4. Nat \subseteq P
    <3> HIDE DEF P
    <3> QED BY <2>2, <2>3, Counting
  <2>5. \A k \in 0..d : g[k] \in Nat
    BY <1>1, <2>4
  <2>6. g = [k \in 0..d |-> g[k]]
    <3>1. g = [k \in DOMAIN g |-> g[k]]
      <4>1. G(g) = [k \in DOMAIN G(g) |-> G(g)[k]]
        OBVIOUS
      <4> HIDE DEF G
      <4> QED BY <1>6, <4>1
    <3> QED BY <2>1, <3>1
  <2> QED BY <2>1, <2>5, <2>6
<1>7. a = G(a)
  <2> HIDE DEF G
  <2> QED BY <1>5
<1> HIDE DEF a, G
<1>8. a \in [0..d -> Nat] /\ a[0] = 1 /\ \A k \in 1..d : a[k] = a[k - 1] * w
  BY <1>6, <1>7
<1>9. H \in [Nat -> [Nat -> Nat]] /\ \A k \in 1..d, n \in Nat : H[k][n] = n + a[k]
  BY <1>1, <1>8
<1> HIDE DEF H
<1>10. PICK h \in [0..d -> Nat] : h[0] = 0 /\ \A k \in 1..d : h[k] = H[k][h[k - 1]]
  <2> DEFINE r == 0
             V == Nat
  <2>1. r \in V /\ H \in [Nat -> [V -> V]]
    BY <1>9
  <2> HIDE DEF r, V
  <2>2. \E g \in [0..d -> V] : StepByStep(g, r, H, d)
    BY ONLY <2>1, <1>1, Recursion
  <2> QED BY <2>2 DEF r, V, StepByStep
<1>11. ASSUME NEW k \in 1..d PROVE h[k] = h[k - 1] + a[k]
  <2>1. h[k - 1] \in Nat
    BY <1>1, <1>10
  <2> QED BY <1>9, <1>10, <2>1
<1>12. h = K(h)
  BY <1>1, <1>10, <1>11
<1>13. ASSUME NEW g, g = K(g)
       PROVE  g \in [0..d -> Nat] /\ g[0] = 0 /\ \A k \in 1..d : g[k] = g[k - 1] + a[k]
  <2>1. DOMAIN g = 0..d /\ g[0] = 0 /\ \A k \in 1..d : g[k] = g[k - 1] + a[k]
    <3>1. DOMAIN K(g) = 0..d /\ K(g)[0] = 0 /\ \A k \in 1..d : K(g)[k] = g[k - 1] + a[k]
      BY <1>1
    <3> HIDE DEF K
    <3> QED BY <1>13, <3>1
  <2> DEFINE P == {n \in Nat : n <= d => g[n] \in Nat}
  <2>2. 0 \in P
    BY <2>1
  <2>3. ASSUME NEW n \in Nat, n \in P PROVE n + 1 \in P
    <3> SUFFICES ASSUME n + 1 <= d PROVE g[n + 1] \in Nat
      OBVIOUS
    <3>1. n + 1 \in 1..d /\ n + 1 \in 0..d /\ n <= d /\ (n + 1) - 1 = n
      BY <1>1
    <3>2. g[n] \in Nat
      BY <2>3, <3>1
    <3>3. g[n + 1] = g[n] + a[n + 1]
      <4> HIDE DEF d
      <4>1. g[n + 1] = g[(n + 1) - 1] + a[n + 1]
        BY <2>1, <3>1, Zenon
      <4> QED BY <3>1, <4>1
    <3>4. a[n + 1] \in Nat
      BY <1>8, <3>1
    <3> QED BY <3>2, <3>3, <3>4
  <2>4. Nat \subseteq P
    <3> HIDE DEF P
    <3> QED BY <2>2, <2>3, Counting
  <2>5. \A k \in 0..d : g[k] \in Nat
    BY <1>1, <2>4
  <2>6. g = [k \in 0..d |-> g[k]]
    <3>1. g = [k \in DOMAIN g |-> g[k]]
      <4>1. K(g) = [k \in DOMAIN K(g) |-> K(g)[k]]
        OBVIOUS
      <4> HIDE DEF K
      <4> QED BY <1>13, <4>1
    <3> QED BY <2>1, <3>1
  <2> QED BY <2>1, <2>5, <2>6
<1>14. b = K(b)
  <2> HIDE DEF K
  <2> QED BY <1>12
<1> HIDE DEF b, K
<1>15. b \in [0..d -> Nat] /\ b[0] = 0 /\ \A k \in 1..d : b[k] = b[k - 1] + a[k]
  BY <1>13, <1>14
<1> QED BY <1>0, <1>8, <1>15 DEF w, d

Built(m, k) == UNION {Batches(m)[i] : i \in 1..k}

LEMMA TaskRoots ==
  /\ TasksRoot \in Paths /\ Len(TasksRoot) = 2 /\ Home(TasksRoot) = Home(MetaRoot)
  /\ Parent(TasksRoot) = MetaRoot /\ Last(TasksRoot) = <<"tasks", 0>>
  /\ \A t \in Nat : /\ TaskRoot(t) \in Paths /\ Len(TaskRoot(t)) = 3
                    /\ Home(TaskRoot(t)) = Home(MetaRoot)
                    /\ Parent(TaskRoot(t)) = TasksRoot /\ Last(TaskRoot(t)) = <<"task", t>>
<1>1. <<"tasks", 0>> \in Names /\ \A t \in Nat : <<"task", t>> \in Names
  BY RootsArePaths
<1>2. /\ TasksRoot \in Paths /\ Len(TasksRoot) = 2 /\ Home(TasksRoot) = Home(MetaRoot)
      /\ Parent(TasksRoot) = MetaRoot /\ Last(TasksRoot) = <<"tasks", 0>>
  <2> DEFINE n == <<"tasks", 0>>
  <2>1. n \in Names /\ MetaRoot \in Paths /\ Len(MetaRoot) = 1
    BY <1>1, RootsArePaths
  <2> HIDE DEF n
  <2>2. /\ Append(MetaRoot, n) \in Paths /\ Len(Append(MetaRoot, n)) = Len(MetaRoot) + 1
        /\ Parent(Append(MetaRoot, n)) = MetaRoot /\ Last(Append(MetaRoot, n)) = n
        /\ Home(Append(MetaRoot, n)) = Home(MetaRoot)
    BY <2>1, Longer
  <2> QED BY <2>1, <2>2 DEF TasksRoot, n
<1>3. ASSUME NEW t \in Nat
      PROVE  /\ TaskRoot(t) \in Paths /\ Len(TaskRoot(t)) = 3
             /\ Home(TaskRoot(t)) = Home(MetaRoot)
             /\ Parent(TaskRoot(t)) = TasksRoot /\ Last(TaskRoot(t)) = <<"task", t>>
  <2> DEFINE n == <<"task", t>>
  <2>1. n \in Names
    BY <1>1
  <2> HIDE DEF n
  <2>2. /\ Append(TasksRoot, n) \in Paths /\ Len(Append(TasksRoot, n)) = Len(TasksRoot) + 1
        /\ Parent(Append(TasksRoot, n)) = TasksRoot /\ Last(Append(TasksRoot, n)) = n
        /\ Home(Append(TasksRoot, n)) = Home(TasksRoot)
    BY <1>2, <2>1, Longer
  <2> QED BY <1>2, <2>2 DEF TaskRoot, n
<1> QED BY <1>2, <1>3

(* What each batch holds: a layer, the files, the root of the tasks, the   *)
(* root of one task.                                                       *)
LEMMA BatchKinds ==
  ASSUME NEW m, GoodTree(m), NEW k \in 1..Len(Batches(m)), NEW p \in Batches(m)[k]
  PROVE  /\ p \in Paths /\ Len(p) > 1 /\ Home(p) = Home(MetaRoot)
         /\ \/ /\ k <= m.depth /\ Len(p) = k + 1 /\ Last(p)[1] = "dir"
               /\ Parent(p) = MetaRoot \/ (k > 1 /\ Parent(p) \in Batches(m)[k - 1])
            \/ /\ k = m.depth + 1 /\ Last(p)[1] = "file"
               /\ \E j \in 1..m.depth : Parent(p) \in Batches(m)[j]
            \/ k = m.depth + 2 /\ p = TasksRoot
            \/ k > m.depth + 2 /\ p = TaskRoot(k - (m.depth + 2))
<1> DEFINE d == m.depth
           c == m.concurrency
<1>1. d \in Nat \ {0} /\ c \in Nat \ {0} /\ k \in 1..(d + 2 + c)
  BY BatchesAre DEF GoodTree
<1>2. CASE k <= d
  <2>1. k \in 1..d /\ p \in Layers(m)[k]
    BY <1>1, <1>2, BatchesAre
  <2>2. /\ p \in Paths /\ Len(p) = k + 1 /\ Home(p) = Home(MetaRoot)
        /\ Parent(p) \in Layers(m)[k - 1] /\ Last(p)[1] = "dir"
    BY <1>1, <2>1, LayerPaths
  <2>3. CASE k = 1
    BY <1>1, <2>2, <2>3, <1>2, LayerPaths
  <2>4. CASE k > 1
    <3>1. k - 1 \in 1..d
      BY <1>1, <1>2, <2>4
    <3>2. Layers(m)[k - 1] = Batches(m)[k - 1]
      BY <3>1, BatchesAre
    <3> QED BY <1>1, <1>2, <2>2, <2>4, <3>2
  <2> QED BY <2>1, <2>3, <2>4
<1>3. CASE k = d + 1
  <2>1. p \in Files(m)
    BY <1>3, BatchesAre
  <2>2. PICK q \in Directories(m), i \in 1..m.files : p = Append(q, <<"file", i>>)
    BY <2>1 DEF Files
  <2>3. PICK j \in 1..d : q \in Layers(m)[j]
    BY <2>2 DEF Directories
  <2>4. q \in Paths /\ Home(q) = Home(MetaRoot) /\ Len(q) = j + 1
    BY <1>1, <2>3, LayerPaths
  <2>5. <<"file", i>> \in Names
    BY RootsArePaths DEF GoodTree
  <2>6. /\ p \in Paths /\ Len(p) = j + 2 /\ Home(p) = Home(MetaRoot) /\ Parent(p) = q
        /\ Last(p) = <<"file", i>>
    BY <2>2, <2>4, <2>5, Longer
  <2>7. q \in Batches(m)[j]
    BY <2>3, BatchesAre
  <2> QED BY <1>3, <2>6, <2>7
<1>4. CASE k = d + 2
  <2>1. p = TasksRoot
    BY <1>4, BatchesAre
  <2> QED BY <1>4, <2>1, TaskRoots
<1>5. CASE k > d + 2
  <2> DEFINE t == k - (d + 2)
  <2>1. t \in 1..c /\ k = d + 2 + t /\ t \in Nat
    <3> HIDE DEF d, c
    <3> QED BY <1>1, <1>5
  <2>2. Batches(m)[d + 2 + t] = {TaskRoot(t)}
    BY <2>1, BatchesAre
  <2>3. p = TaskRoot(t)
    BY <2>1, <2>2
  <2>4. p \in Paths /\ Len(p) = 3 /\ Home(p) = Home(MetaRoot)
    BY <2>1, <2>3, TaskRoots
  <2>5. Len(p) > 1
    BY <2>4
  <2>6. k > m.depth + 2 /\ p = TaskRoot(k - (m.depth + 2))
    BY <1>5, <2>3
  <2> QED BY <2>4, <2>5, <2>6
<1> QED BY <1>1, <1>2, <1>3, <1>4, <1>5

(* An operation of a batch has its parent before, and makes what no        *)
(* earlier batch has made.                                                 *)
LEMMA InBatch ==
  ASSUME NEW m, GoodTree(m), NEW k \in 1..Len(Batches(m)), NEW p \in Batches(m)[k]
  PROVE  /\ p \in Paths /\ Len(p) > 1 /\ Home(p) = Home(MetaRoot)
         /\ Parent(p) \in {MetaRoot} \cup Built(m, k - 1)
         /\ IsDir(Parent(p)) /\ Last(Parent(p))[1] # "task"
         /\ IsDir(p) => p \notin {MetaRoot} \cup Built(m, k - 1)
<1> DEFINE d == m.depth
<1>1. d \in Nat \ {0} /\ Len(Batches(m)) = d + 2 + m.concurrency /\ m.concurrency \in Nat
      /\ k \in Nat /\ k > 0
  BY BatchesAre DEF GoodTree
<1>2. p \in Paths /\ Len(p) > 1 /\ Home(p) = Home(MetaRoot)
  BY BatchKinds
<1>a. ASSUME NEW i \in 1..Len(Batches(m)), NEW q \in Batches(m)[i]
      PROVE  /\ i \in Nat
             /\ i <= d + 1 => Last(q)[1] \in {"dir", "file"}
             /\ i = d + 1 => Last(q)[1] = "file"
             /\ i = d + 2 => q = TasksRoot /\ Last(q) = <<"tasks", 0>>
             /\ i > d + 2 => q = TaskRoot(i - (d + 2)) /\ Last(q) = <<"task", i - (d + 2)>>
  <2>1. \/ i <= d /\ Last(q)[1] = "dir"
        \/ i = d + 1 /\ Last(q)[1] = "file"
        \/ i = d + 2 /\ q = TasksRoot
        \/ i > d + 2 /\ q = TaskRoot(i - (d + 2))
    BY <1>a, BatchKinds
  <2>2. Last(TasksRoot) = <<"tasks", 0>>
    BY TaskRoots
  <2>3. i > d + 2 => Last(TaskRoot(i - (d + 2))) = <<"task", i - (d + 2)>>
    <3> SUFFICES ASSUME i > d + 2 PROVE Last(TaskRoot(i - (d + 2))) = <<"task", i - (d + 2)>>
      OBVIOUS
    <3>1. i - (d + 2) \in Nat
      BY <1>1
    <3> QED BY <3>1, TaskRoots
  <2>4. i \in Nat /\ d \in Nat
    BY <1>1
  <2> HIDE DEF d
  <2>5. i <= d + 1 => Last(q)[1] \in {"dir", "file"}
    BY <2>1, <2>4
  <2>6. i = d + 1 => Last(q)[1] = "file"
    BY <2>1, <2>4
  <2>7. i = d + 2 => q = TasksRoot
    BY <2>1, <2>4
  <2>8. i > d + 2 => q = TaskRoot(i - (d + 2))
    BY <2>1, <2>4
  <2> QED BY <2>2, <2>3, <2>4, <2>5, <2>6, <2>7, <2>8
<1>3. Last(MetaRoot)[1] = "root" /\ IsDir(MetaRoot) /\ Len(MetaRoot) = 1
  BY RootsArePaths DEF MetaRoot, Last
<1>4. ASSUME NEW j \in 1..d, NEW q \in Batches(m)[j]
      PROVE  Len(q) = j + 1 /\ Last(q)[1] = "dir" /\ IsDir(q)
  <2>1. j \in 1..Len(Batches(m)) /\ j # d + 1 /\ j # d + 2 /\ ~(j > d + 2)
    BY <1>1
  <2>2. Len(q) = j + 1 /\ Last(q)[1] = "dir"
    BY <1>4, <2>1, BatchKinds
  <2> QED BY <2>2 DEF IsDir, DirKinds
<1>5. ASSUME NEW q \in Built(m, k - 1)
      PROVE  \E j \in 1..Len(Batches(m)) : j < k /\ q \in Batches(m)[j]
  <2>1. PICK j \in 1..(k - 1) : q \in Batches(m)[j]
    BY DEF Built
  <2> QED BY <1>1, <2>1
<1>b. \/ k <= d /\ (Parent(p) = MetaRoot \/ (k > 1 /\ Parent(p) \in Batches(m)[k - 1]))
      \/ k = d + 1 /\ \E j \in 1..d : Parent(p) \in Batches(m)[j]
      \/ k = d + 2 /\ p = TasksRoot
      \/ k > d + 2 /\ p = TaskRoot(k - (d + 2))
  BY BatchKinds, Zenon
<1>c. d \in Nat /\ k \in Nat
  BY <1>1
<1>6. Parent(p) \in {MetaRoot} \cup Built(m, k - 1) /\ IsDir(Parent(p)) /\ Last(Parent(p))[1] # "task"
  <2> HIDE DEF d
  <2>1. CASE k <= d
    <3>1. CASE Parent(p) = MetaRoot
      BY <1>3, <3>1
    <3>2. CASE Parent(p) # MetaRoot
      <4>1. k > 1 /\ Parent(p) \in Batches(m)[k - 1]
        BY <1>b, <1>c, <2>1, <3>2
      <4>2. k - 1 \in 1..d
        BY <1>1, <2>1, <4>1
      <4>3. IsDir(Parent(p)) /\ Last(Parent(p))[1] = "dir"
        BY <1>4, <4>1, <4>2
      <4>4. Parent(p) \in Built(m, k - 1)
        BY <4>1, <4>2 DEF Built
      <4> QED BY <4>3, <4>4
    <3> QED BY <3>1, <3>2
  <2>2. CASE k = d + 1
    <3>1. PICK j \in 1..d : Parent(p) \in Batches(m)[j]
      BY <1>b, <1>c, <2>2
    <3>2. Parent(p) \in Built(m, k - 1)
      BY <1>1, <2>2, <3>1 DEF Built
    <3>3. IsDir(Parent(p)) /\ Last(Parent(p))[1] = "dir"
      BY <1>4, <3>1
    <3> QED BY <3>2, <3>3
  <2>3. CASE k = d + 2
    <3>1. p = TasksRoot
      BY <1>b, <1>c, <2>3
    <3> QED BY <1>3, <3>1, TaskRoots
  <2>4. CASE k > d + 2
    <3>1. p = TaskRoot(k - (d + 2)) /\ k - (d + 2) \in Nat
      BY <1>b, <1>c, <2>4
    <3>2. Parent(p) = TasksRoot
      BY <3>1, TaskRoots
    <3>3. d + 2 \in 1..(k - 1) /\ TasksRoot \in Batches(m)[d + 2]
      <4>1. d + 2 \in 1..(k - 1)
        BY <1>c, <2>4
      <4>2. TasksRoot \in Batches(m)[d + 2]
        BY BatchesAre DEF d
      <4> QED BY <4>1, <4>2
    <3>4. TasksRoot \in Built(m, k - 1)
      BY <3>3 DEF Built
    <3>5. IsDir(TasksRoot) /\ Last(TasksRoot)[1] = "tasks"
      BY TaskRoots DEF IsDir, DirKinds
    <3> QED BY <3>2, <3>4, <3>5
  <2> QED BY <1>1, <2>1, <2>2, <2>3, <2>4
<1>7. ASSUME IsDir(p), NEW q \in Built(m, k - 1) PROVE p # q
  <2>1. PICK j \in 1..Len(Batches(m)) : j < k /\ q \in Batches(m)[j]
    BY <1>5, <1>7
  <2>2. CASE k <= d
    <3>1. j \in 1..d /\ k \in 1..d
      BY <1>1, <2>1, <2>2
    <3>2. Len(q) = j + 1 /\ Len(p) = k + 1
      BY <1>4, <2>1, <3>1
    <3> QED BY <1>1, <2>1, <3>2
  <2>3. k # d + 1
    <3> SUFFICES ASSUME k = d + 1 PROVE FALSE
      OBVIOUS
    <3>1. Last(p)[1] = "file"
      BY <1>a
    <3> QED BY <1>7, <3>1 DEF IsDir, DirKinds
  <2>4. CASE k >= d + 2
    <3>1. Last(p) = IF k = d + 2 THEN <<"tasks", 0>> ELSE <<"task", k - (d + 2)>>
      <4>1. CASE k = d + 2
        BY <1>a, <4>1
      <4>2. CASE k > d + 2
        <5>1. k # d + 2
          BY <1>1, <4>2
        <5> QED BY <1>a, <4>2, <5>1
      <4> QED BY <1>1, <2>4, <4>1, <4>2
    <3>2. CASE j <= d + 1
      <4>1. Last(q)[1] \in {"dir", "file"}
        BY <1>a, <2>1, <3>2
      <4> QED BY <3>1, <4>1
    <3>3. CASE j = d + 2
      <4>1. Last(q) = <<"tasks", 0>>
        BY <1>a, <2>1, <3>3
      <4>2. Last(p) = <<"task", k - (d + 2)>>
        BY <1>1, <2>1, <3>1, <3>3
      <4> QED BY <4>1, <4>2
    <3>4. CASE j > d + 2
      <4>1. Last(q) = <<"task", j - (d + 2)>>
        BY <1>a, <2>1, <3>4
      <4>2. Last(p) = <<"task", k - (d + 2)>> /\ k - (d + 2) # j - (d + 2)
        BY <1>1, <2>1, <3>1, <3>4
      <4> QED BY <4>1, <4>2
    <3> QED BY <1>1, <3>2, <3>3, <3>4
  <2> QED BY <1>1, <2>2, <2>3, <2>4
<1>8. p # MetaRoot
  <2>1. Len(p) # 1
    BY <1>2
  <2> QED BY <1>3, <2>1
<1> QED BY <1>2, <1>6, <1>7, <1>8

(* The batches are built one upon the other, and together are the layout.  *)
LEMMA BuiltAre ==
  ASSUME NEW m, GoodTree(m)
  PROVE  /\ Built(m, 0) = {}
         /\ \A k \in 1..Len(Batches(m)) : Built(m, k) = Built(m, k - 1) \cup Batches(m)[k]
         /\ Built(m, Len(Batches(m))) = Layout(m)
         /\ \A k \in 0..Len(Batches(m)) : Built(m, k) \subseteq Layout(m)
         /\ Len(Batches(m)) \in Nat \ {0}
<1>1. Len(Batches(m)) \in Nat \ {0}
  BY BatchesAre DEF GoodTree
<1>2. \A k \in 1..Len(Batches(m)) : Built(m, k) = Built(m, k - 1) \cup Batches(m)[k]
  <2> TAKE k \in 1..Len(Batches(m))
  <2>1. \A i \in 1..k : i = k \/ i \in 1..(k - 1)
    BY <1>1
  <2>2. k \in 1..k /\ \A i \in 1..(k - 1) : i \in 1..k
    BY <1>1
  <2> QED BY <2>1, <2>2 DEF Built
<1>3. Built(m, Len(Batches(m))) = Layout(m)
  BY DEF Built, Layout
<1>4. \A k \in 0..Len(Batches(m)) : Built(m, k) \subseteq Layout(m)
  <2> TAKE k \in 0..Len(Batches(m))
  <2>1. 1..k \subseteq 1..Len(Batches(m))
    BY <1>1
  <2> QED BY <2>1 DEF Built, Layout
<1>5. Built(m, 0) = {}
  BY DEF Built
<1> QED BY <1>1, <1>2, <1>3, <1>4, <1>5

(* Nothing of the layout lies below the root of a task; there is a         *)
(* directory, and a file where one is needed.                              *)
LEMMA LayoutIs ==
  ASSUME NEW m, GoodTree(m)
  PROVE  /\ \A p \in Layout(m) : /\ p \in Paths /\ Len(p) > 1 /\ Home(p) = Home(MetaRoot)
                                 /\ IsDir(Parent(p)) /\ \A t \in Nat : Parent(p) # TaskRoot(t)
         /\ Directories(m) \cup Files(m) \subseteq Layout(m)
         /\ \A p \in Directories(m) : IsDir(p)
         /\ \A p \in Files(m) : ~IsDir(p)
         /\ Directories(m) # {}
         /\ NeedsFiles(m) => Files(m) # {}
         /\ \A t \in 1..m.concurrency : TaskRoot(t) \in Layout(m)
<1> DEFINE d == m.depth
           c == m.concurrency
<1>1. d \in Nat \ {0} /\ c \in Nat \ {0} /\ Len(Batches(m)) = d + 2 + c
      /\ m.width \in Nat \ {0} /\ m.files \in Nat
  BY BatchesAre DEF GoodTree
<1>2. ASSUME NEW p \in Layout(m)
      PROVE  /\ p \in Paths /\ Len(p) > 1 /\ Home(p) = Home(MetaRoot)
             /\ IsDir(Parent(p)) /\ \A t \in Nat : Parent(p) # TaskRoot(t)
  <2>1. PICK k \in 1..Len(Batches(m)) : p \in Batches(m)[k]
    BY <1>2 DEF Layout
  <2>2. /\ p \in Paths /\ Len(p) > 1 /\ Home(p) = Home(MetaRoot)
        /\ IsDir(Parent(p)) /\ Last(Parent(p))[1] # "task"
    BY <2>1, InBatch
  <2>3. \A t \in Nat : Last(TaskRoot(t))[1] = "task"
    BY TaskRoots
  <2> QED BY <2>2, <2>3
<1>3. ASSUME NEW p \in Directories(m) PROVE p \in Layout(m) /\ IsDir(p)
  <2>1. PICK k \in 1..d : p \in Layers(m)[k]
    BY <1>3 DEF Directories
  <2>2. k \in 1..Len(Batches(m)) /\ p \in Batches(m)[k]
    BY <1>1, <2>1, BatchesAre
  <2>3. k \in 0..d
    BY <1>1
  <2> QED BY <2>1, <2>2, <2>3, LayerPaths DEF Layout
<1>4. ASSUME NEW p \in Files(m) PROVE p \in Layout(m) /\ ~IsDir(p)
  <2>1. d + 1 \in 1..Len(Batches(m)) /\ p \in Batches(m)[d + 1]
    BY <1>1, <1>4, BatchesAre
  <2>2. Last(p)[1] = "file"
    <3> DEFINE k == d + 1
    <3>1. k \in 1..Len(Batches(m)) /\ p \in Batches(m)[k]
      BY <2>1
    <3>2. ~(k <= d) /\ k # d + 2 /\ ~(k > d + 2)
      BY <1>1
    <3> HIDE DEF k
    <3>3. \/ k <= d
          \/ Last(p)[1] = "file"
          \/ k = d + 2 \/ k > d + 2
      BY <3>1, BatchKinds
    <3> QED BY <3>2, <3>3
  <2> QED BY <2>1, <2>2 DEF Layout, IsDir, DirKinds
<1>5. Append(MetaRoot, <<"dir", 1>>) \in Directories(m)
  <2>1. 1 \in 1..d /\ 1 \in 1..m.width /\ 1 - 1 = 0
    BY <1>1
  <2>2. Layers(m)[1] = NextLayer(Layers(m)[0], m.width) /\ Layers(m)[0] = {MetaRoot}
    BY <2>1, LayerPaths
  <2>3. Append(MetaRoot, <<"dir", 1>>) \in Layers(m)[1]
    BY <2>1, <2>2 DEF NextLayer
  <2> QED BY <2>1, <2>3 DEF Directories
<1>6. ASSUME NeedsFiles(m) PROVE Files(m) # {}
  <2>1. m.files > 0
    BY <1>6 DEF GoodTree
  <2>2. 1 \in 1..m.files
    BY <1>1, <2>1
  <2> DEFINE D == Append(MetaRoot, <<"dir", 1>>)
  <2>3. D \in Directories(m)
    BY <1>5
  <2> DEFINE I == 1..m.files
             S == Directories(m)
             F == {Append(p, <<"file", i>>) : p \in S, i \in I}
  <2>4. D \in S /\ 1 \in I
    BY <2>2, <2>3
  <2>5. F = Files(m)
    BY DEF Files
  <2> HIDE DEF D, I, S
  <2>6. Append(D, <<"file", 1>>) \in F
    BY <2>4
  <2> HIDE DEF F
  <2> QED BY <2>5, <2>6
<1>7. ASSUME NEW t \in 1..c PROVE TaskRoot(t) \in Layout(m)
  <2>1. d + 2 + t \in 1..Len(Batches(m))
    BY <1>1
  <2>2. \A u \in 1..m.concurrency : Batches(m)[m.depth + 2 + u] = {TaskRoot(u)}
    BY BatchesAre
  <2>3. Batches(m)[d + 2 + t] = {TaskRoot(t)}
    BY <2>2
  <2>4. TaskRoot(t) \in Batches(m)[d + 2 + t]
    BY <2>3
  <2> QED BY <2>1, <2>4 DEF Layout
<1> QED BY <1>2, <1>3, <1>4, <1>5, <1>6, <1>7

(* How large it is.                                                        *)
Extended(S, kind, n) == {Append(p, <<kind, i>>) : p \in S, i \in 1..n}

LEMMA Extensions ==
  ASSUME NEW S \in SUBSET Paths, IsFiniteSet(S), NEW n \in Nat, NEW kind \in {"dir", "file"}
  PROVE  /\ IsFiniteSet(Extended(S, kind, n))
         /\ Cardinality(Extended(S, kind, n)) = Cardinality(S) * n
<1> DEFINE T == Extended(S, kind, n)
           I == 1..n
           f == [x \in S \X I |-> Append(x[1], <<kind, x[2]>>)]
<1>1. IsFiniteSet(I) /\ Cardinality(I) = n
  BY FS_Interval
<1>2. IsFiniteSet(S \X I) /\ Cardinality(S \X I) = Cardinality(S) * n
  <2> HIDE DEF I
  <2> QED BY <1>1, FS_Product
<1>3. ASSUME NEW p \in S, NEW i \in I
      PROVE  /\ <<kind, i>> \in Names
             /\ Parent(Append(p, <<kind, i>>)) = p /\ Last(Append(p, <<kind, i>>)) = <<kind, i>>
  <2> DEFINE x == <<kind, i>>
  <2>1. x \in Names /\ p \in Paths
    BY RootsArePaths
  <2> HIDE DEF x
  <2>2. Parent(Append(p, x)) = p /\ Last(Append(p, x)) = x
    BY <2>1, Longer
  <2> QED BY <2>1, <2>2 DEF x
<1>4. T = {Append(p, <<kind, i>>) : p \in S, i \in I}
  BY DEF Extended
<1> HIDE DEF T, I
<1>5. f \in [S \X I -> T]
  <2> SUFFICES ASSUME NEW x \in S \X I PROVE Append(x[1], <<kind, x[2]>>) \in T
    OBVIOUS
  <2>1. x[1] \in S /\ x[2] \in I
    OBVIOUS
  <2> QED BY <1>4, <2>1
<1>6. \A t \in T : \E x \in S \X I : f[x] = t
  <2> TAKE t \in T
  <2>1. PICK p \in S, i \in I : t = Append(p, <<kind, i>>)
    BY <1>4
  <2>2. <<p, i>> \in S \X I /\ f[<<p, i>>] = t
    BY <2>1
  <2> QED BY <2>2
<1>7. \A x, y \in S \X I : f[x] = f[y] => x = y
  <2> SUFFICES ASSUME NEW x \in S \X I, NEW y \in S \X I, f[x] = f[y] PROVE x = y
    OBVIOUS
  <2>1. PICK p \in S, i \in I : x = <<p, i>>
    OBVIOUS
  <2>2. PICK q \in S, j \in I : y = <<q, j>>
    OBVIOUS
  <2>3. f[x] = Append(p, <<kind, i>>) /\ f[y] = Append(q, <<kind, j>>)
    BY <2>1, <2>2
  <2> HIDE DEF f
  <2>4. p = q /\ <<kind, i>> = <<kind, j>>
    <3>1. Parent(f[x]) = p /\ Last(f[x]) = <<kind, i>>
      BY <1>3, <2>3
    <3>2. Parent(f[y]) = q /\ Last(f[y]) = <<kind, j>>
      BY <1>3, <2>3
    <3> QED BY <2>3, <3>1, <3>2
  <2> QED BY <2>1, <2>2, <2>4
<1> HIDE DEF f
<1>8. ExistsBijection(S \X I, T)
  <2> DEFINE X == S \X I
  <2>1. f \in [X -> T] /\ DOMAIN f = X
    BY <1>5
  <2>2. \A t \in T : \E x \in X : f[x] = t
    BY <1>6
  <2>3. \A x, y \in X : f[x] = f[y] => x = y
    BY <1>7
  <2> HIDE DEF X
  <2>4. f \in Injection(X, T)
    BY <2>1, <2>3 DEF Injection, IsInjective
  <2>5. f \in Surjection(X, T)
    BY <2>1, <2>2 DEF Surjection
  <2>6. ExistsBijection(X, T)
    BY <2>4, <2>5 DEF ExistsBijection, Bijection
  <2> QED BY <2>6 DEF X
<1>9. IsFiniteSet(T) /\ Cardinality(T) = Cardinality(S \X I)
  BY <1>2, <1>8, FS_Bijection
<1> QED BY <1>2, <1>9 DEF T

(* The checks of the caps count what the layout makes.                     *)
LEMMA LayoutSizes ==
  ASSUME NEW m, GoodTree(m)
  PROVE  /\ Cardinality(Directories(m)) = TotalDirs(m)
         /\ Cardinality(Files(m)) = TotalDirs(m) * m.files
         /\ \A k \in 0..m.depth : IsFiniteSet(Layers(m)[k])
         /\ \A k \in 1..Len(Batches(m)) : IsFiniteSet(Batches(m)[k])
<1> DEFINE d == m.depth
           w == m.width
           L == Layers(m)
<1>1. d \in Nat /\ w \in Nat /\ m.files \in Nat
  BY DEF GoodTree
<1>2. PICK layer \in [0..d -> Nat], sum \in [0..d -> Nat] :
        /\ layer[0] = 1 /\ sum[0] = 0
        /\ \A k \in 1..d : /\ layer[k] = layer[k - 1] * w
                           /\ sum[k] = sum[k - 1] + layer[k]
        /\ TotalDirs(m) = sum[d]
  BY <1>1, SizesAre
<1>3. /\ L[0] = {MetaRoot}
      /\ \A k \in 1..d : L[k] = NextLayer(L[k - 1], w)
      /\ \A k \in 0..d : \A p \in L[k] : p \in Paths /\ Len(p) = k + 1
  BY LayerPaths
<1> HIDE DEF d, w, L
<1> DEFINE U(k)   == UNION {L[i] : i \in 1..k}
           Fit(k) == /\ IsFiniteSet(L[k]) /\ Cardinality(L[k]) = layer[k]
                     /\ IsFiniteSet(U(k)) /\ Cardinality(U(k)) = sum[k]
           P == {k \in Nat : k <= d => Fit(k)}
<1>4. 0 \in P
  <2>1. IsFiniteSet(L[0]) /\ Cardinality(L[0]) = 1
    BY <1>3, FS_Singleton
  <2>2. U(0) = {}
    OBVIOUS
  <2> HIDE DEF U
  <2>3. Fit(0)
    BY <1>2, <2>1, <2>2, FS_EmptySet
  <2> QED BY <2>3
<1>5. ASSUME NEW k \in Nat, k \in P PROVE k + 1 \in P
  <2> SUFFICES ASSUME k + 1 <= d PROVE Fit(k + 1)
    OBVIOUS
  <2>1. Fit(k) /\ k + 1 \in 1..d /\ (k + 1) - 1 = k /\ k \in 0..d /\ k + 1 \in 0..d
    BY <1>1, <1>5
  <2> HIDE DEF P
  <2>2. L[k + 1] = Extended(L[k], "dir", w)
    <3>1. L[k + 1] = NextLayer(L[k], w)
      BY <1>3, <2>1
    <3> QED BY <3>1 DEF NextLayer, Extended
  <2>3. L[k] \in SUBSET Paths
    BY <1>3, <2>1
  <2>4. IsFiniteSet(L[k + 1]) /\ Cardinality(L[k + 1]) = Cardinality(L[k]) * w
    <3>1. IsFiniteSet(L[k])
      BY <2>1
    <3>2. "dir" \in {"dir", "file"}
      OBVIOUS
    <3> QED BY <1>1, <2>2, <2>3, <3>1, <3>2, Extensions
  <2>5. Cardinality(L[k + 1]) = layer[k + 1]
    BY <1>2, <2>1, <2>4
  <2>6. U(k + 1) = U(k) \cup L[k + 1]
    <3>1. \A i \in 1..(k + 1) : i = k + 1 \/ i \in 1..k
      OBVIOUS
    <3>2. k + 1 \in 1..(k + 1) /\ \A i \in 1..k : i \in 1..(k + 1)
      OBVIOUS
    <3> QED BY <3>1, <3>2
  <2>7. U(k) \cap L[k + 1] = {}
    <3> SUFFICES ASSUME NEW i \in 1..k, NEW p \in L[i], p \in L[k + 1] PROVE FALSE
      OBVIOUS
    <3>1. i \in 0..d
      BY <1>1, <2>1
    <3>2. Len(p) = i + 1 /\ Len(p) = k + 2
      BY <1>3, <2>1, <3>1
    <3> QED BY <3>2
  <2>8. IsFiniteSet(U(k)) /\ Cardinality(U(k)) = sum[k]
    BY <2>1
  <2> HIDE DEF U
  <2>9. /\ IsFiniteSet(U(k + 1))
        /\ Cardinality(U(k + 1)) = sum[k] + Cardinality(L[k + 1])
    <3>1. Cardinality({}) = 0
      BY FS_EmptySet
    <3>2. /\ IsFiniteSet(U(k) \cup L[k + 1])
          /\ Cardinality(U(k) \cup L[k + 1]) = Cardinality(U(k)) + Cardinality(L[k + 1])
                                                  - Cardinality(U(k) \cap L[k + 1])
      BY <2>4, <2>8, FS_Union
    <3>3. Cardinality(U(k)) \in Nat /\ Cardinality(L[k + 1]) \in Nat
      BY <2>4, <2>8, FS_CardinalityType
    <3>4. Cardinality(U(k) \cap L[k + 1]) = 0
      BY <2>7, <3>1
    <3>5. IsFiniteSet(U(k + 1)) /\ Cardinality(U(k + 1)) = Cardinality(U(k) \cup L[k + 1])
      BY <2>6, <3>2
    <3>6. Cardinality(U(k) \cup L[k + 1]) = Cardinality(U(k)) + Cardinality(L[k + 1])
      BY <3>2, <3>3, <3>4
    <3> QED BY <2>8, <3>5, <3>6
  <2>10. sum[k + 1] = sum[k] + layer[k + 1]
    BY <1>2, <2>1
  <2> QED BY <2>4, <2>5, <2>9, <2>10
<1>6. Nat \subseteq P
  <2> HIDE DEF P
  <2> QED BY <1>4, <1>5, Counting
<1>7. \A k \in 0..d : Fit(k)
  <2> HIDE DEF Fit
  <2> QED BY <1>1, <1>6
<1>8. Directories(m) = U(d)
  BY DEF Directories, L, d
<1>9. Cardinality(Directories(m)) = TotalDirs(m) /\ IsFiniteSet(Directories(m))
  <2>1. d \in 0..d
    BY <1>1
  <2> HIDE DEF U
  <2> QED BY <1>2, <1>7, <1>8, <2>1
<1>10. IsFiniteSet(Files(m)) /\ Cardinality(Files(m)) = TotalDirs(m) * m.files
  <2>1. Files(m) = Extended(Directories(m), "file", m.files)
    BY DEF Files, Extended
  <2>2. Directories(m) \in SUBSET Paths
    BY LayoutIs
  <2>3. "file" \in {"dir", "file"}
    OBVIOUS
  <2> QED BY <1>1, <1>9, <2>1, <2>2, <2>3, Extensions
<1>11. ASSUME NEW k \in 1..Len(Batches(m)) PROVE IsFiniteSet(Batches(m)[k])
  <2>0. m.concurrency \in Nat /\ k \in 1..(d + 2 + m.concurrency)
    BY BatchesAre DEF GoodTree, d
  <2>1. CASE k <= d
    <3>1. k \in 1..d /\ k \in 0..d
      BY <1>1, <2>0, <2>1
    <3>2. Batches(m)[k] = L[k]
      BY <3>1, BatchesAre DEF L, d
    <3> QED BY <1>7, <3>1, <3>2
  <2>2. CASE k = d + 1
    <3>1. Batches(m)[k] = Files(m)
      BY <2>2, BatchesAre DEF d
    <3> QED BY <1>10, <3>1
  <2>3. CASE k = d + 2
    <3>1. Batches(m)[k] = {TasksRoot}
      BY <2>3, BatchesAre DEF d
    <3> QED BY <3>1, FS_Singleton
  <2>4. CASE k > d + 2
    <3> DEFINE t == k - (d + 2)
    <3>1. t \in 1..m.concurrency /\ k = d + 2 + t
      BY <1>1, <2>0, <2>4
    <3> HIDE DEF t
    <3>2. Batches(m)[d + 2 + t] = {TaskRoot(t)}
      BY <3>1, BatchesAre DEF d
    <3> QED BY <3>1, <3>2, FS_Singleton
  <2> QED BY <1>1, <2>0, <2>1, <2>2, <2>3, <2>4
<1>12. \A k \in 0..d : IsFiniteSet(L[k])
  BY <1>7
<1> QED BY <1>9, <1>10, <1>11, <1>12 DEF d, L

-----------------------------------------------------------------------------
(* The invariant.                                                          *)

At(root) == {p \in tree : Home(p) = Home(root)}
Working  == pc \in {"run", "sweep", "report"}
Places   == {"idle", "fetch", "write_root", "build", "scan", "layout", "scanning", "client",
             "prepare_failed", "ready", "run", "sweep", "report", "over"}

(* What is stored and what the worker makes of it.                         *)
RecordOK ==
  /\ pc = "idle" <=> record = NoSection
  /\ pc # "idle" =>
       \E p \in Protos :
         Accepts(p) /\ record = [spec |-> Stored(p), credentials |-> Credentials(p)]
  /\ job = NoSection \/ (pc # "idle" /\ job = FromProto(record.spec))
  /\ pc \notin {"idle", "fetch"} => job # NoSection
  /\ rounds \in 0..MaxRounds /\ faults \in 0..MaxFaults
  /\ hit \in BOOLEAN /\ leftover \in BOOLEAN

(* Where the worker is, and what it keeps there.                           *)
TaskStates   == {"on", "over", "failed"}
Ended(tasks) == \A t \in DOMAIN tasks : tasks[t] \in {"over", "failed"}

PhaseOK ==
  /\ pc \in Places
  /\ pc \in {"build", "layout"} => Meta = "build"
  /\ pc \in {"scan", "scanning"} => Meta = "scan"
  /\ pc = "client" => HasConsistency(job)
  /\ pc # "layout" => batch = 0 /\ todo = {} /\ flying = {}
  /\ ~Working => writers = NoTasks /\ statters = NoTasks /\ made = NoTasks /\ writeRunner = "off"
  /\ Working =>
       /\ writers \in [Writers -> TaskStates] /\ statters \in [Statters -> TaskStates]
       /\ made \in [Statters -> 0..MaxNew]
       /\ writeRunner \in {"on", "sweep", "over"}
       /\ writeRunner \in {"on", "sweep"} => pc = "run" /\ Writes
       /\ writeRunner = "sweep" => job.write.cleanup
       /\ writeRunner \in {"sweep", "over"} => Ended(writers)
       /\ pc # "run" => Ended(statters)

RootOK ==
  /\ pc \in {"build", "scan", "layout", "scanning", "client", "ready"} /\ Writes => WRoot \in tree
  /\ pc = "run" /\ writeRunner = "on" => WRoot \in tree

(* The trees are apart, and what is scanned stays.                         *)
TreeOK ==
  /\ IsTree(tree)
  /\ \A p \in tree : Home(p) \in {Home(WriteRoot), Home(MetaRoot), Home(ScanRoot)}
  /\ At(ScanRoot) = Existing
  /\ job = NoSection \/ Meta # "build" => At(MetaRoot) = {}

(* Operations nobody waits for: those of this preparation, which has       *)
(* failed, or of an earlier one.                                           *)
OrphansOK ==
  orphans # {} =>
    /\ pc # "idle" /\ job # NoSection /\ Meta = "build" /\ orphans \subseteq Layout(job.metadata)
    /\ leftover \/ pc = "prepare_failed"

(* The making of a tree: what is done is there, and nothing else is.       *)
Done(k, waiting) ==
  Built(job.metadata, k - 1) \cup (Batches(job.metadata)[k] \ waiting)

MakingOK ==
  pc = "layout" =>
    /\ batch \in 1..Len(Batches(job.metadata))
    /\ todo \cup flying \subseteq Batches(job.metadata)[batch] /\ todo \cap flying = {}
    /\ IsFiniteSet(flying) /\ Cardinality(flying) <= job.metadata.layoutConcurrency
    /\ Done(batch, todo \cup flying) \cup {MetaRoot} \subseteq tree
    /\ ~leftover => At(MetaRoot) \subseteq Done(batch, todo \cup flying) \cup {MetaRoot}
    /\ \A t \in 1..job.metadata.concurrency :
         TaskRoot(t) \in Done(batch, todo \cup flying) => Children(TaskRoot(t)) = {}

FreshOK ==
  pc \in {"fetch", "write_root", "build"} /\ ~leftover => At(MetaRoot) \subseteq {MetaRoot}

(* The tree that has been made, and what the tasks add to it.              *)
BuiltOK ==
  /\ pc \in {"client", "ready"} \/ (pc = "run" /\ ~SharedDir) =>
       (Meta = "build" => Layout(job.metadata) \subseteq tree)
  /\ pc \in {"client", "ready"} /\ Meta = "build" =>
       \A t \in 1..job.metadata.concurrency : Children(TaskRoot(t)) = {}
  /\ pc = "run" /\ Meta = "build" =>
       \A t \in DOMAIN made : \A p \in Children(TaskRoot(t)) :
         Last(p)[1] = "mkdir" => Last(p)[2] <= made[t]

(* The scan of a tree: what is found, and what is still to be looked at.   *)
Ready == pc \in {"client", "ready"} \/ Working

Pending(q) == \E i \in DOMAIN scan.stack : scan.stack[i] = q

ScanOK ==
  /\ scan = [stack |-> scan.stack, left |-> scan.left, found |-> scan.found, count |-> scan.count]
  /\ scan.stack \in Seq(Existing) /\ scan.left \subseteq Existing /\ scan.found \subseteq Existing
  /\ scan.count \in Nat
  /\ scan.count > 0 => pc # "idle" /\ job # NoSection /\ Meta = "scan"
  /\ scan.count > 0 /\ job.metadata.scanLimit > 0 =>
       /\ scan.count <= job.metadata.scanLimit
       /\ scan.left # {} \/ scan.stack # <<>> => scan.count < job.metadata.scanLimit
  /\ pc = "scanning" => ScanRoot \in scan.found
  /\ pc = "scanning" /\ job.metadata.scanLimit = 0 =>
       \A p \in Existing :
         Len(p) > 1 /\ Parent(p) \in scan.found /\ ~Pending(Parent(p)) =>
           p \in scan.left \cup scan.found \/ Last(p)[1] = "link"
  /\ Ready /\ Meta = "scan" =>
       /\ ScanRoot \in scan.found
       /\ NeedsFiles(job.metadata) => \E p \in scan.found : ~IsDir(p)

(* Nothing fails without a cause.                                          *)
CauseOK ==
  /\ pc = "prepare_failed" => hit \/ leftover \/ NoFilesInSight
  /\ Working => \A t \in DOMAIN writers : writers[t] = "failed" => hit
  /\ Working => \A t \in DOMAIN statters : statters[t] = "failed" => hit \/ SharedDir

(* The removal of a tree: what is left of it is still to be visited.       *)
Walked == IF pc = "sweep" THEN MetaRoot ELSE WRoot

WalkOK ==
  /\ sweep = [stack |-> sweep.stack, left |-> sweep.left]
  /\ sweep.stack \in Seq(Paths \X BOOLEAN) /\ sweep.left \subseteq Paths
  /\ ~Sweeping => sweep = NoSweep
  /\ \A i \in DOMAIN sweep.stack : Home(sweep.stack[i][1]) = Home(Walked)
  /\ \A p \in sweep.left : Home(p) = Home(Walked)

Sound == ~hit /\ ~leftover

Covered(i) ==
  sweep.stack[i][2] =>
    \A p \in Children(sweep.stack[i][1]) :
      p \in sweep.left \/ \E j \in DOMAIN sweep.stack : j > i /\ sweep.stack[j][1] = p

SweepOK ==
  Sweeping /\ Sound /\ (pc = "sweep" \/ ~SharedDir) =>
    /\ \A i \in DOMAIN sweep.stack : Covered(i)
    /\ Walked \in tree => sweep.stack # <<>> /\ sweep.stack[1][1] = Walked

SweptOK ==
  /\ Working /\ writeRunner = "over" /\ Sound /\ ~SharedDir /\ Writes =>
       (job.write.cleanup => At(WriteRoot) = {})
  /\ pc = "report" /\ Sound => At(MetaRoot) = {}

SetInv == /\ RecordOK /\ PhaseOK /\ RootOK /\ TreeOK /\ OrphansOK
          /\ MakingOK /\ FreshOK /\ BuiltOK /\ ScanOK /\ CauseOK
          /\ WalkOK /\ SweepOK /\ SweptOK

-----------------------------------------------------------------------------
(* What is known of a job the master has taken.                            *)

LEMMA SectionsOfAJob ==
  ASSUME NEW p \in BenchSpec, Accepts(p), NEW j, j = FromProto(Stored(p))
  PROVE  /\ j # NoSection
         /\ j.write # NoSection => j.write.concurrency \in Nat \ {0} /\ j.write.cleanup \in BOOLEAN
         /\ j.metadata # NoSection =>
              /\ j.metadata.concurrency \in Nat \ {0} /\ j.metadata.scanLimit \in Nat
              /\ j.metadata.manifest \in BOOLEAN /\ j.metadata.readOnly \in BOOLEAN
              /\ j.metadata.readOnly => j.metadata.ops \subseteq {"stat", "open", "readdir"}
              /\ Builds(j.metadata) => GoodTree(j.metadata)
              /\ WithinCaps(j.metadata)
<1> DEFINE q == Stored(p)
<1>1. q \in BenchSpec /\ Parses(q) /\ Valid(FromProto(q), TRUE)
  BY StoredFields, AcceptedIsUnderstood DEF Understands
<1> HIDE DEF q
<1>2. /\ j = FromProto(q) /\ j.write = q.write /\ j.metadata = DefaultLayout(q.metadata)
  BY <1>1, DefaultedFields DEF q
<1>3. j # NoSection
  <2>1. DOMAIN j = DOMAIN q /\ DOMAIN q # DOMAIN NoSection
    BY <1>1, <1>2 DEF FromProto, BenchSpec, NoSection
  <2> QED BY <2>1
<1>4. ASSUME j.write # NoSection
      PROVE  j.write.concurrency \in Nat \ {0} /\ j.write.cleanup \in BOOLEAN
  <2>1. WriteParses(q.write) /\ q.write \in WriteSections
    BY <1>1, <1>2, <1>4 DEF Parses, BenchSpec
  <2> QED BY <1>2, <2>1 DEF WriteParses, WriteSections
<1>5. ASSUME j.metadata # NoSection
      PROVE  /\ j.metadata.concurrency \in Nat \ {0} /\ j.metadata.scanLimit \in Nat
             /\ j.metadata.manifest \in BOOLEAN /\ j.metadata.readOnly \in BOOLEAN
             /\ j.metadata.readOnly => j.metadata.ops \subseteq {"stat", "open", "readdir"}
             /\ Builds(j.metadata) => GoodTree(j.metadata)
             /\ WithinCaps(j.metadata)
  <2> DEFINE m == q.metadata
             n == j.metadata
  <2>1. m # NoSection /\ m \in MetadataSections
    BY <1>1, <1>2, <1>5, LayoutKeepsSection DEF BenchSpec
  <2>2. MetadataParses(m)
    BY <1>1, <2>1 DEF Parses
  <2>3. n = DefaultLayout(m)
    BY <1>2
  <2>4. ValidMetadata(n)
    BY <1>1, <1>2, <1>5 DEF Valid
  <2> HIDE DEF m, n
  <2>5. /\ n.concurrency = m.concurrency /\ n.scanLimit = m.scanLimit /\ n.manifest = m.manifest
        /\ n.readOnly = m.readOnly /\ n.ops = m.ops /\ n.depth = m.depth /\ n.width = m.width
        /\ n.files = m.files
        /\ n.layoutConcurrency = IF m.layoutConcurrency <= 0 THEN m.concurrency
                                 ELSE m.layoutConcurrency
    BY <2>1, <2>3 DEF DefaultLayout, MetadataSections
  <2>6. /\ n.concurrency \in Nat \ {0} /\ n.scanLimit \in Nat /\ n.manifest \in BOOLEAN
        /\ n.readOnly \in BOOLEAN /\ n.depth \in Nat /\ n.width \in Nat /\ n.files \in Nat
        /\ n.layoutConcurrency \in Nat \ {0}
    BY <2>1, <2>2, <2>5 DEF MetadataParses, MetadataSections
  <2>7. Builds(n) => GoodTree(n)
    <3> SUFFICES ASSUME Builds(n) PROVE GoodTree(n)
      OBVIOUS
    <3>1. n.depth > 0 /\ n.width > 0 /\ (NeedsFiles(n) => n.files > 0)
      BY <2>4 DEF ValidMetadata, Buildable
    <3>2. n.depth \in Nat \ {0} /\ n.width \in Nat \ {0}
      BY <2>6, <3>1
    <3> QED BY <2>6, <3>1, <3>2 DEF GoodTree
  <2>8. (n.readOnly => n.ops \subseteq {"stat", "open", "readdir"}) /\ WithinCaps(n)
    BY <2>4 DEF ValidMetadata
  <2> QED BY <2>6, <2>7, <2>8 DEF n
<1> QED BY <1>3, <1>4, <1>5

LEMMA JobFacts ==
  ASSUME RecordOK, job # NoSection
  PROVE  /\ pc # "idle"
         /\ Meta \in {"none", "manifest", "scan", "build"}
         /\ Meta \in {"scan", "build"} => job.metadata.concurrency \in Nat \ {0}
         /\ Meta = "build" => GoodTree(job.metadata) /\ WithinCaps(job.metadata)
         /\ Meta = "scan" => /\ job.metadata.ops \subseteq {"stat", "open", "readdir"}
                             /\ job.metadata.scanLimit \in Nat
         /\ Writes => job.write.concurrency \in Nat \ {0} /\ job.write.cleanup \in BOOLEAN
         /\ HasConsistency(job) => record.credentials # NoSection
         /\ SharedDir => Meta = "build" /\ WRoot = MetaRoot
         /\ ~SharedDir => WRoot = WriteRoot
         /\ WRoot \in Paths /\ Len(WRoot) = 1 /\ IsDir(WRoot)
         /\ Home(WRoot) \in {Home(WriteRoot), Home(MetaRoot)}
         /\ Understands(record.spec)
<1>1. pc # "idle" /\ job = FromProto(record.spec)
  BY DEF RecordOK
<1>2. PICK p \in Protos : Accepts(p) /\ record = [spec |-> Stored(p), credentials |-> Credentials(p)]
  BY <1>1 DEF RecordOK
<1>3. p \in BenchSpec
  BY ProtosAssumption
<1>4. record.spec = Stored(p) /\ record.credentials = Credentials(p)
  BY <1>2
<1>5. Understands(record.spec) /\ (HasConsistency(job) => record.credentials # NoSection)
  BY <1>1, <1>2, <1>3, <1>4, AcceptedIsUnderstood
<1>6. /\ job.write # NoSection =>
           job.write.concurrency \in Nat \ {0} /\ job.write.cleanup \in BOOLEAN
      /\ job.metadata # NoSection =>
           /\ job.metadata.concurrency \in Nat \ {0} /\ job.metadata.scanLimit \in Nat
           /\ job.metadata.manifest \in BOOLEAN /\ job.metadata.readOnly \in BOOLEAN
           /\ job.metadata.readOnly => job.metadata.ops \subseteq {"stat", "open", "readdir"}
           /\ Builds(job.metadata) => GoodTree(job.metadata)
           /\ WithinCaps(job.metadata)
  <2> DEFINE j == job
  <2>1. j = FromProto(Stored(p))
    BY <1>1, <1>4
  <2> HIDE DEF j
  <2>2. /\ j.write # NoSection =>
             j.write.concurrency \in Nat \ {0} /\ j.write.cleanup \in BOOLEAN
        /\ j.metadata # NoSection =>
             /\ j.metadata.concurrency \in Nat \ {0} /\ j.metadata.scanLimit \in Nat
             /\ j.metadata.manifest \in BOOLEAN /\ j.metadata.readOnly \in BOOLEAN
             /\ j.metadata.readOnly => j.metadata.ops \subseteq {"stat", "open", "readdir"}
             /\ Builds(j.metadata) => GoodTree(j.metadata)
             /\ WithinCaps(j.metadata)
    BY <1>2, <1>3, <2>1, SectionsOfAJob
  <2> QED BY <2>2 DEF j
<1>7. /\ Meta \in {"none", "manifest", "scan", "build"}
      /\ Meta # "none" => job.metadata # NoSection
      /\ Meta = "build" => Builds(job.metadata)
      /\ Meta = "scan" => job.metadata.readOnly
  BY <1>6 DEF Meta, Builds
<1>8. (SharedDir => Meta = "build" /\ WRoot = MetaRoot) /\ (~SharedDir => WRoot = WriteRoot)
  BY DEF SharedDir, WRoot
<1> QED BY <1>1, <1>5, <1>6, <1>7, <1>8, RootsArePaths DEF Writes

(* What depends on the job alone.                                          *)
LEMMA SameJob ==
  ASSUME job' = job
  PROVE  /\ Meta' = Meta /\ Writes' = Writes /\ SharedDir' = SharedDir /\ WRoot' = WRoot
         /\ Writers' = Writers /\ Statters' = Statters /\ NoFilesInSight' = NoFilesInSight
<1>1. Meta' = Meta /\ (Writes' <=> Writes)
  BY DEF Meta, Writes
<1>2. SharedDir' <=> SharedDir
  BY <1>1 DEF SharedDir
<1>3. WRoot' = WRoot
  BY <1>2 DEF WRoot
<1>4. Writers' = Writers /\ Statters' = Statters
  BY <1>1 DEF Writers, Statters
<1>5. NoFilesInSight' = NoFilesInSight
  BY <1>1 DEF NoFilesInSight
<1>6. Writes' = Writes
  BY DEF Writes
<1>7. SharedDir' = SharedDir
  BY <1>1, <1>6 DEF SharedDir
<1> QED BY <1>1, <1>3, <1>4, <1>5, <1>6, <1>7

-----------------------------------------------------------------------------
(* The steps, one part of the invariant after the other.                   *)

LEMMA InitSet == Init => SetInv
<1> SUFFICES ASSUME Init PROVE SetInv
  OBVIOUS
<1> USE DEF Init
<1>1. RecordOK
  <2>1. 0 \in 0..MaxRounds /\ 0 \in 0..MaxFaults
    BY BoundsAssumption
  <2>2. record = NoSection /\ job = NoSection /\ pc = "idle"
    OBVIOUS
  <2>3. rounds = 0 /\ faults = 0 /\ hit = FALSE /\ leftover = FALSE
    OBVIOUS
  <2> QED BY <2>1, <2>2, <2>3 DEF RecordOK
<1>2. PhaseOK /\ RootOK
  BY DEF PhaseOK, RootOK, Places, Working
<1>3. /\ IsTree(Existing) /\ ScanRoot \in Existing
      /\ \A p \in Existing : Home(p) = Home(ScanRoot)
  BY ExistingAssumption, RootsArePaths, UnderRoot DEF IsTree
<1>4. TreeOK
  BY <1>3, RootsArePaths DEF TreeOK, At
<1>5. OrphansOK /\ MakingOK /\ FreshOK /\ BuiltOK /\ CauseOK
  BY DEF OrphansOK, MakingOK, FreshOK, BuiltOK, CauseOK, Working
<1>6. ScanOK
  <2>1. <<>> \in Seq(Existing)
    OBVIOUS
  <2> QED BY <2>1 DEF ScanOK, NoScan, Ready, Working
<1>7. WalkOK /\ SweepOK /\ SweptOK
  <2>1. <<>> \in Seq(Paths \X BOOLEAN)
    OBVIOUS
  <2> QED BY <2>1 DEF WalkOK, SweepOK, SweptOK, NoSweep, Sweeping, Working
<1> QED BY <1>1, <1>2, <1>4, <1>5, <1>6, <1>7 DEF SetInv

(* What every step but the first two of a round leaves alone.              *)
Ordinary ==
  /\ record' = record /\ job' = job /\ rounds' = rounds
  /\ \/ faults' = faults /\ hit' = hit
     \/ faults < MaxFaults /\ faults' = faults + 1 /\ hit' = TRUE
  /\ leftover' = leftover \/ (leftover' \in BOOLEAN /\ (leftover => leftover'))
  /\ pc' = pc \/ (pc \notin {"idle", "fetch"} /\ pc' # "idle")

LEMMA OtherSteps ==
  ASSUME RecordOK, PhaseOK, OrphansOK, Next
  PROVE  (\E p \in Protos : CreateJob(p)) \/ Fetch \/ Ordinary
<1>1. CASE Prepare
  <2>1. ASSUME MakeWriteRoot PROVE Ordinary
    <3>1. pc' \in {"prepare_failed", AfterRoot}
      BY <2>1 DEF MakeWriteRoot, PreparationFails
    <3>2. AfterRoot # "idle"
      BY DEF AfterRoot, AfterTree, Meta
    <3> QED BY <2>1, <3>1, <3>2 DEF MakeWriteRoot, Ordinary, Fault, NoFault, jobVars, boundVars
  <2>2. ASSUME MakeMetaRoot PROVE Ordinary
    BY <2>2 DEF MakeMetaRoot, PreparationFails, Ordinary, Fault, NoFault, jobVars, boundVars
  <2>3. ASSUME NextBatch PROVE Ordinary
    BY <2>3 DEF NextBatch, BatchDone, AfterTree, Ordinary, jobVars, boundVars
  <2>4. ASSUME NEW p, StartOp(p) \/ OpDone(p) \/ OpFails(p) \/ OrphanLands(p) PROVE Ordinary
    BY <2>4 DEF StartOp, OpDone, OpFails, OrphanLands, Ordinary, Fault, NoFault, jobVars, boundVars
  <2>5. ASSUME BeginScan \/ ScanDirectory PROVE Ordinary
    BY <2>5 DEF BeginScan, ScanDirectory, PreparationFails, Ordinary, Fault, NoFault, jobVars, boundVars
  <2>6. ASSUME ScanDone PROVE Ordinary
    BY <2>6 DEF ScanDone, AfterTree, PreparationFails, Ordinary, jobVars, boundVars
  <2>7. ASSUME NEW e, ScanEntry(e) PROVE Ordinary
    BY <2>7 DEF ScanEntry, Ordinary, jobVars, boundVars
  <2>8. ASSUME BuildClient PROVE Ordinary
    BY <2>8 DEF BuildClient, Ordinary, Fault, NoFault, jobVars, boundVars
  <2>9. ASSUME ReadyError \/ BarrierOpens \/ GivenUp PROVE Ordinary
    BY <2>9 DEF ReadyError, BarrierOpens, GivenUp, Ordinary, jobVars, boundVars, RecordOK
  <2> QED BY <1>1, <2>1, <2>2, <2>3, <2>4, <2>5, <2>6, <2>7, <2>8, <2>9 DEF Prepare
<1>2. CASE Run
  <2>1. ASSUME NEW t, WriteOp(t) \/ WriterEnds(t) PROVE Ordinary
    BY <2>1 DEF WriteOp, WriterEnds, Ordinary, Fault, NoFault, jobVars, boundVars
  <2>2. ASSUME NEW t, TargetFails(t) \/ StatterEnds(t) PROVE Ordinary
    BY <2>2 DEF TargetFails, StatterEnds, Ordinary, Fault, NoFault, jobVars, boundVars
  <2>3. ASSUME NEW t, NEW op, MakeEntry(t, op) PROVE Ordinary
    BY <2>3 DEF MakeEntry, Ordinary, Fault, NoFault, jobVars, boundVars
  <2> QED BY <1>2, <2>1, <2>2, <2>3 DEF Run
<1>3. CASE Removal
  <2>1. ASSUME WriteCleanup \/ MetaCleanup PROVE Ordinary
    BY <2>1 DEF WriteCleanup, MetaCleanup, Ordinary, jobVars, boundVars
  <2>2. ASSUME VisitDirectory \/ RemoveDirectory PROVE Ordinary
    BY <2>2 DEF VisitDirectory, RemoveDirectory, Ordinary, Fault, NoFault, jobVars, boundVars
  <2>3. ASSUME NEW e, RemoveEntry(e) PROVE Ordinary
    BY <2>3 DEF RemoveEntry, Ordinary, Fault, NoFault, jobVars, boundVars
  <2>4. ASSUME SweepDone \/ ReportResult PROVE Ordinary
    BY <2>4 DEF SweepDone, ReportResult, Ordinary, jobVars, boundVars, RecordOK
  <2> QED BY <1>3, <2>1, <2>2, <2>3, <2>4 DEF Removal
<1> QED BY <1>1, <1>2, <1>3 DEF Next

(* A round begins: nothing of the last one is left but its tree.           *)
LEMMA FetchTakes ==
  ASSUME RecordOK, Fetch
  PROVE  /\ pc = "fetch" /\ pc' = "write_root" /\ job' # NoSection
         /\ job = NoSection \/ job' = job
         /\ UNCHANGED <<record, treeVars, taskVars, sweep, leftover, faults>>
         /\ hit' = FALSE
<1>1. PICK p \in Protos :
        Accepts(p) /\ record = [spec |-> Stored(p), credentials |-> Credentials(p)]
  BY DEF Fetch, RecordOK
<1>2. p \in BenchSpec /\ record.spec = Stored(p)
  BY <1>1, ProtosAssumption
<1>3. Understands(record.spec)
  BY <1>1, <1>2, AcceptedIsUnderstood
<1>4. job' = FromProto(record.spec) /\ pc' = "write_root"
  BY <1>3 DEF Fetch
<1>5. job' # NoSection
  BY <1>1, <1>2, <1>4, SectionsOfAJob
<1> QED BY <1>4, <1>5 DEF Fetch, RecordOK

LEMMA RecordStep ==
  ASSUME RecordOK, PhaseOK, OrphansOK, Next
  PROVE  RecordOK'
<1>1. ASSUME NEW p \in Protos, CreateJob(p) PROVE RecordOK'
  <2>1. /\ pc = "idle" /\ Accepts(p) /\ pc' = "fetch" /\ job' = job /\ job = NoSection
        /\ record' = [spec |-> Stored(p), credentials |-> Credentials(p)]
    BY <1>1 DEF CreateJob, RecordOK
  <2>2. record' # NoSection
    <3>1. "set" \in DOMAIN NoSection /\ "set" \notin DOMAIN record'
      BY <2>1 DEF NoSection
    <3> QED BY <3>1
  <2> QED BY <1>1, <2>1, <2>2 DEF CreateJob, RecordOK, boundVars
<1>2. ASSUME Fetch PROVE RecordOK'
  <2>1. /\ pc = "fetch" /\ pc' = "write_root" /\ job' # NoSection /\ hit' = FALSE
        /\ UNCHANGED <<record, leftover, faults>>
    BY <1>2, FetchTakes
  <2>2. rounds' \in 0..MaxRounds /\ job' = FromProto(record.spec)
    <3>1. job' = job \/ job' = FromProto(record.spec)
      BY <1>2 DEF Fetch
    <3>2. job = NoSection \/ job = FromProto(record.spec)
      BY DEF RecordOK
    <3> QED BY <1>2, <2>1, <3>1, <3>2, BoundsAssumption DEF Fetch, RecordOK
  <2> QED BY <2>1, <2>2 DEF RecordOK
<1>3. ASSUME Ordinary PROVE RecordOK'
  <2>1. faults' \in 0..MaxFaults
    BY <1>3, BoundsAssumption DEF Ordinary, RecordOK
  <2> QED BY <1>3, <2>1 DEF Ordinary, RecordOK
<1> QED BY <1>1, <1>2, <1>3, OtherSteps


LEMMA PhaseStep ==
  ASSUME RecordOK, PhaseOK, OrphansOK, ScanOK, Next
  PROVE  PhaseOK'
<1>1. ASSUME NEW p \in Protos, CreateJob(p) PROVE PhaseOK'
  BY <1>1 DEF CreateJob, PhaseOK, Places, Working, treeVars, taskVars
<1>2. ASSUME Fetch PROVE PhaseOK'
  <2>1. /\ pc = "fetch" /\ pc' = "write_root"
        /\ UNCHANGED <<record, treeVars, taskVars, sweep, leftover, faults>>
    BY <1>2, FetchTakes
  <2> QED BY <2>1 DEF PhaseOK, Places, Working, treeVars, taskVars
<1>3. ASSUME Ordinary, Prepare PROVE PhaseOK'
  <2>1. Meta' = Meta /\ (HasConsistency(job))' = HasConsistency(job) /\ job' = job
    BY <1>3, SameJob DEF Ordinary
  <2>2. Writers' = Writers /\ Statters' = Statters /\ Writes' = Writes
    BY <1>3, SameJob DEF Ordinary
  <2>3. ASSUME MakeWriteRoot PROVE PhaseOK'
    <3>1. job # NoSection
      BY <2>3 DEF MakeWriteRoot, RecordOK
    <3>2. Meta \in {"none", "manifest", "scan", "build"}
      BY <3>1, JobFacts
    <3>3. \/ pc' = AfterRoot /\ UNCHANGED <<batch, todo, flying>>
          \/ pc' = "prepare_failed" /\ flying' = {} /\ todo' = {} /\ batch' = 0
      BY <2>3 DEF MakeWriteRoot, PreparationFails
    <3>4. pc = "write_root" /\ UNCHANGED taskVars
      BY <2>3 DEF MakeWriteRoot
    <3>5. \/ AfterRoot \in {"client", "ready"} /\ (AfterRoot = "client" => HasConsistency(job))
          \/ AfterRoot = "scan" /\ Meta = "scan"
          \/ AfterRoot = "build" /\ Meta = "build"
      BY <3>2 DEF AfterRoot, AfterTree
    <3> QED BY <2>1, <3>3, <3>4, <3>5 DEF PhaseOK, Places, Working, taskVars
  <2>4. ASSUME MakeMetaRoot PROVE PhaseOK'
    BY <2>1, <2>4 DEF MakeMetaRoot, PreparationFails, PhaseOK, Places, Working, taskVars
  <2>5. ASSUME NextBatch PROVE PhaseOK'
    BY <2>1, <2>5 DEF NextBatch, BatchDone, AfterTree, PhaseOK, Places, Working, taskVars
  <2>6. ASSUME NEW p, StartOp(p) \/ OpDone(p) \/ OpFails(p) PROVE PhaseOK'
    BY <2>1, <2>6 DEF StartOp, OpDone, OpFails, PhaseOK, Places, Working, taskVars
  <2>7. ASSUME NEW p, OrphanLands(p) PROVE PhaseOK'
    BY <2>1, <2>2, <2>7 DEF OrphanLands, PhaseOK, Working, Ended, taskVars
  <2>8. ASSUME BeginScan \/ ScanDirectory PROVE PhaseOK'
    BY <2>1, <2>8 DEF BeginScan, ScanDirectory, PreparationFails, PhaseOK, Places, Working, taskVars
  <2>9. ASSUME ScanDone PROVE PhaseOK'
    BY <2>1, <2>9 DEF ScanDone, AfterTree, PreparationFails, PhaseOK, Places, Working, taskVars
  <2>10. ASSUME NEW e, ScanEntry(e) PROVE PhaseOK'
    BY <2>1, <2>10 DEF ScanEntry, PhaseOK, Places, Working, taskVars
  <2>11. ASSUME BuildClient \/ ReadyError \/ GivenUp PROVE PhaseOK'
    BY <2>1, <2>11 DEF BuildClient, ReadyError, GivenUp, PhaseOK, Places, Working, treeVars, taskVars
  <2>12. ASSUME BarrierOpens PROVE PhaseOK'
    <3>1. /\ writers' \in [Writers -> TaskStates] /\ statters' \in [Statters -> TaskStates]
          /\ made' \in [Statters -> 0..MaxNew]
          /\ ~Writes => Writers = {}
      <4>1. 0 \in 0..MaxNew
        BY BoundsAssumption
      <4> QED BY <2>12, <4>1 DEF BarrierOpens, TaskStates, Writers
    <3>2. ~Writes => Ended(writers')
      BY <2>12, <3>1 DEF Ended, BarrierOpens
    <3>3. writeRunner' = IF Writes THEN "on" ELSE "over"
      BY <2>12 DEF BarrierOpens
    <3> QED BY <2>1, <2>2, <2>12, <3>1, <3>2, <3>3
          DEF BarrierOpens, PhaseOK, Places, Working, Ended, treeVars
  <2>13. ASSUME NEW p \in Protos, CreateJob(p) PROVE PhaseOK'
    BY <1>1, <2>13
  <2>14. ASSUME Fetch PROVE PhaseOK'
    BY <1>2, <2>14
  <2> QED BY <1>3, <2>3, <2>4, <2>5, <2>6, <2>7, <2>8, <2>9, <2>10, <2>11, <2>12, <2>13, <2>14
        DEF Prepare
<1>4. ASSUME Ordinary, Run PROVE PhaseOK'
  <2>1. Meta' = Meta /\ (HasConsistency(job))' = HasConsistency(job) /\ job' = job
    BY <1>4, SameJob DEF Ordinary
  <2>2. Writers' = Writers /\ Statters' = Statters /\ Writes' = Writes
    BY <1>4, SameJob DEF Ordinary
  <2>3. /\ pc = "run" /\ pc' = pc /\ Working
        /\ UNCHANGED <<batch, todo, flying, writeRunner>>
        /\ writers' = writers
           \/ \E t \in DOMAIN writers, s \in {"over", "failed"} :
                writers[t] = "on" /\ writers' = [writers EXCEPT ![t] = s]
        /\ statters' = statters
           \/ \E t \in DOMAIN statters, s \in {"over", "failed"} :
                statters' = [statters EXCEPT ![t] = s]
        /\ made' = made
           \/ \E t \in DOMAIN statters : made[t] < MaxNew /\ made' = [made EXCEPT ![t] = @ + 1]
    <3>1. ASSUME NEW t \in DOMAIN writers, WriteOp(t) \/ WriterEnds(t)
          PROVE  /\ pc = "run" /\ pc' = pc /\ Working
                 /\ UNCHANGED <<batch, todo, flying, writeRunner, statters, made>>
                 /\ \/ writers' = writers
                    \/ \E s \in {"over", "failed"} :
                         writers[t] = "on" /\ writers' = [writers EXCEPT ![t] = s]
      BY <3>1 DEF WriteOp, WriterEnds, Working, treeVars
    <3>2. ASSUME NEW t \in DOMAIN statters, TargetFails(t) \/ StatterEnds(t)
          PROVE  /\ pc = "run" /\ pc' = pc /\ Working
                 /\ UNCHANGED <<batch, todo, flying, writeRunner, writers, made>>
                 /\ \E s \in {"over", "failed"} : statters' = [statters EXCEPT ![t] = s]
      BY <3>2 DEF TargetFails, StatterEnds, StatterWorks, Working, treeVars
    <3>3. ASSUME NEW t \in DOMAIN statters, NEW op, MakeEntry(t, op)
          PROVE  /\ pc = "run" /\ pc' = pc /\ Working
                 /\ UNCHANGED <<batch, todo, flying, writeRunner, writers>>
                 /\ statters' = statters \/ statters' = [statters EXCEPT ![t] = "failed"]
                 /\ made[t] < MaxNew /\ made' = [made EXCEPT ![t] = @ + 1]
      BY <3>3 DEF MakeEntry, StatterWorks, Working
    <3> QED BY <1>4, <3>1, <3>2, <3>3 DEF Run
  <2>4. /\ writers \in [Writers -> TaskStates] /\ statters \in [Statters -> TaskStates]
        /\ made \in [Statters -> 0..MaxNew]
    BY <2>3 DEF PhaseOK
  <2>5. /\ writers' \in [Writers -> TaskStates] /\ statters' \in [Statters -> TaskStates]
    BY <2>3, <2>4 DEF TaskStates
  <2>6. made' \in [Statters -> 0..MaxNew]
    BY <2>3, <2>4, BoundsAssumption
  <2>7. writeRunner \in {"sweep", "over"} => writers' = writers
    <3>1. writeRunner \in {"sweep", "over"} => \A t \in DOMAIN writers : writers[t] # "on"
      BY <2>3 DEF PhaseOK, Ended
    <3> QED BY <2>3, <3>1
  <2> QED BY <2>1, <2>2, <2>3, <2>5, <2>6, <2>7 DEF PhaseOK, Places, Working, Ended
<1>5. ASSUME Ordinary, Removal PROVE PhaseOK'
  <2>1. Meta' = Meta /\ (HasConsistency(job))' = HasConsistency(job) /\ job' = job
    BY <1>5, SameJob DEF Ordinary
  <2>2. Writers' = Writers /\ Statters' = Statters /\ Writes' = Writes
    BY <1>5, SameJob DEF Ordinary
  <2>3. ASSUME WriteCleanup PROVE PhaseOK'
    BY <2>1, <2>2, <2>3
       DEF WriteCleanup, WritersOver, PhaseOK, Places, Working, Ended, treeVars, taskVars
  <2>4. ASSUME MetaCleanup PROVE PhaseOK'
    BY <2>1, <2>2, <2>4 DEF MetaCleanup, PhaseOK, Places, Working, Ended, treeVars, taskVars
  <2>5. ASSUME VisitDirectory \/ RemoveDirectory \/ (\E e \in sweep.left : RemoveEntry(e))
        PROVE  PhaseOK'
    <3>1. UNCHANGED <<pc, batch, todo, flying, taskVars>>
      BY <2>5 DEF VisitDirectory, RemoveDirectory, RemoveEntry, treeVars
    <3> QED BY <2>1, <2>2, <3>1 DEF PhaseOK, Places, Working, Ended, taskVars
  <2>6. ASSUME SweepDone PROVE PhaseOK'
    BY <2>1, <2>2, <2>6 DEF SweepDone, Sweeping, PhaseOK, Places, Working, Ended, treeVars
  <2>7. ASSUME ReportResult PROVE PhaseOK'
    BY <2>1, <2>2, <2>7 DEF ReportResult, PhaseOK, Places, Working
  <2> QED BY <1>5, <2>3, <2>4, <2>5, <2>6, <2>7 DEF Removal
<1> QED BY <1>1, <1>2, <1>3, <1>4, <1>5, OtherSteps DEF Next

-----------------------------------------------------------------------------
(* What a step puts into the tree, and what it takes out.                  *)

LEMMA Fronts ==
  ASSUME NEW S, NEW s \in Seq(S), s # <<>>
  PROVE  /\ Len(s) \in Nat \ {0} /\ DOMAIN s = 1..Len(s)
         /\ Last(s) = s[Len(s)] /\ Last(s) \in S
         /\ Front(s) \in Seq(S) /\ Len(Front(s)) = Len(s) - 1
         /\ DOMAIN Front(s) = 1..(Len(s) - 1)
         /\ \A i \in 1..(Len(s) - 1) : Front(s)[i] = s[i]
         /\ Front(s) = <<>> <=> Len(s) = 1
<1>1. Len(s) \in Nat \ {0} /\ DOMAIN s = 1..Len(s) /\ \A i \in 1..Len(s) : s[i] \in S
  BY EmptySeq, ElementOfSeq
<1>2. Len(s) \in 1..Len(s) /\ Len(s) - 1 \in Nat
  BY <1>1
<1>3. Last(s) = s[Len(s)] /\ Last(s) \in S
  BY <1>1, <1>2 DEF Last
<1>4. \A i \in 1..(Len(s) - 1) : s[i] \in S
  BY <1>1
<1>5. /\ SubSeq(s, 1, Len(s) - 1) \in Seq(S) /\ Len(SubSeq(s, 1, Len(s) - 1)) = Len(s) - 1
      /\ \A i \in 1..(Len(s) - 1) : SubSeq(s, 1, Len(s) - 1)[i] = s[i]
  <2> DEFINE k == Len(s) - 1
  <2>1. k \in Nat /\ \A i \in 1..k : s[i] \in S
    BY <1>2, <1>4
  <2> HIDE DEF k
  <2>2. /\ SubSeq(s, 1, k) \in Seq(S) /\ Len(SubSeq(s, 1, k)) = k
        /\ \A i \in 1..k : SubSeq(s, 1, k)[i] = s[i]
    BY <2>1, SubSeqProperties
  <2> QED BY <2>2 DEF k
<1>6. Front(s) = SubSeq(s, 1, Len(s) - 1)
  BY DEF Front
<1>7. Front(s) \in Seq(S) /\ Len(Front(s)) = Len(s) - 1
  BY <1>5, <1>6
<1>8. DOMAIN Front(s) = 1..(Len(s) - 1)
  BY <1>7
<1>9. Front(s) = <<>> <=> Len(s) = 1
  BY <1>1, <1>7, EmptySeq
<1> QED BY <1>1, <1>3, <1>5, <1>6, <1>7, <1>8, <1>9

LEMMA Appended ==
  ASSUME NEW S, NEW s \in Seq(S), NEW x \in S
  PROVE  /\ Append(s, x) \in Seq(S) /\ Append(s, x) # <<>> /\ Len(s) \in Nat
         /\ DOMAIN Append(s, x) = 1..(Len(s) + 1) /\ DOMAIN s = 1..Len(s)
         /\ \A i \in 1..Len(s) : Append(s, x)[i] = s[i]
         /\ Append(s, x)[Len(s) + 1] = x
<1>1. /\ Append(s, x) \in Seq(S) /\ Len(Append(s, x)) = Len(s) + 1 /\ Len(s) \in Nat
      /\ \A i \in 1..Len(s) : Append(s, x)[i] = s[i]
      /\ Append(s, x)[Len(s) + 1] = x
  BY AppendProperties
<1>2. DOMAIN Append(s, x) = 1..(Len(s) + 1) /\ DOMAIN s = 1..Len(s)
  BY <1>1
<1>3. Append(s, x) # <<>>
  BY <1>1, EmptySeq
<1> QED BY <1>1, <1>2, <1>3

(* The write runner: its root, the directory in it and a file.             *)
LEMMA WritePaths ==
  ASSUME RecordOK, job # NoSection, NEW t \in Nat
  PROVE  /\ WRoot \in Paths /\ SubDir \in Paths /\ Data(t) \in Paths
         /\ Len(WRoot) = 1 /\ Len(SubDir) = 2 /\ Len(Data(t)) = 3
         /\ Parent(SubDir) = WRoot /\ Parent(Data(t)) = SubDir
         /\ IsDir(WRoot) /\ IsDir(SubDir)
         /\ Home(SubDir) = Home(WRoot) /\ Home(Data(t)) = Home(WRoot)
<1>1. WRoot \in Paths /\ Len(WRoot) = 1 /\ IsDir(WRoot)
  BY JobFacts
<1>2. <<"sub", 1>> \in Names /\ <<"data", t>> \in Names
  BY RootsArePaths
<1> DEFINE a == <<"sub", 1>>
           b == <<"data", t>>
<1>3. a \in Names /\ b \in Names /\ a[1] = "sub"
  BY <1>2
<1>4. SubDir = Append(WRoot, a) /\ Data(t) = Append(SubDir, b)
  BY DEF SubDir, Data
<1> HIDE DEF a, b
<1>5. /\ SubDir \in Paths /\ Len(SubDir) = 2 /\ Parent(SubDir) = WRoot
      /\ Last(SubDir) = a /\ Home(SubDir) = Home(WRoot)
  <2>1. /\ Append(WRoot, a) \in Paths /\ Len(Append(WRoot, a)) = Len(WRoot) + 1
        /\ Parent(Append(WRoot, a)) = WRoot /\ Last(Append(WRoot, a)) = a
        /\ Home(Append(WRoot, a)) = Home(WRoot)
    BY <1>1, <1>3, Longer
  <2> QED BY <1>1, <1>4, <2>1
<1>6. /\ Data(t) \in Paths /\ Len(Data(t)) = 3 /\ Parent(Data(t)) = SubDir
      /\ Home(Data(t)) = Home(WRoot)
  <2>1. /\ Append(SubDir, b) \in Paths /\ Len(Append(SubDir, b)) = Len(SubDir) + 1
        /\ Parent(Append(SubDir, b)) = SubDir
        /\ Home(Append(SubDir, b)) = Home(SubDir)
    BY <1>3, <1>5, Longer
  <2> QED BY <1>4, <1>5, <2>1
<1>7. IsDir(SubDir)
  BY <1>3, <1>5 DEF IsDir, DirKinds
<1> QED BY <1>1, <1>5, <1>6, <1>7

LEMMA WriteAdds ==
  ASSUME RecordOK, PhaseOK, NEW t \in DOMAIN writers, WriteOp(t)
  PROVE  /\ pc = "run" /\ job # NoSection /\ writers[t] = "on"
         /\ \E X : /\ tree' = tree \cup X
                   /\ \A p \in X : /\ p \in Paths /\ Home(p) = Home(WRoot)
                                   /\ Len(p) > 1 => Parent(p) \in X /\ IsDir(Parent(p))
                                   /\ \A u \in Nat : Parent(p) # TaskRoot(u)
<1>1. pc = "run" /\ job # NoSection /\ writers[t] = "on" /\ t \in Nat
  BY JobFacts DEF WriteOp, PhaseOK, RecordOK, Working, Writers
<1> DEFINE X0 == {WRoot, SubDir, Data(t)}
           X1 == {WRoot, SubDir}
<1>2. tree' = tree \cup X0 \/ tree' = tree \cup X1 \/ tree' = tree \cup {}
  BY DEF WriteOp
<1>3. /\ WRoot \in Paths /\ SubDir \in Paths /\ Data(t) \in Paths
      /\ Len(WRoot) = 1 /\ Len(SubDir) = 2 /\ Len(Data(t)) = 3
      /\ Parent(SubDir) = WRoot /\ Parent(Data(t)) = SubDir
      /\ IsDir(WRoot) /\ IsDir(SubDir)
      /\ Home(SubDir) = Home(WRoot) /\ Home(Data(t)) = Home(WRoot)
  BY <1>1, WritePaths
<1>4. \A u \in Nat : Len(TaskRoot(u)) = 3
  BY TaskRoots
<1>5. Len(Parent(WRoot)) # 3
  <2>1. Parent(WRoot) = SubSeq(WRoot, 1, 0)
    BY <1>3 DEF Parent, Front
  <2>2. WRoot \in Seq(Names)
    BY <1>3 DEF Paths, Names
  <2>3. Len(SubSeq(WRoot, 1, 0)) = 0
    BY <2>2, SubSeqProperties
  <2> QED BY <2>1, <2>3
<1>6. \A p \in X0 : /\ p \in Paths /\ Home(p) = Home(WRoot)
                    /\ Len(p) > 1 => Parent(p) \in X1 /\ IsDir(Parent(p))
                    /\ Len(Parent(p)) # 3
  <2>1. ~(Len(WRoot) > 1) /\ Len(Parent(SubDir)) # 3 /\ Len(Parent(Data(t))) # 3
    BY <1>3
  <2>2. WRoot \in X1 /\ SubDir \in X1
    OBVIOUS
  <2> HIDE DEF X1
  <2> QED BY <1>3, <1>5, <2>1, <2>2
<1>7. \A p \in X0 : \A u \in Nat : Parent(p) # TaskRoot(u)
  BY <1>4, <1>6
<1>8. X1 \subseteq X0
  OBVIOUS
<1>9. CASE tree' = tree \cup X0
  <2> HIDE DEF X0, X1
  <2> QED BY <1>1, <1>6, <1>7, <1>8, <1>9
<1>10. CASE tree' = tree \cup X1
  <2>1. Len(Parent(SubDir)) # 3 /\ Len(SubDir) > 1 /\ ~(Len(WRoot) > 1)
    BY <1>3, <1>6
  <2>2. \A p \in X1 : Len(p) > 1 => Parent(p) \in X1
    BY <1>3, <2>1
  <2> HIDE DEF X0, X1
  <2> QED BY <1>1, <1>6, <1>7, <1>8, <1>10, <2>2
<1>11. CASE tree' = tree \cup {}
  <2>1. \E X : tree' = tree \cup X /\ X = {}
    BY <1>11
  <2> HIDE DEF X0, X1
  <2> QED BY <1>1, <2>1, Zenon
<1> QED BY <1>2, <1>9, <1>10, <1>11

(* A metadata task: an entry under its own root.                           *)
LEMMA EntryPath ==
  ASSUME RecordOK, PhaseOK, NEW t \in DOMAIN statters, NEW op \in {"create", "mkdir"},
         MakeEntry(t, op)
  PROVE  /\ pc = "run" /\ job # NoSection /\ Meta = "build" /\ t \in Statters /\ t \in Nat
         /\ t \in 1..job.metadata.concurrency
         /\ made[t] \in Nat /\ made[t] < MaxNew /\ made' = [made EXCEPT ![t] = made[t] + 1]
         /\ \E p : /\ p \in Paths /\ Len(p) = 4 /\ Home(p) = Home(MetaRoot)
                   /\ Parent(p) = TaskRoot(t) /\ Last(p) = <<op, made[t] + 1>>
                   /\ IsDir(TaskRoot(t))
                   /\ tree' = tree \/ (Succeeds(p) /\ tree' = tree \cup {p})
                   /\ \/ statters' = statters
                      \/ /\ statters' = [statters EXCEPT ![t] = "failed"]
                         /\ hit' = TRUE \/ ~Succeeds(p)
<1>1. pc = "run" /\ job # NoSection /\ Working
  BY DEF MakeEntry, StatterWorks, RecordOK, Working
<1>2. t \in Statters /\ made \in [Statters -> 0..MaxNew]
  BY <1>1 DEF PhaseOK
<1>3. Meta = "build" /\ t \in 1..job.metadata.concurrency /\ t \in Nat
  <2>1. Meta \in {"scan", "build"} /\ t \in 1..job.metadata.concurrency
    BY <1>2 DEF Statters
  <2>2. op \in job.metadata.ops
    BY DEF MakeEntry
  <2>3. Meta # "scan"
    BY <1>1, <2>2, JobFacts
  <2> QED BY <2>1, <2>3
<1>4. made[t] \in Nat /\ made[t] < MaxNew /\ made' = [made EXCEPT ![t] = made[t] + 1]
  <2>1. made[t] < MaxNew /\ made' = [made EXCEPT ![t] = @ + 1]
    BY DEF MakeEntry
  <2>2. made[t] \in 0..MaxNew
    BY <1>2
  <2> QED BY <2>1, <2>2
<1> DEFINE n == <<op, made[t] + 1>>
           p == Append(TaskRoot(t), n)
<1>5. n \in Names
  BY <1>4, RootsArePaths
<1>6. /\ TaskRoot(t) \in Paths /\ Len(TaskRoot(t)) = 3 /\ Home(TaskRoot(t)) = Home(MetaRoot)
      /\ IsDir(TaskRoot(t))
  BY <1>3, TaskRoots DEF IsDir, DirKinds
<1>7. /\ \/ Succeeds(p) /\ tree' = tree \cup {p} /\ NoFault /\ UNCHANGED statters
         \/ /\ (~Succeeds(p) /\ NoFault) \/ Fault
            /\ statters' = [statters EXCEPT ![t] = "failed"] /\ UNCHANGED tree
  BY DEF MakeEntry
<1> HIDE DEF n
<1>8. /\ p \in Paths /\ Len(p) = 4 /\ Home(p) = Home(MetaRoot)
      /\ Parent(p) = TaskRoot(t) /\ Last(p) = n
  <2> DEFINE r == TaskRoot(t)
  <2>1. r \in Paths /\ Len(r) = 3 /\ Home(r) = Home(MetaRoot)
    BY <1>6
  <2> HIDE DEF r
  <2>2. /\ Append(r, n) \in Paths /\ Len(Append(r, n)) = Len(r) + 1
        /\ Parent(Append(r, n)) = r /\ Last(Append(r, n)) = n
        /\ Home(Append(r, n)) = Home(r)
    BY <1>5, <2>1, Longer
  <2> QED BY <2>1, <2>2 DEF r
<1> HIDE DEF p
<1>9. /\ p \in Paths /\ Len(p) = 4 /\ Home(p) = Home(MetaRoot)
      /\ Parent(p) = TaskRoot(t) /\ Last(p) = <<op, made[t] + 1>>
      /\ IsDir(TaskRoot(t))
      /\ tree' = tree \/ (Succeeds(p) /\ tree' = tree \cup {p})
      /\ \/ statters' = statters
         \/ /\ statters' = [statters EXCEPT ![t] = "failed"]
            /\ hit' = TRUE \/ ~Succeeds(p)
  BY <1>6, <1>7, <1>8 DEF n, Fault
<1> QED BY <1>1, <1>2, <1>3, <1>4, <1>9

(* An operation of the layout, whether it is waited for or not.            *)
LEMMA LayoutAdds ==
  ASSUME RecordOK, PhaseOK, OrphansOK, MakingOK, NEW p,
         \/ p \in flying /\ OpDone(p)
         \/ p \in orphans /\ OrphanLands(p)
  PROVE  /\ job # NoSection /\ Meta = "build" /\ p \in Layout(job.metadata)
         /\ p \in Paths /\ Len(p) > 1 /\ Home(p) = Home(MetaRoot)
         /\ IsDir(Parent(p)) /\ \A t \in Nat : Parent(p) # TaskRoot(t)
         /\ tree' = tree \/ (tree' = tree \cup {p} /\ Succeeds(p) /\ Parent(p) \in tree)
<1>1. job # NoSection /\ Meta = "build" /\ p \in Layout(job.metadata)
  <2>1. CASE p \in flying /\ OpDone(p)
    <3>1. pc = "layout"
      BY <2>1 DEF OpDone
    <3>2. /\ batch \in 1..Len(Batches(job.metadata)) /\ p \in Batches(job.metadata)[batch]
      BY <2>1, <3>1 DEF MakingOK
    <3>3. p \in Layout(job.metadata)
      BY <3>2 DEF Layout
    <3> QED BY <3>1, <3>3 DEF PhaseOK, RecordOK
  <2>2. CASE p \in orphans
    BY <2>2 DEF OrphansOK
  <2> QED BY <2>1, <2>2
<1>2. GoodTree(job.metadata)
  BY <1>1, JobFacts
<1>3. /\ p \in Paths /\ Len(p) > 1 /\ Home(p) = Home(MetaRoot)
      /\ IsDir(Parent(p)) /\ \A t \in Nat : Parent(p) # TaskRoot(t)
  BY <1>1, <1>2, LayoutIs
<1>4. tree' = tree \/ (tree' = tree \cup {p} /\ Succeeds(p))
  BY DEF OpDone, OrphanLands
<1>5. Succeeds(p) => Parent(p) \in tree
  BY <1>3 DEF Succeeds, HasParent
<1> QED BY <1>1, <1>3, <1>4, <1>5

(* The removal: something without children, in the tree that is removed.   *)
LEMMA RemovalTakes ==
  ASSUME RecordOK, TreeOK, WalkOK, Removal
  PROVE  \/ tree' = tree
         \/ \E x : /\ tree' = tree \ {x} /\ Sweeping /\ x \in Paths /\ Home(x) = Home(Walked)
                   /\ \A q \in tree : Len(q) > 1 => Parent(q) # x
<1>1. ASSUME NEW e \in sweep.left, RemoveEntry(e)
      PROVE  \/ tree' = tree
             \/ /\ tree' = tree \ {e} /\ Sweeping /\ e \in Paths /\ Home(e) = Home(Walked)
                /\ \A q \in tree : Len(q) > 1 => Parent(q) # e
  <2>1. Sweeping /\ e \in Paths /\ Home(e) = Home(Walked)
    BY <1>1 DEF RemoveEntry, WalkOK
  <2>2. tree' = tree \/ (tree' = tree \ {e} /\ ~(e \in tree /\ IsDir(e)))
    BY <1>1 DEF RemoveEntry
  <2>3. CASE e \notin tree
    BY <2>2, <2>3
  <2>4. CASE ~IsDir(e)
    <3>1. \A q \in tree : Len(q) > 1 => Parent(q) # e
      BY <2>4 DEF TreeOK, IsTree
    <3> QED BY <2>1, <2>2, <3>1
  <2> QED BY <2>2, <2>3, <2>4
<1>2. ASSUME RemoveDirectory
      PROVE  \/ tree' = tree
             \/ /\ tree' = tree \ {Top[1]} /\ Sweeping /\ Top[1] \in Paths
                /\ Home(Top[1]) = Home(Walked)
                /\ \A q \in tree : Len(q) > 1 => Parent(q) # Top[1]
  <2>1. sweep.stack \in Seq(Paths \X BOOLEAN) /\ sweep.stack # <<>>
    BY <1>2 DEF RemoveDirectory, WalkOK
  <2>2. /\ Top = sweep.stack[Len(sweep.stack)] /\ Top \in Paths \X BOOLEAN
        /\ Len(sweep.stack) \in DOMAIN sweep.stack
    BY <2>1, Fronts DEF Top
  <2>3. Top[1] \in Paths /\ Home(Top[1]) = Home(Walked)
    BY <2>2 DEF WalkOK
  <2>4. tree' = tree \/ (tree' = tree \ {Top[1]} /\ Sweeping /\ Children(Top[1]) = {})
    BY <1>2 DEF RemoveDirectory
  <2>5. ASSUME Children(Top[1]) = {}, NEW q \in tree, Len(q) > 1 PROVE Parent(q) # Top[1]
    <3> SUFFICES ASSUME Parent(q) = Top[1] PROVE FALSE
      OBVIOUS
    <3>1. q \in Paths
      BY DEF TreeOK, IsTree
    <3>2. Len(Top[1]) = Len(q) - 1 /\ Len(q) \in Nat
      BY <2>5, <3>1, Shorter, LastName
    <3>3. q \in Children(Top[1])
      BY <3>2 DEF Children
    <3> QED BY <2>5, <3>3
  <2> QED BY <2>3, <2>4, <2>5
<1>3. ASSUME WriteCleanup \/ MetaCleanup \/ VisitDirectory \/ SweepDone \/ ReportResult
      PROVE  tree' = tree
  BY <1>3 DEF WriteCleanup, MetaCleanup, VisitDirectory, SweepDone, ReportResult, treeVars
<1> QED BY <1>1, <1>2, <1>3 DEF Removal

(* Putting in what has its parent, and taking out what has no children.    *)
LEMMA Grown ==
  ASSUME TreeOK, job' = job, job # NoSection, NEW X, tree' = tree \cup X,
         \A p \in X : /\ p \in Paths /\ Home(p) \in {Home(WriteRoot), Home(MetaRoot)}
                      /\ Home(p) = Home(MetaRoot) => Meta = "build"
                      /\ Len(p) > 1 => Parent(p) \in tree \cup X /\ IsDir(Parent(p))
  PROVE  TreeOK'
<1>1. IsTree(tree')
  BY DEF TreeOK, IsTree
<1>2. \A p \in tree' : Home(p) \in {Home(WriteRoot), Home(MetaRoot), Home(ScanRoot)}
  BY DEF TreeOK
<1>3. At(ScanRoot)' = Existing
  BY RootsArePaths DEF TreeOK, At
<1>4. Meta' # "build" => At(MetaRoot)' = {}
  BY SameJob DEF TreeOK, At
<1> QED BY <1>1, <1>2, <1>3, <1>4 DEF TreeOK

LEMMA GrownByOne ==
  ASSUME TreeOK, job' = job, job # NoSection, NEW p, tree' = tree \cup {p},
         p \in Paths, Home(p) \in {Home(WriteRoot), Home(MetaRoot)},
         Home(p) = Home(MetaRoot) => Meta = "build",
         Len(p) > 1 => Parent(p) \in tree /\ IsDir(Parent(p))
  PROVE  TreeOK'
<1> DEFINE X == {p}
<1>1. tree' = tree \cup X
  OBVIOUS
<1>2. \A q \in X : /\ q \in Paths /\ Home(q) \in {Home(WriteRoot), Home(MetaRoot)}
                   /\ Home(q) = Home(MetaRoot) => Meta = "build"
                   /\ Len(q) > 1 => Parent(q) \in tree \cup X /\ IsDir(Parent(q))
  <2> SUFFICES ASSUME NEW q \in X
               PROVE  /\ q \in Paths /\ Home(q) \in {Home(WriteRoot), Home(MetaRoot)}
                      /\ Home(q) = Home(MetaRoot) => Meta = "build"
                      /\ Len(q) > 1 => Parent(q) \in tree \cup X /\ IsDir(Parent(q))
    OBVIOUS
  <2>1. q = p
    OBVIOUS
  <2> HIDE DEF X
  <2> QED BY <2>1
<1> HIDE DEF X
<1> QED BY <1>1, <1>2, Grown

LEMMA Shrunk ==
  ASSUME TreeOK, job' = job, NEW x \in Paths, tree' = tree \ {x},
         Home(x) \in {Home(WriteRoot), Home(MetaRoot)},
         \A q \in tree : Len(q) > 1 => Parent(q) # x
  PROVE  TreeOK'
<1>1. IsTree(tree')
  BY DEF TreeOK, IsTree
<1>2. \A p \in tree' : Home(p) \in {Home(WriteRoot), Home(MetaRoot), Home(ScanRoot)}
  BY DEF TreeOK
<1>3. At(ScanRoot)' = Existing
  BY RootsArePaths DEF TreeOK, At
<1>4. job' = NoSection \/ Meta' # "build" => At(MetaRoot)' = {}
  BY SameJob DEF TreeOK, At
<1> QED BY <1>1, <1>2, <1>3, <1>4 DEF TreeOK

LEMMA SameTree ==
  ASSUME TreeOK, tree' = tree, job = NoSection \/ job' = job
  PROVE  TreeOK'
<1>1. At(ScanRoot)' = Existing
  BY DEF TreeOK, At
<1>2. job' = NoSection \/ Meta' # "build" => At(MetaRoot)' = {}
  BY SameJob DEF TreeOK, At
<1> QED BY <1>1, <1>2 DEF TreeOK

LEMMA TreeStep ==
  ASSUME RecordOK, PhaseOK, TreeOK, OrphansOK, MakingOK, RootOK, WalkOK, Next
  PROVE  TreeOK'
<1>1. ASSUME NEW p \in Protos, CreateJob(p) PROVE TreeOK'
  BY <1>1, SameTree DEF CreateJob, treeVars
<1>2. ASSUME Fetch PROVE TreeOK'
  BY <1>2, FetchTakes, SameTree DEF treeVars
<1>3. ASSUME Ordinary PROVE job' = job
  BY <1>3 DEF Ordinary
<1>4. ASSUME Ordinary, MakeWriteRoot PROVE TreeOK'
  <2>1. job # NoSection
    BY <1>4 DEF MakeWriteRoot, RecordOK
  <2>2. tree' = tree \/ tree' = tree \cup {WRoot}
    BY <1>4 DEF MakeWriteRoot
  <2>3. /\ WRoot \in Paths /\ Home(WRoot) \in {Home(WriteRoot), Home(MetaRoot)} /\ Len(WRoot) = 1
        /\ Home(WRoot) = Home(MetaRoot) => Meta = "build"
    BY <2>1, JobFacts, RootsArePaths
  <2>4. ~(Len(WRoot) > 1)
    BY <2>3
  <2>5. CASE tree' = tree \cup {WRoot}
    BY <1>3, <1>4, <2>1, <2>3, <2>4, <2>5, GrownByOne
  <2>6. CASE tree' = tree
    BY <1>3, <1>4, <2>6, SameTree
  <2> QED BY <2>2, <2>5, <2>6
<1>5. ASSUME Ordinary, MakeMetaRoot PROVE TreeOK'
  <2>1. job # NoSection /\ Meta = "build"
    BY <1>5 DEF MakeMetaRoot, RecordOK, PhaseOK
  <2>2. tree' = tree \/ tree' = tree \cup {MetaRoot}
    BY <1>5 DEF MakeMetaRoot
  <2>3. MetaRoot \in Paths /\ ~(Len(MetaRoot) > 1)
    BY RootsArePaths
  <2>4. CASE tree' = tree \cup {MetaRoot}
    BY <1>3, <1>5, <2>1, <2>3, <2>4, GrownByOne
  <2>5. CASE tree' = tree
    BY <1>3, <1>5, <2>5, SameTree
  <2> QED BY <2>2, <2>4, <2>5
<1>6. ASSUME Ordinary, NEW p, (p \in flying /\ OpDone(p)) \/ (p \in orphans /\ OrphanLands(p))
      PROVE  TreeOK'
  <2>1. /\ job # NoSection /\ Meta = "build" /\ p \in Paths /\ Home(p) = Home(MetaRoot)
        /\ IsDir(Parent(p))
        /\ tree' = tree \/ (tree' = tree \cup {p} /\ Parent(p) \in tree)
    BY <1>6, LayoutAdds
  <2>2. CASE tree' = tree \cup {p} /\ Parent(p) \in tree
    BY <1>3, <1>6, <2>1, <2>2, GrownByOne
  <2>3. CASE tree' = tree
    BY <1>3, <1>6, <2>3, SameTree
  <2> QED BY <2>1, <2>2, <2>3
<1>7. ASSUME Ordinary, NEW t \in DOMAIN writers, WriteOp(t) PROVE TreeOK'
  <2>1. job # NoSection
    BY <1>7, WriteAdds
  <2>2. PICK X : /\ tree' = tree \cup X
                 /\ \A p \in X : /\ p \in Paths /\ Home(p) = Home(WRoot)
                                 /\ Len(p) > 1 => Parent(p) \in X /\ IsDir(Parent(p))
    BY <1>7, WriteAdds
  <2>3. /\ Home(WRoot) \in {Home(WriteRoot), Home(MetaRoot)}
        /\ Home(WRoot) = Home(MetaRoot) => Meta = "build"
    BY <2>1, JobFacts, RootsArePaths
  <2> QED BY <1>3, <1>7, <2>1, <2>2, <2>3, Grown
<1>8. ASSUME Ordinary, NEW t \in DOMAIN statters, NEW op \in {"create", "mkdir"}, MakeEntry(t, op)
      PROVE  TreeOK'
  <2>1. job # NoSection /\ Meta = "build"
    BY <1>8, EntryPath
  <2>2. PICK p : /\ p \in Paths /\ Len(p) = 4 /\ Home(p) = Home(MetaRoot)
                 /\ IsDir(Parent(p))
                 /\ tree' = tree \/ (Succeeds(p) /\ tree' = tree \cup {p})
    BY <1>8, EntryPath
  <2>3. CASE Succeeds(p) /\ tree' = tree \cup {p}
    <3>1. Parent(p) \in tree
      BY <2>2, <2>3 DEF Succeeds, HasParent
    <3> QED BY <1>3, <1>8, <2>1, <2>2, <2>3, <3>1, GrownByOne
  <2>4. CASE tree' = tree
    BY <1>3, <1>8, <2>4, SameTree
  <2> QED BY <2>2, <2>3, <2>4
<1>9. ASSUME Ordinary, Removal PROVE TreeOK'
  <2>1. CASE tree' = tree
    BY <1>3, <1>9, <2>1, SameTree
  <2>2. ASSUME NEW x \in Paths, tree' = tree \ {x}, Sweeping, Home(x) = Home(Walked),
               \A q \in tree : Len(q) > 1 => Parent(q) # x
        PROVE  TreeOK'
    <3>1. Home(Walked) \in {Home(WriteRoot), Home(MetaRoot)}
      <4>1. job # NoSection
        BY <2>2 DEF Sweeping, PhaseOK, RecordOK, Working
      <4> QED BY <4>1, JobFacts DEF Walked
    <3> QED BY <1>3, <1>9, <2>2, <3>1, Shrunk
  <2> QED BY <1>9, <2>1, <2>2, RemovalTakes
<1>10. ASSUME Ordinary, tree' = tree PROVE TreeOK'
  BY <1>3, <1>10, SameTree
<1>11. ASSUME NEW p, StartOp(p) \/ OpFails(p) PROVE tree' = tree
  BY <1>11 DEF StartOp, OpFails
<1>12. ASSUME NextBatch \/ BeginScan \/ ScanDirectory \/ ScanDone \/ BuildClient \/ ReadyError
                \/ BarrierOpens \/ GivenUp
       PROVE  tree' = tree
  BY <1>12 DEF NextBatch, BeginScan, ScanDirectory, ScanDone, BuildClient, ReadyError,
               BarrierOpens, GivenUp, treeVars
<1>13. ASSUME NEW e, ScanEntry(e) PROVE tree' = tree
  BY <1>13 DEF ScanEntry
<1>14. ASSUME NEW t, WriterEnds(t) \/ TargetFails(t) \/ StatterEnds(t) PROVE tree' = tree
  BY <1>14 DEF WriterEnds, TargetFails, StatterEnds, treeVars
<1>15. ASSUME Ordinary, Prepare PROVE TreeOK'
  BY <1>1, <1>2, <1>4, <1>5, <1>6, <1>10, <1>11, <1>12, <1>13, <1>15 DEF Prepare
<1>16. ASSUME Ordinary, Run PROVE TreeOK'
  BY <1>7, <1>8, <1>10, <1>14, <1>16 DEF Run
<1> QED BY <1>1, <1>2, <1>9, <1>15, <1>16, OtherSteps DEF Next

(* The root of the write runner.                                           *)
LEMMA TreeKept ==
  ASSUME PhaseOK, Ordinary, Prepare \/ Run
  PROVE  tree \subseteq tree'
<1>1. ASSUME NEW p, CreateJob(p) \/ StartOp(p) \/ OpDone(p) \/ OpFails(p) \/ OrphanLands(p)
      PROVE  tree \subseteq tree'
  BY <1>1 DEF CreateJob, StartOp, OpDone, OpFails, OrphanLands, treeVars
<1>2. ASSUME Fetch \/ MakeWriteRoot \/ MakeMetaRoot \/ NextBatch \/ BeginScan \/ ScanDirectory
               \/ ScanDone \/ BuildClient \/ ReadyError \/ BarrierOpens \/ GivenUp
      PROVE  tree \subseteq tree'
  BY <1>2 DEF Fetch, MakeWriteRoot, MakeMetaRoot, NextBatch, BeginScan, ScanDirectory, ScanDone,
              BuildClient, ReadyError, BarrierOpens, GivenUp, treeVars
<1>3. ASSUME NEW e, ScanEntry(e) PROVE tree \subseteq tree'
  BY <1>3 DEF ScanEntry
<1>4. ASSUME NEW t, WriteOp(t) \/ WriterEnds(t) \/ TargetFails(t) \/ StatterEnds(t)
      PROVE  tree \subseteq tree'
  BY <1>4 DEF WriteOp, WriterEnds, TargetFails, StatterEnds, treeVars
<1>5. ASSUME NEW t, NEW op, MakeEntry(t, op) PROVE tree \subseteq tree'
  BY <1>5 DEF MakeEntry
<1>6. CASE Prepare
  BY <1>1, <1>2, <1>3, <1>6 DEF Prepare
<1>7. CASE Run
  BY <1>4, <1>5, <1>7 DEF Run
<1> QED BY <1>6, <1>7

LEMMA RootStep ==
  ASSUME RecordOK, PhaseOK, RootOK, TreeOK, OrphansOK, WalkOK, Next
  PROVE  RootOK'
<1> DEFINE Held == {"build", "scan", "layout", "scanning", "client", "ready"}
<1>1. ASSUME NEW p \in Protos, CreateJob(p) PROVE RootOK'
  BY <1>1 DEF CreateJob, RootOK
<1>2. ASSUME Fetch PROVE RootOK'
  BY <1>2, FetchTakes DEF RootOK
<1>3. ASSUME Ordinary PROVE WRoot' = WRoot /\ Writes' = Writes
  BY <1>3, SameJob DEF Ordinary
<1>4. ASSUME Ordinary, MakeWriteRoot PROVE RootOK'
  <2>1. CASE pc' = "prepare_failed"
    BY <2>1 DEF RootOK
  <2>2. CASE pc' # "prepare_failed"
    <3>1. tree' = (IF Writes THEN tree \cup {WRoot} ELSE tree) /\ pc' = AfterRoot
      BY <1>4, <2>2 DEF MakeWriteRoot, PreparationFails
    <3>2. pc' # "run"
      BY <3>1 DEF AfterRoot, AfterTree, Meta
    <3> QED BY <1>3, <1>4, <3>1, <3>2 DEF RootOK
  <2> QED BY <2>1, <2>2
<1>5. ASSUME Ordinary, Prepare \/ Run, tree \subseteq tree',
             pc' \in Held => pc \in Held,
             pc' = "run" => (pc = "run" /\ writeRunner' = writeRunner) \/ BarrierOpens
      PROVE  RootOK'
  <2>1. pc' \in Held /\ Writes' => WRoot' \in tree'
    BY <1>3, <1>5 DEF RootOK
  <2>2. pc' = "run" /\ writeRunner' = "on" => WRoot' \in tree'
    <3>1. ASSUME BarrierOpens PROVE writeRunner' = "on" => WRoot' \in tree'
      BY <1>3, <1>5, <3>1 DEF BarrierOpens, RootOK
    <3> QED BY <1>3, <1>5, <3>1 DEF RootOK
  <2> QED BY <2>1, <2>2 DEF RootOK
<1>6. ASSUME Ordinary, Prepare PROVE RootOK'
  <2>1. tree \subseteq tree'
    BY <1>6, TreeKept
  <2>2. ASSUME NEW p, StartOp(p) \/ OpDone(p) \/ OpFails(p) \/ OrphanLands(p)
        PROVE  /\ pc' \in Held => pc \in Held
               /\ pc' = "run" => pc = "run" /\ writeRunner' = writeRunner
    BY <2>2 DEF StartOp, OpDone, OpFails, OrphanLands, taskVars
  <2>3. ASSUME MakeMetaRoot \/ NextBatch \/ BeginScan \/ ScanDirectory \/ ScanDone
                 \/ BuildClient \/ ReadyError \/ GivenUp
        PROVE  (pc' \in Held => pc \in Held) /\ pc' # "run"
    BY <2>3 DEF MakeMetaRoot, NextBatch, BatchDone, BeginScan, ScanDirectory, ScanDone, AfterTree,
                PreparationFails, BuildClient, ReadyError, GivenUp
  <2>4. ASSUME NEW e, ScanEntry(e) PROVE (pc' \in Held => pc \in Held) /\ pc' # "run"
    BY <2>4 DEF ScanEntry
  <2>5. ASSUME BarrierOpens PROVE pc' \notin Held
    BY <2>5 DEF BarrierOpens
  <2> HIDE DEF Held
  <2> QED BY <1>1, <1>2, <1>4, <1>5, <1>6, <2>1, <2>2, <2>3, <2>4, <2>5 DEF Prepare
<1>7. ASSUME Ordinary, Run PROVE RootOK'
  <2>1. tree \subseteq tree'
    BY <1>7, TreeKept
  <2>2. ASSUME NEW t, WriteOp(t) \/ WriterEnds(t) \/ TargetFails(t) \/ StatterEnds(t)
        PROVE  pc = "run" /\ pc' = pc /\ writeRunner' = writeRunner
    BY <2>2 DEF WriteOp, WriterEnds, TargetFails, StatterEnds, StatterWorks
  <2>3. ASSUME NEW t, NEW op, MakeEntry(t, op)
        PROVE  pc = "run" /\ pc' = pc /\ writeRunner' = writeRunner
    BY <2>3 DEF MakeEntry, StatterWorks
  <2>4. pc = "run" /\ pc' = pc /\ writeRunner' = writeRunner
    BY <1>7, <2>2, <2>3 DEF Run
  <2> QED BY <1>5, <1>7, <2>1, <2>4
<1>8. ASSUME Ordinary, Removal PROVE RootOK'
  <2>1. pc' \notin Held /\ (pc' = "run" => writeRunner' # "on")
    <3>1. ASSUME WriteCleanup \/ MetaCleanup \/ ReportResult \/ SweepDone
          PROVE  pc' \notin Held /\ (pc' = "run" => writeRunner' # "on")
      BY <3>1 DEF WriteCleanup, MetaCleanup, ReportResult, SweepDone, Sweeping, PhaseOK, Working
    <3>2. ASSUME VisitDirectory \/ RemoveDirectory \/ (\E e \in sweep.left : RemoveEntry(e))
          PROVE  pc' \notin Held /\ (pc' = "run" => writeRunner' # "on")
      <4>1. Sweeping /\ pc' = pc /\ writeRunner' = writeRunner
        BY <3>2 DEF VisitDirectory, RemoveDirectory, RemoveEntry, taskVars
      <4> QED BY <4>1 DEF Sweeping, PhaseOK, Working
    <3> QED BY <1>8, <3>1, <3>2 DEF Removal
  <2> QED BY <2>1 DEF RootOK
<1> QED BY <1>1, <1>2, <1>6, <1>7, <1>8, OtherSteps DEF Next

LEMMA OrphansStep ==
  ASSUME RecordOK, PhaseOK, OrphansOK, MakingOK, Next
  PROVE  OrphansOK'
<1>1. ASSUME NEW p \in Protos, CreateJob(p) PROVE OrphansOK'
  BY <1>1 DEF CreateJob, OrphansOK, treeVars
<1>2. ASSUME Fetch PROVE OrphansOK'
  <2>1. /\ pc = "fetch" /\ pc' = "write_root" /\ job' # NoSection
        /\ job = NoSection \/ job' = job
        /\ orphans' = orphans /\ leftover' = leftover
    BY <1>2, FetchTakes DEF treeVars
  <2> QED BY <2>1, SameJob DEF OrphansOK
<1>3. ASSUME Ordinary PROVE Meta' = Meta /\ job' = job /\ (leftover => leftover')
  BY <1>3, SameJob DEF Ordinary
<1>4. ASSUME Ordinary, orphans' \subseteq orphans, pc' # "idle",
             pc = "prepare_failed" => pc' = "prepare_failed" \/ ReadyError
      PROVE  OrphansOK'
  <2> SUFFICES ASSUME orphans' # {} PROVE OrphansOK'
    BY DEF OrphansOK
  <2>1. orphans # {}
    BY <1>4
  <2>2. leftover' \/ pc' = "prepare_failed"
    <3>1. ReadyError => leftover'
      BY <2>1 DEF ReadyError
    <3> QED BY <1>3, <1>4, <2>1, <3>1 DEF OrphansOK
  <2> QED BY <1>3, <1>4, <2>1, <2>2 DEF OrphansOK
<1>5. ASSUME NEW X, Ordinary, orphans' = orphans \cup X, pc' = "prepare_failed", pc # "idle",
             X # {} => /\ job # NoSection /\ Meta = "build" /\ X \subseteq Layout(job.metadata)
      PROVE  OrphansOK'
  BY <1>3, <1>5 DEF OrphansOK
<1>6. flying # {} => pc = "layout" /\ job # NoSection /\ Meta = "build"
                     /\ flying \subseteq Layout(job.metadata)
  <2> SUFFICES ASSUME flying # {}
               PROVE  pc = "layout" /\ job # NoSection /\ Meta = "build"
                      /\ flying \subseteq Layout(job.metadata)
    OBVIOUS
  <2>1. pc = "layout" /\ job # NoSection /\ Meta = "build"
    BY DEF PhaseOK, RecordOK
  <2>2. batch \in 1..Len(Batches(job.metadata)) /\ flying \subseteq Batches(job.metadata)[batch]
    BY <2>1 DEF MakingOK
  <2> QED BY <2>1, <2>2 DEF Layout
<1>7. ASSUME Ordinary, PreparationFails, pc # "idle" PROVE OrphansOK'
  <2>1. orphans' = orphans \cup flying /\ pc' = "prepare_failed"
    BY <1>7 DEF PreparationFails
  <2> QED BY <1>5, <1>6, <1>7, <2>1
<1>8. ASSUME Ordinary, Prepare PROVE OrphansOK'
  <2>1. ASSUME MakeWriteRoot \/ MakeMetaRoot \/ ScanDirectory \/ ScanDone PROVE OrphansOK'
    <3>1. pc \notin {"idle", "prepare_failed"}
      BY <2>1 DEF MakeWriteRoot, MakeMetaRoot, ScanDirectory, ScanDone
    <3>2. PreparationFails \/ orphans' = orphans
      BY <2>1 DEF MakeWriteRoot, MakeMetaRoot, ScanDirectory, ScanDone
    <3>3. pc' # "idle"
      BY <1>8, <3>1 DEF Ordinary
    <3> QED BY <1>4, <1>7, <1>8, <3>1, <3>2, <3>3
  <2>2. ASSUME NEW p \in flying, OpFails(p) PROVE OrphansOK'
    <3>1. orphans' = orphans \cup (flying \ {p}) /\ pc' = "prepare_failed" /\ pc = "layout"
      BY <2>2 DEF OpFails
    <3> QED BY <1>5, <1>6, <1>8, <3>1
  <2>3. ASSUME NEW p \in orphans, OrphanLands(p) PROVE OrphansOK'
    <3>1. orphans' \subseteq orphans /\ pc' = pc /\ pc # "idle"
      BY <2>3 DEF OrphanLands, OrphansOK
    <3> QED BY <1>4, <1>8, <3>1
  <2>4. ASSUME NEW p, StartOp(p) \/ OpDone(p) PROVE OrphansOK'
    <3>1. orphans' = orphans /\ pc' = pc /\ pc = "layout"
      BY <2>4 DEF StartOp, OpDone
    <3> QED BY <1>4, <1>8, <3>1
  <2>5. ASSUME NextBatch \/ BeginScan \/ BuildClient \/ BarrierOpens \/ GivenUp PROVE OrphansOK'
    <3>1. orphans' = orphans /\ pc \notin {"idle", "prepare_failed"}
      BY <2>5 DEF NextBatch, BatchDone, BeginScan, BuildClient, BarrierOpens, GivenUp, treeVars
    <3>2. pc' # "idle"
      BY <1>8, <3>1 DEF Ordinary
    <3> QED BY <1>4, <1>8, <3>1, <3>2
  <2>6. ASSUME ReadyError PROVE OrphansOK'
    <3>1. orphans' = orphans /\ pc' # "idle"
      BY <2>6 DEF ReadyError, treeVars
    <3> QED BY <1>4, <1>8, <2>6, <3>1
  <2>7. ASSUME NEW e, ScanEntry(e) PROVE OrphansOK'
    <3>1. orphans' = orphans /\ pc' = pc /\ pc = "scanning"
      BY <2>7 DEF ScanEntry
    <3> QED BY <1>4, <1>8, <3>1
  <2> QED BY <1>1, <1>2, <1>8, <2>1, <2>2, <2>3, <2>4, <2>5, <2>6, <2>7 DEF Prepare
<1>9. ASSUME Ordinary, Run \/ Removal PROVE OrphansOK'
  <2>1. orphans' = orphans /\ pc \in {"run", "sweep", "report"}
    <3>1. ASSUME NEW t, WriteOp(t) \/ WriterEnds(t) \/ TargetFails(t) \/ StatterEnds(t)
          PROVE  orphans' = orphans /\ pc = "run"
      BY <3>1 DEF WriteOp, WriterEnds, TargetFails, StatterEnds, StatterWorks, treeVars
    <3>2. ASSUME NEW t, NEW op, MakeEntry(t, op) PROVE orphans' = orphans /\ pc = "run"
      BY <3>2 DEF MakeEntry, StatterWorks
    <3>3. ASSUME WriteCleanup \/ MetaCleanup \/ ReportResult
          PROVE  orphans' = orphans /\ pc \in {"run", "sweep", "report"}
      BY <3>3 DEF WriteCleanup, MetaCleanup, ReportResult, treeVars
    <3>4. ASSUME VisitDirectory \/ RemoveDirectory \/ SweepDone \/ (\E e \in sweep.left : RemoveEntry(e))
          PROVE  orphans' = orphans /\ pc \in {"run", "sweep", "report"}
      BY <3>4 DEF VisitDirectory, RemoveDirectory, SweepDone, RemoveEntry, Sweeping, PhaseOK,
                  Working, treeVars
    <3> QED BY <1>9, <3>1, <3>2, <3>3, <3>4 DEF Run, Removal
  <2>2. pc' # "idle"
    BY <1>9, <2>1 DEF Ordinary
  <2> QED BY <1>4, <1>9, <2>1, <2>2
<1> QED BY <1>1, <1>2, <1>8, <1>9, OtherSteps DEF Next

(* The making of the tree.                                                 *)
LEMMA NoChildrenYet ==
  ASSUME TreeOK, NEW r \in Paths, r \notin tree
  PROVE  Children(r) = {} /\ (tree' = tree \cup {r} => Children(r)' = {})
<1>1. Len(r) \in Nat /\ Len(r) > 0
  BY LastName
<1>2. \A q \in tree : ~(Len(q) = Len(r) + 1 /\ Parent(q) = r)
  BY <1>1 DEF TreeOK, IsTree
<1>3. Len(r) # Len(r) + 1
  BY <1>1
<1> QED BY <1>2, <1>3 DEF Children

(* Nothing else enters the making of a tree.                               *)
LEMMA Makers ==
  ASSUME RecordOK, PhaseOK, OrphansOK, Next, pc' = "layout"
  PROVE  /\ job' = job /\ leftover' = leftover
         /\ \/ MakeMetaRoot \/ (NextBatch /\ batch < Len(Batches(job.metadata)))
            \/ \E p \in todo : StartOp(p)
            \/ \E p \in flying : OpDone(p)
            \/ pc = "layout" /\ leftover /\ \E p \in orphans : OrphanLands(p)
<1>1. CASE Prepare
  <2>1. ASSUME (\E p \in Protos : CreateJob(p)) \/ Fetch \/ MakeWriteRoot \/ BeginScan
                 \/ ScanDirectory \/ ScanDone
        PROVE  FALSE
    BY <2>1 DEF CreateJob, Fetch, MakeWriteRoot, AfterRoot, AfterTree, Meta, BeginScan, ScanDirectory,
                ScanDone, PreparationFails
  <2>2. ASSUME BuildClient \/ ReadyError \/ BarrierOpens \/ GivenUp PROVE FALSE
    BY <2>2 DEF BuildClient, ReadyError, BarrierOpens, GivenUp
  <2>3. ASSUME NEW p, OpFails(p) \/ ScanEntry(p) PROVE FALSE
    BY <2>3 DEF OpFails, ScanEntry
  <2>4. ASSUME NEW p \in orphans, OrphanLands(p)
        PROVE  pc = "layout" /\ leftover /\ job' = job /\ leftover' = leftover
    BY <2>4 DEF OrphanLands, OrphansOK, jobVars, boundVars
  <2>5. ASSUME NextBatch
        PROVE  job' = job /\ leftover' = leftover /\ batch < Len(Batches(job.metadata))
    BY <2>5 DEF NextBatch, BatchDone, AfterTree, jobVars, boundVars
  <2>6. ASSUME MakeMetaRoot \/ (\E p : StartOp(p) \/ OpDone(p))
        PROVE  job' = job /\ leftover' = leftover
    BY <2>6 DEF MakeMetaRoot, StartOp, OpDone, jobVars, boundVars
  <2> QED BY <1>1, <2>1, <2>2, <2>3, <2>4, <2>5, <2>6 DEF Prepare
<1>2. CASE Run
  <2>1. ASSUME NEW t, WriteOp(t) \/ WriterEnds(t) \/ TargetFails(t) \/ StatterEnds(t) PROVE FALSE
    BY <2>1 DEF WriteOp, WriterEnds, TargetFails, StatterEnds, StatterWorks
  <2>2. ASSUME NEW t, NEW op, MakeEntry(t, op) PROVE FALSE
    BY <2>2 DEF MakeEntry, StatterWorks
  <2> QED BY <1>2, <2>1, <2>2 DEF Run
<1>3. CASE Removal
  <2>1. ASSUME WriteCleanup \/ MetaCleanup \/ ReportResult PROVE FALSE
    BY <2>1 DEF WriteCleanup, MetaCleanup, ReportResult
  <2>2. ASSUME VisitDirectory \/ RemoveDirectory \/ SweepDone
                 \/ (\E e \in sweep.left : RemoveEntry(e))
        PROVE  FALSE
    BY <2>2 DEF VisitDirectory, RemoveDirectory, SweepDone, RemoveEntry, Sweeping, PhaseOK, Working
  <2> QED BY <1>3, <2>1, <2>2 DEF Removal
<1> QED BY <1>1, <1>2, <1>3 DEF Next

LEMMA MakingStep ==
  ASSUME RecordOK, PhaseOK, TreeOK, OrphansOK, MakingOK, FreshOK, Next
  PROVE  MakingOK'
<1> SUFFICES ASSUME pc' = "layout" PROVE MakingOK'
  BY DEF MakingOK
<1> DEFINE m == job.metadata
           B == Batches(m)
           W == todo \cup flying
           D == Done(batch, W)
<1>1. /\ job' = job /\ leftover' = leftover
      /\ \/ MakeMetaRoot \/ (NextBatch /\ batch < Len(B))
         \/ \E p \in todo : StartOp(p)
         \/ \E p \in flying : OpDone(p)
         \/ pc = "layout" /\ leftover /\ \E p \in orphans : OrphanLands(p)
  BY Makers
<1>2. pc \in {"build", "layout"}
  BY <1>1 DEF MakeMetaRoot, NextBatch, BatchDone, StartOp, OpDone
<1>3. job # NoSection /\ Meta = "build"
  BY <1>2 DEF RecordOK, PhaseOK
<1>4. GoodTree(m)
  BY <1>3, JobFacts
<1>5. m.layoutConcurrency \in Nat \ {0} /\ m.concurrency \in Nat
  BY <1>4 DEF GoodTree
<1>6. Len(B) \in Nat \ {0} /\ Built(m, 0) = {}
      /\ \A k \in 1..Len(B) : Built(m, k) = Built(m, k - 1) \cup B[k]
  BY <1>4, BuiltAre
<1>7. pc = "layout" =>
        /\ batch \in 1..Len(B) /\ W \subseteq B[batch] /\ todo \cap flying = {}
        /\ IsFiniteSet(flying) /\ Cardinality(flying) \in Nat
        /\ Cardinality(flying) <= m.layoutConcurrency
        /\ D \cup {MetaRoot} \subseteq tree
        /\ ~leftover => At(MetaRoot) \subseteq D \cup {MetaRoot}
        /\ \A t \in 1..m.concurrency : TaskRoot(t) \in D => Children(TaskRoot(t)) = {}
  BY FS_CardinalityType DEF MakingOK
<1>8. CASE MakeMetaRoot
  <2>1. /\ pc = "build" /\ tree' = tree \cup {MetaRoot} /\ batch' = 1 /\ todo' = B[1]
        /\ flying' = {}
    BY <1>8 DEF MakeMetaRoot, PreparationFails, PhaseOK
  <2>2. Built(m, 1 - 1) \cup (B[1] \ (todo' \cup flying')) = {}
    BY <1>6, <2>1
  <2>3. ~leftover => At(MetaRoot)' \subseteq {MetaRoot}
    BY <2>1 DEF FreshOK, At
  <2>4. 1 \in 1..Len(B) /\ IsFiniteSet({}) /\ Cardinality({}) = 0 /\ 0 <= m.layoutConcurrency
    BY <1>5, <1>6, FS_EmptySet
  <2> QED BY <1>1, <2>1, <2>2, <2>3, <2>4 DEF MakingOK, Done
<1>9. ASSUME NEW p \in todo, StartOp(p) PROVE MakingOK'
  <2>1. /\ pc = "layout" /\ tree' = tree /\ batch' = batch
        /\ todo' = todo \ {p} /\ flying' = flying \cup {p}
        /\ Cardinality(flying) < m.layoutConcurrency
    BY <1>9 DEF StartOp
  <2>2. todo' \cup flying' = W /\ todo' \cap flying' = {}
    BY <1>7, <1>9, <2>1
  <2>3. p \notin flying
    BY <1>7, <1>9, <2>1
  <2>4. IsFiniteSet(flying') /\ Cardinality(flying') = Cardinality(flying) + 1
    BY <1>7, <2>1, <2>3, FS_AddElement
  <2>5. Cardinality(flying') <= m.layoutConcurrency
    BY <1>5, <1>7, <2>1, <2>4
  <2>6. \A t : Children(TaskRoot(t))' = Children(TaskRoot(t))
    BY <2>1 DEF Children
  <2>7. At(MetaRoot)' = At(MetaRoot)
    BY <2>1 DEF At
  <2> QED BY <1>1, <1>7, <2>1, <2>2, <2>4, <2>5, <2>6, <2>7 DEF MakingOK, Done
<1>10. ASSUME NEW p \in flying, OpDone(p) PROVE MakingOK'
  <2>1. /\ pc = "layout" /\ tree' = tree \cup {p} /\ batch' = batch /\ todo' = todo
        /\ flying' = flying \ {p} /\ Succeeds(p)
    BY <1>10 DEF OpDone
  <2>2. /\ p \in Paths /\ Home(p) = Home(MetaRoot) /\ \A t \in Nat : Parent(p) # TaskRoot(t)
    BY <1>10, LayoutAdds
  <2>3. p \in B[batch] /\ p \notin todo
    BY <1>7, <1>10, <2>1
  <2>4. /\ todo' \cup flying' \subseteq B[batch] /\ todo' \cap flying' = {}
        /\ Done(batch, todo' \cup flying') = D \cup {p}
    BY <1>7, <1>10, <2>1, <2>3 DEF Done
  <2>5. IsFiniteSet(flying') /\ Cardinality(flying') = Cardinality(flying) - 1
    BY <1>7, <1>10, <2>1, FS_RemoveElement
  <2>6. Cardinality(flying') <= m.layoutConcurrency
    BY <1>5, <1>7, <2>1, <2>5
  <2>7. ~leftover => At(MetaRoot)' \subseteq D \cup {p} \cup {MetaRoot}
    BY <1>7, <2>1 DEF At
  <2>8. ASSUME NEW t \in 1..m.concurrency, TaskRoot(t) \in D \cup {p}
        PROVE  Children(TaskRoot(t))' = {}
    <3>1. t \in Nat
      BY <1>5
    <3>2. CASE TaskRoot(t) = p
      <4>1. IsDir(p)
        BY <3>1, <3>2, TaskRoots DEF IsDir, DirKinds
      <4>2. p \notin tree
        BY <2>1, <4>1 DEF Succeeds
      <4> QED BY <2>1, <2>2, <3>2, <4>2, NoChildrenYet
    <3>3. CASE TaskRoot(t) # p
      <4>1. Children(TaskRoot(t)) = {}
        BY <1>7, <2>1, <2>8, <3>3
      <4>2. Parent(p) # TaskRoot(t)
        BY <2>2, <3>1
      <4>3. Children(TaskRoot(t))' = Children(TaskRoot(t))
        BY <2>1, <4>2 DEF Children
      <4> QED BY <4>1, <4>3
    <3> QED BY <3>2, <3>3
  <2> HIDE DEF D
  <2>9. Done(batch', todo' \cup flying') = D \cup {p}
    BY <2>1, <2>4
  <2>10. /\ batch' \in 1..Len(B) /\ todo' \cup flying' \subseteq B[batch']
         /\ todo' \cap flying' = {} /\ IsFiniteSet(flying')
         /\ Cardinality(flying') <= m.layoutConcurrency
    BY <1>7, <2>1, <2>4, <2>5, <2>6
  <2>11. (D \cup {p}) \cup {MetaRoot} \subseteq tree'
    BY <1>7, <2>1
  <2>12. ~leftover' => At(MetaRoot)' \subseteq (D \cup {p}) \cup {MetaRoot}
    BY <1>1, <2>7
  <2>13. (Done(batch, todo \cup flying))' = D \cup {p}
    BY <1>1, <2>9 DEF Done
  <2> HIDE DEF B
  <2>14. Batches(job.metadata)' = B
    BY <1>1 DEF B
  <2> QED BY <1>1, <2>8, <2>10, <2>11, <2>12, <2>13, <2>14 DEF MakingOK
<1>11. ASSUME pc = "layout", leftover, NEW p \in orphans, OrphanLands(p) PROVE MakingOK'
  <2>1. /\ batch' = batch /\ todo' = todo /\ flying' = flying /\ tree \subseteq tree'
    BY <1>11 DEF OrphanLands
  <2>2. /\ \A t \in Nat : Parent(p) # TaskRoot(t)
        /\ tree' = tree \/ tree' = tree \cup {p}
    BY <1>11, LayoutAdds
  <2>4. \A t \in 1..m.concurrency : TaskRoot(t) \in D => Children(TaskRoot(t))' = {}
    <3> SUFFICES ASSUME NEW t \in 1..m.concurrency, TaskRoot(t) \in D
                 PROVE  Children(TaskRoot(t))' = {}
      OBVIOUS
    <3>1. t \in Nat
      BY <1>5
    <3>2. Parent(p) # TaskRoot(t)
      BY <2>2, <3>1
    <3>3. Children(TaskRoot(t))' = Children(TaskRoot(t))
      BY <2>2, <3>2 DEF Children
    <3>4. Children(TaskRoot(t)) = {}
      BY <1>7, <1>11
    <3> QED BY <3>3, <3>4
  <2>5. (Done(batch, todo \cup flying))' = D
    BY <1>1, <2>1 DEF Done
  <2>6. /\ batch' \in 1..Len(B) /\ todo' \cup flying' \subseteq B[batch']
        /\ todo' \cap flying' = {} /\ IsFiniteSet(flying')
        /\ Cardinality(flying') <= m.layoutConcurrency
    BY <1>7, <1>11, <2>1
  <2>7. D \cup {MetaRoot} \subseteq tree'
    BY <1>7, <1>11, <2>1
  <2> HIDE DEF B, D
  <2>8. Batches(job.metadata)' = B
    BY <1>1 DEF B
  <2> QED BY <1>1, <1>11, <2>4, <2>5, <2>6, <2>7, <2>8 DEF MakingOK
<1>12. ASSUME NextBatch, batch < Len(B) PROVE MakingOK'
  <2>1. /\ pc = "layout" /\ todo = {} /\ flying = {} /\ flying' = {} /\ tree' = tree
        /\ batch' = batch + 1 /\ todo' = B[batch + 1]
    BY <1>12 DEF NextBatch, BatchDone
  <2>2. batch + 1 \in 1..Len(B) /\ (batch + 1) - 1 = batch
    BY <1>6, <1>7, <1>12, <2>1
  <2>3. D = Built(m, batch)
    BY <1>6, <1>7, <2>1 DEF Done
  <2>4. Done(batch', todo' \cup flying') = D
    BY <2>1, <2>2, <2>3 DEF Done
  <2>5. IsFiniteSet({}) /\ Cardinality({}) = 0 /\ 0 <= m.layoutConcurrency
    BY <1>5, FS_EmptySet
  <2>6. \A t : Children(TaskRoot(t))' = Children(TaskRoot(t))
    BY <2>1 DEF Children
  <2>7. At(MetaRoot)' = At(MetaRoot)
    BY <2>1 DEF At
  <2> HIDE DEF D
  <2>8. (Done(batch, todo \cup flying))' = D
    BY <1>1, <2>4 DEF Done
  <2>9. /\ D \cup {MetaRoot} \subseteq tree'
        /\ ~leftover => At(MetaRoot)' \subseteq D \cup {MetaRoot}
        /\ \A t \in 1..m.concurrency : TaskRoot(t) \in D => Children(TaskRoot(t))' = {}
    BY <1>7, <2>1, <2>6, <2>7
  <2>10. /\ batch' \in 1..Len(B) /\ todo' \cup flying' \subseteq B[batch']
         /\ todo' \cap flying' = {} /\ IsFiniteSet(flying')
         /\ Cardinality(flying') <= m.layoutConcurrency
    BY <2>1, <2>2, <2>5
  <2> HIDE DEF B
  <2>11. Batches(job.metadata)' = B
    BY <1>1 DEF B
  <2> QED BY <1>1, <2>8, <2>9, <2>10, <2>11 DEF MakingOK
<1> QED BY <1>1, <1>8, <1>9, <1>10, <1>11, <1>12

LEMMA FreshStep ==
  ASSUME RecordOK, PhaseOK, TreeOK, OrphansOK, FreshOK, Next
  PROVE  FreshOK'
<1> DEFINE Held == {"fetch", "write_root", "build"}
<1> SUFFICES ASSUME pc' \in Held, ~leftover' PROVE At(MetaRoot)' \subseteq {MetaRoot}
  BY DEF FreshOK
<1>0. \A p \in tree : p \in Paths
  BY DEF TreeOK, IsTree
<1>1. ASSUME NEW p \in Protos, CreateJob(p) PROVE At(MetaRoot)' \subseteq {MetaRoot}
  BY <1>1 DEF CreateJob, RecordOK, TreeOK, At, treeVars
<1>2. ASSUME tree' = tree, leftover' = leftover, pc \in Held
      PROVE  At(MetaRoot)' \subseteq {MetaRoot}
  BY <1>2 DEF FreshOK, At
<1>3. ASSUME Fetch PROVE At(MetaRoot)' \subseteq {MetaRoot}
  BY <1>2, <1>3, FetchTakes DEF treeVars
<1>4. ASSUME MakeWriteRoot PROVE At(MetaRoot)' \subseteq {MetaRoot}
  <2>1. /\ pc = "write_root" /\ leftover' = leftover
        /\ tree' = tree \/ tree' = tree \cup {WRoot}
    BY <1>4 DEF MakeWriteRoot, boundVars
  <2>2. WRoot \in {WriteRoot, MetaRoot}
    BY DEF WRoot
  <2>3. At(MetaRoot) \subseteq {MetaRoot}
    BY <2>1 DEF FreshOK
  <2> QED BY <2>1, <2>2, <2>3, RootsArePaths DEF At
<1>5. ASSUME ReadyError PROVE At(MetaRoot)' \subseteq {MetaRoot}
  <2>1. Under(MetaRoot) = {} /\ tree' = tree
    BY <1>5 DEF ReadyError, treeVars
  <2>2. \A p \in tree : Home(p) = Home(MetaRoot) => p \in Under(MetaRoot)
    BY <1>0, RootsArePaths, UnderRoot DEF Under
  <2> QED BY <2>1, <2>2 DEF At
<1>6. ASSUME ReportResult PROVE At(MetaRoot)' \subseteq {MetaRoot}
  <2>1. (Meta = "build" => Under(MetaRoot) = {}) /\ tree' = tree /\ pc = "report"
    BY <1>6 DEF ReportResult
  <2>2. \A p \in tree : Home(p) = Home(MetaRoot) => p \in Under(MetaRoot)
    BY <1>0, RootsArePaths, UnderRoot DEF Under
  <2>3. Meta # "build" => At(MetaRoot) = {}
    BY <2>1 DEF TreeOK, RecordOK
  <2> QED BY <2>1, <2>2, <2>3 DEF At
<1>7. ASSUME NEW p \in orphans, OrphanLands(p) PROVE FALSE
  BY <1>7 DEF OrphanLands, OrphansOK, boundVars
<1>8. ASSUME MakeMetaRoot \/ NextBatch \/ BeginScan \/ ScanDirectory \/ ScanDone \/ BuildClient
               \/ BarrierOpens \/ GivenUp
      PROVE  FALSE
  BY <1>8 DEF MakeMetaRoot, NextBatch, BatchDone, AfterTree, BeginScan, ScanDirectory, ScanDone,
              PreparationFails, BuildClient, BarrierOpens, GivenUp
<1>9. ASSUME NEW p, StartOp(p) \/ OpDone(p) \/ OpFails(p) \/ ScanEntry(p) PROVE FALSE
  BY <1>9 DEF StartOp, OpDone, OpFails, ScanEntry
<1>10. ASSUME NEW t, WriteOp(t) \/ WriterEnds(t) \/ TargetFails(t) \/ StatterEnds(t) PROVE FALSE
  BY <1>10 DEF WriteOp, WriterEnds, TargetFails, StatterEnds, StatterWorks
<1>11. ASSUME NEW t, NEW op, MakeEntry(t, op) PROVE FALSE
  BY <1>11 DEF MakeEntry, StatterWorks
<1>12. ASSUME WriteCleanup \/ MetaCleanup \/ VisitDirectory \/ RemoveDirectory \/ SweepDone
                \/ (\E e \in sweep.left : RemoveEntry(e))
       PROVE  FALSE
  BY <1>12 DEF WriteCleanup, MetaCleanup, VisitDirectory, RemoveDirectory, SweepDone, RemoveEntry,
               Sweeping, PhaseOK, Working
<1>13. CASE Prepare
  BY <1>1, <1>3, <1>4, <1>5, <1>7, <1>8, <1>9, <1>13 DEF Prepare
<1>14. CASE Run
  BY <1>10, <1>11, <1>14 DEF Run
<1>15. CASE Removal
  BY <1>6, <1>12, <1>15 DEF Removal
<1> QED BY <1>13, <1>14, <1>15 DEF Next

(* The tree that has been made.                                            *)
LEMMA Onward ==
  ASSUME PhaseOK, Prepare, Ordinary, pc' \in {"client", "ready", "run"}, Meta = "build"
  PROVE  \/ NextBatch /\ ~(batch < Len(Batches(job.metadata))) /\ pc' # "run"
         \/ pc = "client" /\ pc' = "ready" /\ tree' = tree
         \/ BarrierOpens
         \/ pc' = pc /\ \E p \in orphans : OrphanLands(p)
<1>1. ASSUME (\E p \in Protos : CreateJob(p)) \/ Fetch \/ MakeWriteRoot \/ MakeMetaRoot
               \/ BeginScan \/ ScanDirectory \/ ScanDone \/ ReadyError \/ GivenUp
      PROVE  FALSE
  BY <1>1 DEF CreateJob, Fetch, MakeWriteRoot, AfterRoot, MakeMetaRoot, BeginScan, ScanDirectory,
              ScanDone, PreparationFails, ReadyError, GivenUp, PhaseOK
<1>2. ASSUME NEW p, StartOp(p) \/ OpDone(p) \/ OpFails(p) \/ ScanEntry(p) PROVE FALSE
  BY <1>2 DEF StartOp, OpDone, OpFails, ScanEntry
<1>3. ASSUME NextBatch PROVE ~(batch < Len(Batches(job.metadata))) /\ pc' # "run"
  BY <1>3 DEF NextBatch, BatchDone, AfterTree
<1>4. ASSUME BuildClient PROVE pc = "client" /\ pc' = "ready" /\ tree' = tree
  BY <1>4 DEF BuildClient, treeVars
<1>5. ASSUME NEW p, OrphanLands(p) PROVE pc' = pc
  BY <1>5 DEF OrphanLands
<1> QED BY <1>1, <1>2, <1>3, <1>4, <1>5 DEF Prepare

LEMMA BuiltStep ==
  ASSUME RecordOK, PhaseOK, TreeOK, OrphansOK, MakingOK, BuiltOK, ScanOK, WalkOK, Next
  PROVE  BuiltOK'
<1> DEFINE m == job.metadata
           Numbered(t) == \A p \in Children(TaskRoot(t)) :
                            Last(p)[1] = "mkdir" => Last(p)[2] <= made[t]
<1> SUFFICES ASSUME pc' \in {"client", "ready", "run"}, Meta' = "build"
             PROVE  BuiltOK'
  BY DEF BuiltOK
<1>1. Ordinary
  <2>1. ASSUME NEW p, CreateJob(p) PROVE FALSE
    BY <2>1 DEF CreateJob
  <2>2. ASSUME Fetch PROVE FALSE
    BY <2>2, FetchTakes
  <2> QED BY <2>1, <2>2, OtherSteps
<1>2. job' = job /\ Meta = "build" /\ SharedDir' = SharedDir /\ job # NoSection
  <2>1. job' = job
    BY <1>1 DEF Ordinary
  <2>2. job' # NoSection
    BY RecordStep DEF RecordOK
  <2> QED BY <2>1, <2>2, SameJob
<1>3. GoodTree(m) /\ m.concurrency \in Nat
  BY <1>2, JobFacts DEF GoodTree
<1>4. /\ \A t \in 1..m.concurrency : TaskRoot(t) \in Layout(m)
      /\ \A p \in Layout(m) : Home(p) = Home(MetaRoot)
  BY <1>3, LayoutIs
<1>5. Statters = 1..m.concurrency
  BY <1>2 DEF Statters
<1>6. ASSUME pc' \in {"client", "ready"} \/ ~SharedDir PROVE Layout(m) \subseteq tree'
  <2>1. CASE Prepare
    <3>1. tree \subseteq tree'
      BY <1>1, <2>1, TreeKept
    <3>2. ASSUME NextBatch, ~(batch < Len(Batches(m))) PROVE Layout(m) \subseteq tree
      <4>1. /\ pc = "layout" /\ todo = {} /\ flying = {}
        BY <3>2 DEF NextBatch, BatchDone
      <4>2. /\ batch \in 1..Len(Batches(m)) /\ Done(batch, {}) \subseteq tree
        BY <4>1 DEF MakingOK
      <4>3. batch = Len(Batches(m)) /\ Done(batch, {}) = Layout(m)
        BY <1>3, <3>2, <4>2, BuiltAre DEF Done
      <4> QED BY <4>2, <4>3
    <3>3. ASSUME pc = "client" /\ pc' = "ready" PROVE Layout(m) \subseteq tree
      BY <1>2, <3>3 DEF BuiltOK
    <3>4. ASSUME BarrierOpens PROVE Layout(m) \subseteq tree
      BY <1>2, <3>4 DEF BuiltOK, BarrierOpens
    <3>5. ASSUME pc' = pc PROVE Layout(m) \subseteq tree
      BY <1>2, <1>6, <3>5 DEF BuiltOK
    <3> QED BY <1>1, <1>2, <2>1, <3>1, <3>2, <3>3, <3>4, <3>5, Onward
  <2>2. CASE Run
    <3>1. tree \subseteq tree'
      BY <1>1, <2>2, TreeKept
    <3>2. pc = "run" /\ pc' = pc
      BY <2>2 DEF Run, WriteOp, WriterEnds, TargetFails, StatterEnds, StatterWorks, MakeEntry
    <3> QED BY <1>2, <1>6, <3>1, <3>2 DEF BuiltOK
  <2>3. CASE Removal
    <3>1. pc = "run" /\ pc' = pc
      <4>1. ASSUME WriteCleanup \/ MetaCleanup \/ ReportResult \/ SweepDone PROVE pc = "run" /\ pc' = pc
        BY <4>1 DEF WriteCleanup, MetaCleanup, ReportResult, SweepDone, Sweeping, PhaseOK, Working
      <4>2. ASSUME VisitDirectory \/ RemoveDirectory \/ (\E e \in sweep.left : RemoveEntry(e))
            PROVE  pc = "run" /\ pc' = pc
        <5>1. Sweeping /\ pc' = pc
          BY <4>2 DEF VisitDirectory, RemoveDirectory, RemoveEntry
        <5> QED BY <5>1 DEF Sweeping, PhaseOK, Working
      <4> QED BY <2>3, <4>1, <4>2 DEF Removal
    <3>2. ~SharedDir /\ Walked = WriteRoot /\ Layout(m) \subseteq tree
      BY <1>2, <1>6, <3>1, JobFacts DEF Walked, BuiltOK
    <3>3. tree' = tree \/ \E x : tree' = tree \ {x} /\ Home(x) = Home(WriteRoot)
      BY <2>3, <3>2, RemovalTakes
    <3> QED BY <1>4, <3>2, <3>3, RootsArePaths
  <2> QED BY <2>1, <2>2, <2>3 DEF Next
<1>7. ASSUME pc' \in {"client", "ready"}, NEW t \in 1..m.concurrency
      PROVE  Children(TaskRoot(t))' = {}
  <2>1. t \in Nat
    BY <1>3
  <2>2. Prepare
    <3>1. ASSUME Run PROVE FALSE
      BY <1>7, <3>1 DEF Run, WriteOp, WriterEnds, TargetFails, StatterEnds, StatterWorks, MakeEntry
    <3>2. ASSUME WriteCleanup \/ MetaCleanup \/ ReportResult \/ SweepDone PROVE FALSE
      BY <1>7, <3>2 DEF WriteCleanup, MetaCleanup, ReportResult, SweepDone, Sweeping, PhaseOK, Working
    <3>3. ASSUME VisitDirectory \/ RemoveDirectory \/ (\E e \in sweep.left : RemoveEntry(e))
          PROVE  FALSE
      <4>1. Sweeping /\ pc' = pc
        BY <3>3 DEF VisitDirectory, RemoveDirectory, RemoveEntry
      <4> QED BY <1>7, <4>1 DEF Sweeping, PhaseOK, Working
    <3> QED BY <3>1, <3>2, <3>3 DEF Next, Removal
  <2>3. ASSUME NextBatch, ~(batch < Len(Batches(m))) PROVE Children(TaskRoot(t))' = {}
    <3>1. pc = "layout" /\ todo = {} /\ flying = {} /\ tree' = tree
      BY <2>3 DEF NextBatch, BatchDone
    <3>2. /\ batch \in 1..Len(Batches(m))
          /\ TaskRoot(t) \in Done(batch, {}) => Children(TaskRoot(t)) = {}
      BY <3>1 DEF MakingOK
    <3>3. batch = Len(Batches(m)) /\ Done(batch, {}) = Layout(m)
      BY <1>3, <2>3, <3>2, BuiltAre DEF Done
    <3>4. Children(TaskRoot(t)) = {}
      BY <1>4, <3>2, <3>3
    <3> QED BY <3>1, <3>4 DEF Children
  <2>4. ASSUME pc \in {"client", "ready"} PROVE Children(TaskRoot(t)) = {}
    BY <1>2, <2>4 DEF BuiltOK
  <2>5. ASSUME pc = "client", tree' = tree PROVE Children(TaskRoot(t))' = {}
    BY <2>4, <2>5 DEF Children
  <2>6. ASSUME pc' = pc, NEW p \in orphans, OrphanLands(p) PROVE Children(TaskRoot(t))' = {}
    <3>1. Parent(p) # TaskRoot(t) /\ (tree' = tree \/ tree' = tree \cup {p})
      BY <2>1, <2>6, LayoutAdds
    <3>2. Children(TaskRoot(t))' = Children(TaskRoot(t))
      BY <3>1 DEF Children
    <3> QED BY <1>7, <2>4, <2>6, <3>2
  <2>7. ~BarrierOpens
    BY <1>7 DEF BarrierOpens
  <2> QED BY <1>1, <1>2, <2>2, <2>3, <2>5, <2>6, <2>7, Onward
<1>8. ASSUME pc' = "run", NEW t \in DOMAIN made' PROVE Numbered(t)'
  <2>1. ASSUME pc = "run", made' = made, Children(TaskRoot(t))' \subseteq Children(TaskRoot(t))
        PROVE  Numbered(t)'
    <3>1. Numbered(t)
      BY <1>2, <1>8, <2>1 DEF BuiltOK
    <3> QED BY <2>1, <3>1
  <2>2. pc = "run" => DOMAIN made = 1..m.concurrency
    BY <1>5 DEF PhaseOK, Working
  <2>3. CASE Prepare
    <3>1. ASSUME BarrierOpens PROVE Numbered(t)'
      <4>1. /\ pc = "ready" /\ t \in 1..m.concurrency /\ tree' = tree
        BY <1>5, <1>8, <3>1 DEF BarrierOpens, treeVars
      <4>2. Children(TaskRoot(t)) = {}
        BY <1>2, <4>1 DEF BuiltOK
      <4>3. Children(TaskRoot(t))' = {}
        BY <4>1, <4>2 DEF Children
      <4> QED BY <4>3
    <3>2. ASSUME pc' = pc, NEW p \in orphans, OrphanLands(p) PROVE Numbered(t)'
      <4>1. made' = made /\ t \in Nat
        BY <1>3, <1>8, <2>2, <3>2 DEF OrphanLands, taskVars
      <4>2. Parent(p) # TaskRoot(t) /\ (tree' = tree \/ tree' = tree \cup {p})
        BY <3>2, <4>1, LayoutAdds
      <4>3. Children(TaskRoot(t))' = Children(TaskRoot(t))
        BY <4>2 DEF Children
      <4> HIDE DEF Numbered
      <4> QED BY <1>8, <2>1, <3>2, <4>1, <4>3
    <3> HIDE DEF Numbered
    <3> QED BY <1>1, <1>2, <1>8, <2>3, <3>1, <3>2, Onward
  <2>4. ASSUME NEW u \in DOMAIN writers, WriteOp(u) PROVE Numbered(t)'
    <3>1. pc = "run" /\ made' = made /\ t \in Nat
      BY <1>3, <1>8, <2>2, <2>4 DEF WriteOp
    <3>2. PICK X : tree' = tree \cup X /\ \A p \in X : \A v \in Nat : Parent(p) # TaskRoot(v)
      BY <2>4, WriteAdds
    <3>3. Children(TaskRoot(t))' = Children(TaskRoot(t))
      BY <3>1, <3>2 DEF Children
    <3> QED BY <2>1, <3>1, <3>3
  <2>5. ASSUME NEW u, WriterEnds(u) \/ TargetFails(u) \/ StatterEnds(u) PROVE Numbered(t)'
    <3>1. pc = "run" /\ made' = made /\ tree' = tree
      BY <2>5 DEF WriterEnds, TargetFails, StatterEnds, StatterWorks, treeVars
    <3>2. Children(TaskRoot(t))' = Children(TaskRoot(t))
      BY <3>1 DEF Children
    <3> QED BY <2>1, <3>1, <3>2
  <2>6. ASSUME NEW u \in DOMAIN statters, NEW op \in {"create", "mkdir"}, MakeEntry(u, op)
        PROVE  Numbered(t)'
    <3>1. /\ pc = "run" /\ u \in Statters /\ u \in Nat /\ made[u] \in Nat
          /\ made' = [made EXCEPT ![u] = made[u] + 1]
      BY <2>6, EntryPath
    <3>2. PICK p : /\ p \in Paths /\ Parent(p) = TaskRoot(u) /\ Last(p) = <<op, made[u] + 1>>
                   /\ tree' = tree \/ tree' = tree \cup {p}
      BY <2>6, EntryPath
    <3>3. t \in DOMAIN made /\ t \in Nat /\ u \in DOMAIN made
      BY <1>3, <1>5, <1>8, <2>2, <3>1
    <3>4. Numbered(t)
      BY <1>2, <3>1, <3>3 DEF BuiltOK
    <3>5. CASE t = u
      <4>1. made'[t] = made[t] + 1 /\ made[t] \in Nat
        BY <3>1, <3>3, <3>5
      <4>2. \A q \in Children(TaskRoot(t))' : q \in Children(TaskRoot(t)) \/ q = p
        BY <3>2 DEF Children
      <4>3. \A q \in Children(TaskRoot(t)) : Last(q) \in Names
        <5>1. \A q \in Children(TaskRoot(t)) : q \in Paths
          BY DEF Children, TreeOK, IsTree
        <5> QED BY <5>1, LastName
      <4>4. \A n \in Names : n[2] \in Nat
        BY DEF Names
      <4>5. ASSUME NEW q \in Children(TaskRoot(t))', Last(q)[1] = "mkdir"
            PROVE  Last(q)[2] <= made'[t]
        <5>1. CASE q = p
          BY <3>2, <3>5, <4>1, <5>1
        <5>2. CASE q \in Children(TaskRoot(t))
          <6>1. Last(q)[2] <= made[t] /\ Last(q)[2] \in Nat
            BY <3>4, <4>3, <4>4, <4>5, <5>2
          <6> QED BY <4>1, <6>1
        <5> QED BY <4>2, <5>1, <5>2
      <4> QED BY <4>5
    <3>6. CASE t # u
      <4>1. TaskRoot(t) # TaskRoot(u)
        BY <3>1, <3>3, <3>6, TaskRoots
      <4>2. Children(TaskRoot(t))' = Children(TaskRoot(t))
        BY <3>2, <4>1 DEF Children
      <4>3. made'[t] = made[t]
        BY <3>1, <3>3, <3>6
      <4> QED BY <3>4, <4>2, <4>3
    <3> QED BY <3>5, <3>6
  <2>7. CASE Run
    <3> HIDE DEF Numbered
    <3> QED BY <2>4, <2>5, <2>6, <2>7 DEF Run
  <2>8. CASE Removal
    <3>1. pc = "run" /\ made' = made
      <4>1. ASSUME WriteCleanup \/ MetaCleanup \/ ReportResult \/ SweepDone
            PROVE  pc = "run" /\ made' = made
        BY <1>8, <4>1 DEF WriteCleanup, MetaCleanup, ReportResult, SweepDone, Sweeping, PhaseOK,
                          Working, taskVars
      <4>2. ASSUME VisitDirectory \/ RemoveDirectory \/ (\E e \in sweep.left : RemoveEntry(e))
            PROVE  pc = "run" /\ made' = made
        BY <1>8, <4>2 DEF VisitDirectory, RemoveDirectory, RemoveEntry, taskVars
      <4> QED BY <2>8, <4>1, <4>2 DEF Removal
    <3>2. tree' \subseteq tree
      BY <2>8, RemovalTakes
    <3>3. Children(TaskRoot(t))' \subseteq Children(TaskRoot(t))
      BY <3>2 DEF Children
    <3> QED BY <2>1, <3>1, <3>3
  <2> HIDE DEF Numbered
  <2> QED BY <2>3, <2>7, <2>8 DEF Next
<1>9. Layout(job.metadata)' = Layout(m) /\ (job.metadata.concurrency)' = m.concurrency
  BY <1>2
<1> QED BY <1>2, <1>6, <1>7, <1>8, <1>9 DEF BuiltOK

(* The scan.                                                               *)
LEMMA ScanLeft ==
  ASSUME ScanOK, job' = job, pc # "idle" => pc' # "idle",
         \/ /\ scan' = scan
            /\ pc' = "scanning" => pc = "scanning"
            /\ Meta = "scan" => (Ready' => Ready)
         \/ scan' = NoScan /\ pc' # "scanning" /\ ~Ready'
  PROVE  ScanOK'
<1>1. Meta' = Meta
  BY SameJob
<1>2. CASE scan' = scan /\ (pc' = "scanning" => pc = "scanning") /\ (Meta = "scan" => (Ready' => Ready))
  <2>1. \A q : Pending(q)' = Pending(q)
    BY <1>2 DEF Pending
  <2>2. /\ scan' = [stack |-> scan'.stack, left |-> scan'.left, found |-> scan'.found, count |-> scan'.count]
        /\ scan'.stack \in Seq(Existing) /\ scan'.left \subseteq Existing /\ scan'.found \subseteq Existing
        /\ scan'.count \in Nat
    BY <1>2 DEF ScanOK
  <2>3. /\ scan'.count > 0 => pc' # "idle" /\ job' # NoSection /\ Meta' = "scan"
        /\ scan'.count > 0 /\ job'.metadata.scanLimit > 0 =>
             /\ scan'.count <= job'.metadata.scanLimit
             /\ scan'.left # {} \/ scan'.stack # <<>> => scan'.count < job'.metadata.scanLimit
    BY <1>1, <1>2 DEF ScanOK
  <2>4. /\ pc' = "scanning" => ScanRoot \in scan'.found
        /\ pc' = "scanning" /\ job'.metadata.scanLimit = 0 =>
             \A p \in Existing :
               Len(p) > 1 /\ Parent(p) \in scan'.found /\ ~Pending(Parent(p))' =>
                 p \in scan'.left \cup scan'.found \/ Last(p)[1] = "link"
    BY <1>2, <2>1 DEF ScanOK
  <2>5. Ready' /\ Meta' = "scan" =>
          /\ ScanRoot \in scan'.found
          /\ NeedsFiles(job'.metadata) => \E p \in scan'.found : ~IsDir(p)
    BY <1>1, <1>2 DEF ScanOK
  <2> QED BY <2>2, <2>3, <2>4, <2>5 DEF ScanOK
<1>3. CASE scan' = NoScan /\ pc' # "scanning" /\ ~Ready'
  <2>1. /\ scan'.stack = <<>> /\ scan'.left = {} /\ scan'.found = {} /\ scan'.count = 0
        /\ scan' = [stack |-> scan'.stack, left |-> scan'.left, found |-> scan'.found, count |-> scan'.count]
        /\ <<>> \in Seq(Existing)
    BY <1>3 DEF NoScan
  <2> QED BY <1>3, <2>1 DEF ScanOK
<1> QED BY <1>2, <1>3

LEMMA ScanStep ==
  ASSUME RecordOK, PhaseOK, TreeOK, OrphansOK, ScanOK, Next
  PROVE  ScanOK'
<1> DEFINE m == job.metadata
<1>1. ASSUME NEW p \in Protos, CreateJob(p) PROVE ScanOK'
  <2>1. job' = job /\ scan' = scan /\ pc' = "fetch" /\ ~Ready'
    BY <1>1 DEF CreateJob, treeVars, Ready, Working
  <2> QED BY <2>1, ScanLeft
<1>2. ASSUME Fetch PROVE ScanOK'
  <2>1. /\ pc' = "write_root" /\ scan' = scan /\ (job = NoSection \/ job' = job) /\ ~Ready'
    BY <1>2, FetchTakes DEF treeVars, Ready, Working
  <2>2. CASE job' = job
    BY <2>1, <2>2, ScanLeft
  <2>3. CASE job = NoSection
    <3>1. ~(scan.count > 0)
      BY <2>3 DEF ScanOK
    <3> QED BY <2>1, <3>1 DEF ScanOK
  <2> QED BY <2>1, <2>2, <2>3
<1>3. ASSUME Ordinary PROVE job' = job /\ (pc # "idle" => pc' # "idle") /\ Meta' = Meta
  BY <1>3, SameJob DEF Ordinary
<1>4. ASSUME Ordinary, scan' = scan, pc' = "scanning" => pc = "scanning",
             Meta = "scan" => (Ready' => Ready)
      PROVE  ScanOK'
  BY <1>3, <1>4, ScanLeft
<1>5. ASSUME Ordinary, PreparationFails PROVE ScanOK'
  <2>1. scan' = NoScan /\ pc' # "scanning" /\ ~Ready'
    BY <1>5 DEF PreparationFails, Ready, Working
  <2> QED BY <1>3, <1>5, <2>1, ScanLeft
<1>6. ASSUME Ordinary, MakeWriteRoot PROVE ScanOK'
  <2>1. (scan' = scan /\ pc' = AfterRoot) \/ PreparationFails
    BY <1>6 DEF MakeWriteRoot
  <2>2. AfterRoot # "scanning" /\ (Meta = "scan" => AfterRoot = "scan")
    BY DEF AfterRoot, AfterTree, Meta
  <2>3. ASSUME scan' = scan, pc' = AfterRoot PROVE ScanOK'
    <3>1. Meta = "scan" => ~Ready'
      BY <2>2, <2>3 DEF Ready, Working
    <3> QED BY <1>4, <1>6, <2>2, <2>3, <3>1
  <2> QED BY <1>5, <1>6, <2>1, <2>3
<1>7. ASSUME Ordinary, MakeMetaRoot PROVE ScanOK'
  <2>1. (scan' = scan /\ pc' = "layout") \/ PreparationFails
    BY <1>7 DEF MakeMetaRoot
  <2> QED BY <1>4, <1>5, <1>7, <2>1 DEF Ready, Working
<1>8. ASSUME Ordinary, NextBatch PROVE ScanOK'
  <2>1. scan' = scan /\ pc' # "scanning" /\ Meta = "build"
    BY <1>8 DEF NextBatch, BatchDone, AfterTree, PhaseOK
  <2> QED BY <1>4, <1>8, <2>1
<1>9. ASSUME Ordinary, NEW p, StartOp(p) \/ OpDone(p) \/ OpFails(p) \/ OrphanLands(p) PROVE ScanOK'
  <2>1. scan' = scan /\ (pc' = pc \/ pc' = "prepare_failed")
    BY <1>9 DEF StartOp, OpDone, OpFails, OrphanLands
  <2> QED BY <1>4, <1>9, <2>1 DEF Ready, Working
<1>10. ASSUME Ordinary, BeginScan PROVE ScanOK'
  <2>1. /\ pc = "scan" /\ pc' = "scanning" /\ job' = job /\ Meta' = "scan" /\ job' # NoSection
        /\ scan' = [stack |-> <<ScanRoot>>, left |-> {}, found |-> {ScanRoot}, count |-> 0]
    BY <1>3, <1>10 DEF BeginScan, PhaseOK, RecordOK
  <2>2. ScanRoot \in Existing
    BY ExistingAssumption
  <2>3. scan'.stack = <<ScanRoot>> /\ scan'.left = {} /\ scan'.found = {ScanRoot} /\ scan'.count = 0
    BY <2>1
  <2> DEFINE s == <<ScanRoot>>
  <2>4. s \in Seq(Existing) /\ Len(s) = 1 /\ s[1] = ScanRoot
    BY <2>2
  <2>5. 1 \in DOMAIN s
    BY <2>4
  <2>6. Pending(ScanRoot)'
    BY <2>3, <2>4, <2>5 DEF Pending
  <2>7. \A q \in scan'.found : q = ScanRoot
    BY <2>3
  <2>8. scan'.stack \in Seq(Existing) /\ {ScanRoot} \subseteq Existing
    BY <2>2, <2>3, <2>4
  <2>9. \A p \in Existing : Parent(p) \in scan'.found => Pending(Parent(p))'
    BY <2>6, <2>7
  <2>10. ~Ready' /\ scan' = [stack |-> scan'.stack, left |-> scan'.left, found |-> scan'.found, count |-> scan'.count]
    BY <2>1 DEF Ready, Working
  <2> HIDE DEF s
  <2> QED BY <2>1, <2>3, <2>8, <2>9, <2>10 DEF ScanOK
<1>11. ASSUME Ordinary, ScanDirectory PROVE ScanOK'
  <2>1. CASE PreparationFails
    BY <1>5, <1>11, <2>1
  <2>2. CASE ~PreparationFails
    <3>1. /\ pc = "scanning" /\ pc' = pc /\ tree' = tree /\ scan.left = {} /\ scan.stack # <<>>
          /\ scan' = [scan EXCEPT !.stack = Front(@), !.left = Children(Last(scan.stack))]
      BY <1>11, <2>2 DEF ScanDirectory
    <3> DEFINE s == scan.stack
               d == Last(s)
               k == Len(s) - 1
    <3>2. s \in Seq(Existing) /\ s # <<>>
      BY <3>1 DEF ScanOK
    <3>3. /\ Len(s) \in Nat \ {0} /\ DOMAIN s = 1..Len(s) /\ d = s[Len(s)] /\ d \in Existing
          /\ Front(s) \in Seq(Existing) /\ DOMAIN Front(s) = 1..k
          /\ \A i \in 1..k : Front(s)[i] = s[i]
      BY <3>2, Fronts
    <3>4. /\ scan'.stack = Front(s) /\ scan'.left = Children(d) /\ scan'.found = scan.found
          /\ scan'.count = scan.count
          /\ scan' = [stack |-> scan'.stack, left |-> scan'.left, found |-> scan'.found, count |-> scan'.count]
      BY <3>1 DEF ScanOK
    <3> HIDE DEF s, d
    <3>5. Children(d) \subseteq Existing
      <4>1. At(ScanRoot) = Existing /\ IsTree(tree)
        BY DEF TreeOK
      <4>2. d \in Paths /\ Home(d) = Home(ScanRoot) /\ Len(d) \in Nat /\ Len(d) > 0
        BY <3>3, <4>1, LastName DEF At, IsTree
      <4>3. SUFFICES ASSUME NEW q \in tree, Len(q) = Len(d) + 1, Parent(q) = d PROVE q \in Existing
        BY DEF Children
      <4>4. q \in Paths /\ Len(q) > 1
        BY <4>1, <4>2, <4>3 DEF IsTree
      <4>5. Home(q) = Home(d)
        BY <4>3, <4>4, Shorter
      <4> QED BY <4>1, <4>2, <4>3, <4>5 DEF At
    <3>6. ASSUME NEW p \in Existing, Len(p) > 1, Parent(p) \in scan.found, ~Pending(Parent(p))',
                 job.metadata.scanLimit = 0
          PROVE  p \in Children(d) \cup scan.found \/ Last(p)[1] = "link"
      <4>1. CASE ~Pending(Parent(p))
        BY <3>1, <3>6, <4>1 DEF ScanOK
      <4>2. CASE Pending(Parent(p))
        <5>1. PICK i \in 1..Len(s) : s[i] = Parent(p)
          BY <3>3, <4>2 DEF Pending, s
        <5>2. CASE i \in 1..k
          <6>1. i \in DOMAIN scan'.stack /\ scan'.stack[i] = Parent(p)
            BY <3>3, <3>4, <5>1, <5>2
          <6> QED BY <3>6, <6>1 DEF Pending
        <5>3. CASE i = Len(s)
          <6>1. Parent(p) = d
            BY <3>3, <5>1, <5>3
          <6>2. p \in tree /\ p \in Paths
            BY DEF TreeOK, At, IsTree
          <6>3. Len(p) = Len(d) + 1
            BY <3>6, <6>1, <6>2, Shorter, LastName
          <6> QED BY <6>1, <6>2, <6>3 DEF Children
        <5> QED BY <3>3, <5>1, <5>2, <5>3
      <4> QED BY <4>1, <4>2
    <3>7. job' = job /\ Meta' = Meta /\ (pc # "idle" => pc' # "idle") /\ ~Ready'
      BY <1>3, <1>11, <3>1 DEF Ready, Working
    <3>8. /\ scan'.count > 0 => pc' # "idle" /\ job' # NoSection /\ Meta' = "scan"
          /\ scan'.count > 0 /\ job'.metadata.scanLimit > 0 =>
               scan'.count <= job'.metadata.scanLimit /\ scan'.count < job'.metadata.scanLimit
      BY <3>1, <3>4, <3>7 DEF ScanOK
    <3>9. /\ scan'.stack \in Seq(Existing) /\ scan'.left \subseteq Existing
          /\ scan'.found \subseteq Existing /\ scan'.count \in Nat /\ ScanRoot \in scan'.found
      BY <3>1, <3>3, <3>4, <3>5 DEF ScanOK
    <3>10. job'.metadata.scanLimit = 0 =>
             \A p \in Existing :
               Len(p) > 1 /\ Parent(p) \in scan'.found /\ ~Pending(Parent(p))' =>
                 p \in scan'.left \cup scan'.found \/ Last(p)[1] = "link"
      BY <3>4, <3>6, <3>7
    <3> QED BY <3>4, <3>7, <3>8, <3>9, <3>10 DEF ScanOK
  <2> QED BY <2>1, <2>2
<1>12. ASSUME Ordinary, NEW e \in scan.left, ScanEntry(e) PROVE ScanOK'
  <2> DEFINE s == scan.stack
             reached == LimitReached
             c == scan.count
             limit == m.scanLimit
  <2>1. /\ pc = "scanning" /\ pc' = pc /\ job' = job /\ Meta' = Meta /\ Meta = "scan"
        /\ job # NoSection /\ ~Ready'
    BY <1>3, <1>12 DEF ScanEntry, PhaseOK, RecordOK, Ready, Working
  <2>2. limit \in Nat /\ c \in Nat
    BY <2>1, JobFacts DEF ScanOK
  <2>3. reached <=> limit > 0 /\ c + 1 >= limit
    BY DEF LimitReached
  <2>4. e \in Existing /\ s \in Seq(Existing) /\ scan.left \subseteq Existing /\ scan.found \subseteq Existing
    BY DEF ScanOK
  <2>5. /\ Append(s, e) \in Seq(Existing) /\ Len(s) \in Nat
        /\ DOMAIN Append(s, e) = 1..(Len(s) + 1) /\ DOMAIN s = 1..Len(s)
        /\ \A i \in 1..Len(s) : Append(s, e)[i] = s[i]
        /\ Append(s, e)[Len(s) + 1] = e
    BY <2>4, Appended
  <2>6. /\ scan'.stack = IF reached THEN <<>> ELSE IF IsDir(e) THEN Append(s, e) ELSE s
        /\ scan'.left = IF reached THEN {} ELSE scan.left \ {e}
        /\ scan'.found = IF Last(e)[1] = "link" THEN scan.found ELSE scan.found \cup {e}
        /\ scan'.count = c + 1
        /\ scan' = [stack |-> scan'.stack, left |-> scan'.left, found |-> scan'.found, count |-> scan'.count]
    BY <1>12 DEF ScanEntry
  <2> HIDE DEF s, reached, c, limit
  <2>7. <<>> \in Seq(Existing)
    OBVIOUS
  <2>8. /\ scan'.stack \in Seq(Existing) /\ scan'.left \subseteq Existing
        /\ scan'.found \subseteq Existing /\ scan'.count \in Nat
    BY <2>2, <2>4, <2>5, <2>6, <2>7
  <2>9. limit > 0 =>
          /\ scan'.count <= limit
          /\ scan'.left # {} \/ scan'.stack # <<>> => scan'.count < limit
    <3>1. limit > 0 /\ c > 0 => c < limit
      BY <1>12 DEF ScanOK, c, limit
    <3>2. limit > 0 => c + 1 <= limit
      BY <2>2, <3>1
    <3>3. limit > 0 /\ ~reached => c + 1 < limit
      BY <2>2, <2>3
    <3> QED BY <2>6, <3>2, <3>3
  <2>10. ScanRoot \in scan'.found
    BY <2>1, <2>6 DEF ScanOK
  <2>11. ASSUME limit = 0, NEW p \in Existing, Len(p) > 1, Parent(p) \in scan'.found, ~Pending(Parent(p))'
         PROVE  p \in scan'.left \cup scan'.found \/ Last(p)[1] = "link"
    <3>1. ~reached
      BY <2>3, <2>11
    <3>2. IsDir(Parent(p))
      BY <2>11, ExistingAssumption DEF IsTree
    <3>3. scan'.left = scan.left \ {e} /\ scan'.stack = IF IsDir(e) THEN Append(s, e) ELSE s
      BY <2>6, <3>1
    <3>4. CASE Parent(p) = e
      <4>1. scan'.stack = Append(s, e)
        BY <3>2, <3>3, <3>4
      <4>2. Len(s) + 1 \in DOMAIN Append(s, e) /\ Append(s, e)[Len(s) + 1] = e
        BY <2>5
      <4>3. Pending(e)'
        BY <4>1, <4>2 DEF Pending
      <4> QED BY <2>11, <3>4, <4>3
    <3>5. CASE Parent(p) # e
      <4>1. Parent(p) \in scan.found
        BY <2>6, <2>11, <3>5
      <4>2. ~Pending(Parent(p))
        <5>1. \A i \in DOMAIN s : i \in DOMAIN scan'.stack /\ scan'.stack[i] = s[i]
          BY <2>5, <3>3
        <5> QED BY <2>11, <5>1 DEF Pending, s
      <4>3. p \in scan.left \cup scan.found \/ Last(p)[1] = "link"
        BY <2>1, <2>11, <4>1, <4>2 DEF ScanOK, limit
      <4> QED BY <2>6, <3>3, <4>3
    <3> QED BY <3>4, <3>5
  <2>12. job'.metadata.scanLimit = limit
    BY <2>1 DEF limit
  <2>13. job'.metadata.scanLimit = 0 =>
           \A p \in Existing :
             Len(p) > 1 /\ Parent(p) \in scan'.found /\ ~Pending(Parent(p))' =>
               p \in scan'.left \cup scan'.found \/ Last(p)[1] = "link"
    BY <2>11, <2>12
  <2>14. pc' # "idle" /\ job' # NoSection /\ Meta' = "scan"
    BY <2>1
  <2> QED BY <2>1, <2>6, <2>8, <2>9, <2>10, <2>12, <2>13, <2>14 DEF ScanOK
<1>13. ASSUME Ordinary, ScanDone PROVE ScanOK'
  <2>1. pc = "scanning"
    BY <1>13 DEF ScanDone
  <2>2. CASE PreparationFails
    BY <1>5, <1>13, <2>2
  <2>3. CASE ~PreparationFails
    <3>1. /\ scan' = scan /\ pc' = AfterTree /\ (NeedsFiles(m) => \E p \in scan.found : ~IsDir(p))
      BY <1>13, <2>3 DEF ScanDone
    <3>2. pc' \in {"client", "ready"} /\ job' = job /\ pc' # "idle" /\ Meta' = Meta
      BY <1>3, <1>13, <3>1 DEF AfterTree
    <3> QED BY <2>1, <3>1, <3>2 DEF ScanOK
  <2> QED BY <2>2, <2>3
<1>14. ASSUME Ordinary, BuildClient \/ ReadyError \/ BarrierOpens \/ GivenUp PROVE ScanOK'
  <2>1. scan' = scan /\ pc' # "scanning" /\ (Ready' => Ready)
    BY <1>14 DEF BuildClient, ReadyError, BarrierOpens, GivenUp, treeVars, Ready, Working
  <2> QED BY <1>4, <1>14, <2>1
<1>15. ASSUME Ordinary, Run PROVE ScanOK'
  <2>1. pc = "run" /\ pc' = "run" /\ scan' = scan
    BY <1>15 DEF Run, WriteOp, WriterEnds, TargetFails, StatterEnds, StatterWorks, MakeEntry, treeVars
  <2> QED BY <1>4, <1>15, <2>1 DEF Ready, Working
<1>16. ASSUME Ordinary, Removal PROVE ScanOK'
  <2>1. ASSUME ReportResult PROVE ScanOK'
    <3>1. scan' = NoScan /\ pc' # "scanning" /\ ~Ready'
      BY <2>1 DEF ReportResult, Ready, Working
    <3> QED BY <1>3, <1>16, <3>1, ScanLeft
  <2>2. ASSUME WriteCleanup \/ MetaCleanup \/ SweepDone PROVE ScanOK'
    <3>1. scan' = scan /\ pc' # "scanning" /\ Ready
      BY <2>2 DEF WriteCleanup, MetaCleanup, SweepDone, Sweeping, PhaseOK, Ready, Working, treeVars
    <3> QED BY <1>4, <1>16, <3>1
  <2>3. ASSUME VisitDirectory \/ RemoveDirectory \/ (\E e \in sweep.left : RemoveEntry(e)) PROVE ScanOK'
    <3>1. scan' = scan /\ pc' = pc
      BY <2>3 DEF VisitDirectory, RemoveDirectory, RemoveEntry, treeVars
    <3> QED BY <1>4, <1>16, <3>1 DEF Ready, Working
  <2> QED BY <1>16, <2>1, <2>2, <2>3 DEF Removal
<1>17. ASSUME Ordinary, Prepare PROVE ScanOK'
  BY <1>1, <1>2, <1>6, <1>7, <1>8, <1>9, <1>10, <1>11, <1>12, <1>13, <1>14, <1>17 DEF Prepare
<1> QED BY <1>1, <1>2, <1>15, <1>16, <1>17, OtherSteps DEF Next

(* Nothing fails without a cause.                                          *)
LEMMA AllFound ==
  ASSUME NEW F, ScanRoot \in F,
         \A p \in Existing : Len(p) > 1 /\ Parent(p) \in F => p \in F \/ Last(p)[1] = "link"
  PROVE  \A p \in Existing : p \in F \/ Last(p)[1] = "link"
<1> DEFINE P == {n \in Nat : \A p \in Existing : Len(p) <= n => p \in F \/ Last(p)[1] = "link"}
<1>1. \A p \in Existing : p \in Paths /\ Len(p) \in Nat /\ Len(p) > 0 /\ Home(p) = Home(ScanRoot)
  BY ExistingAssumption, RootsArePaths, UnderRoot, LastName DEF IsTree
<1>2. 0 \in P
  BY <1>1
<1>3. ASSUME NEW n \in Nat, n \in P PROVE n + 1 \in P
  <2> SUFFICES ASSUME NEW p \in Existing, Len(p) = n + 1 PROVE p \in F \/ Last(p)[1] = "link"
    BY <1>1, <1>3
  <2>1. CASE Len(p) = 1
    BY <1>1, <2>1, RootsArePaths, ShortPath
  <2>2. CASE Len(p) > 1
    <3>1. Parent(p) \in Existing /\ IsDir(Parent(p)) /\ Len(Parent(p)) = n
      BY <1>1, <2>2, Shorter, ExistingAssumption DEF IsTree
    <3>2. Last(Parent(p))[1] # "link"
      BY <3>1 DEF IsDir, DirKinds
    <3>3. Parent(p) \in F
      BY <1>3, <3>1, <3>2
    <3> QED BY <2>2, <3>3
  <2> QED BY <1>1, <2>1, <2>2
<1> HIDE DEF P
<1>4. Nat \subseteq P
  BY <1>2, <1>3, Counting
<1>5. ASSUME NEW p \in Existing PROVE p \in F \/ Last(p)[1] = "link"
  <2>1. Len(p) \in P /\ Len(p) <= Len(p)
    BY <1>1, <1>4
  <2> QED BY <2>1 DEF P
<1> QED BY <1>5

LEMMA OperationHasItsPlace ==
  ASSUME RecordOK, PhaseOK, MakingOK, ~leftover, pc = "layout", NEW p \in flying
  PROVE  Succeeds(p)
<1> DEFINE m == job.metadata
           W == todo \cup flying
<1>1. job # NoSection /\ Meta = "build" /\ GoodTree(m)
  BY JobFacts DEF RecordOK, PhaseOK
<1>2. /\ batch \in 1..Len(Batches(m)) /\ p \in Batches(m)[batch] /\ p \in W
      /\ Done(batch, W) \cup {MetaRoot} \subseteq tree
      /\ At(MetaRoot) \subseteq Done(batch, W) \cup {MetaRoot}
  BY DEF MakingOK
<1>3. /\ Len(p) > 1 /\ Home(p) = Home(MetaRoot)
      /\ Parent(p) \in {MetaRoot} \cup Built(m, batch - 1)
      /\ IsDir(p) => p \notin {MetaRoot} \cup Built(m, batch - 1)
  BY <1>1, <1>2, InBatch
<1>4. Parent(p) \in tree
  BY <1>2, <1>3 DEF Done
<1>5. IsDir(p) => p \notin tree
  BY <1>2, <1>3 DEF Done, At
<1> QED BY <1>4, <1>5 DEF Succeeds, HasParent

LEMMA TargetsAreThere ==
  ASSUME RecordOK, PhaseOK, TreeOK, BuiltOK, ScanOK, pc = "run", ~SharedDir,
         NEW t \in DOMAIN statters, NEW op \in job.metadata.ops \cap {"stat", "open", "readdir"}
  PROVE  Targets(op) # {} /\ Targets(op) \subseteq tree
<1> DEFINE m == job.metadata
<1>1. job # NoSection /\ t \in Statters
  BY DEF RecordOK, PhaseOK, Working
<1>2. Meta \in {"build", "scan"}
  BY <1>1 DEF Statters
<1>3. op # "readdir" => NeedsFiles(m)
  BY DEF NeedsFiles
<1>4. \A p : IsDir(p) \in BOOLEAN
  BY DEF IsDir
<1>5. \A p \in InUse : p \in Targets(op) <=> IsDir(p) = (op = "readdir")
  BY DEF Targets
<1>6. \A p \in InUse : IsDir(p) /\ op = "readdir" => p \in Targets(op)
  BY <1>5
<1>7. \A p \in InUse : ~IsDir(p) /\ op # "readdir" => p \in Targets(op)
  BY <1>4, <1>5
<1>8. CASE Meta = "build"
  <2>1. InUse = Directories(m) \cup Files(m)
    BY <1>8 DEF InUse
  <2>2. GoodTree(m) /\ Layout(m) \subseteq tree
    BY <1>1, <1>8, JobFacts DEF BuiltOK
  <2>3. /\ Directories(m) \cup Files(m) \subseteq Layout(m)
        /\ \A p \in Directories(m) : IsDir(p)
        /\ \A p \in Files(m) : ~IsDir(p)
        /\ Directories(m) # {}
        /\ NeedsFiles(m) => Files(m) # {}
    BY <2>2, LayoutIs
  <2>4. InUse \subseteq tree
    BY <2>1, <2>2, <2>3
  <2>5. Targets(op) # {}
    BY <1>3, <1>6, <1>7, <2>1, <2>3
  <2> QED BY <2>4, <2>5 DEF Targets
<1>9. CASE Meta = "scan"
  <2>1. InUse = scan.found
    BY <1>9 DEF InUse
  <2>2. /\ scan.found \subseteq Existing /\ ScanRoot \in scan.found
        /\ NeedsFiles(m) => \E p \in scan.found : ~IsDir(p)
    BY <1>9 DEF ScanOK, Ready, Working
  <2>3. InUse \subseteq tree
    BY <2>1, <2>2 DEF TreeOK, At
  <2>4. IsDir(ScanRoot)
    BY RootsArePaths
  <2>5. Targets(op) # {}
    BY <1>3, <1>6, <1>7, <2>1, <2>2, <2>4
  <2> QED BY <2>3, <2>5 DEF Targets
<1> QED BY <1>2, <1>8, <1>9

LEMMA EntryHasItsPlace ==
  ASSUME RecordOK, PhaseOK, BuiltOK, ~SharedDir, pc = "run", Meta = "build",
         NEW t \in 1..job.metadata.concurrency, NEW op \in {"create", "mkdir"},
         NEW p \in Paths, Len(p) = 4, Parent(p) = TaskRoot(t), Last(p) = <<op, made[t] + 1>>,
         made[t] \in Nat
  PROVE  Succeeds(p)
<1>1. job # NoSection /\ GoodTree(job.metadata)
  BY JobFacts DEF RecordOK
<1>2. t \in Nat /\ TaskRoot(t) \in Layout(job.metadata)
  BY <1>1, LayoutIs DEF GoodTree
<1>3. Parent(p) \in tree
  BY <1>2 DEF BuiltOK
<1>4. ASSUME IsDir(p), p \in tree PROVE FALSE
  <2>1. op = "mkdir"
    BY <1>4 DEF IsDir, DirKinds
  <2>2. Len(TaskRoot(t)) = 3
    BY <1>2, TaskRoots
  <2>3. p \in Children(TaskRoot(t))
    BY <1>4, <2>2 DEF Children
  <2>4. t \in DOMAIN made
    BY DEF PhaseOK, Working, Statters
  <2>5. Last(p)[2] <= made[t]
    BY <2>1, <2>3, <2>4 DEF BuiltOK
  <2> QED BY <2>5
<1> QED BY <1>3, <1>4 DEF Succeeds, HasParent

LEMMA CauseStep ==
  ASSUME RecordOK, PhaseOK, TreeOK, OrphansOK, MakingOK, BuiltOK, ScanOK, CauseOK, Next
  PROVE  CauseOK'
<1> DEFINE m == job.metadata
<1>1. ASSUME NEW p \in Protos, CreateJob(p) PROVE CauseOK'
  BY <1>1 DEF CreateJob, CauseOK, Working
<1>2. ASSUME Fetch PROVE CauseOK'
  BY <1>2, FetchTakes DEF CauseOK, Working
<1>3. ASSUME Ordinary
      PROVE  /\ (hit => hit') /\ (leftover => leftover') /\ NoFilesInSight' = NoFilesInSight
             /\ SharedDir' = SharedDir
  BY <1>3, SameJob DEF Ordinary
<1>4. ASSUME Ordinary,
             pc' = "prepare_failed" =>
               pc = "prepare_failed" \/ hit' \/ leftover \/ NoFilesInSight,
             Working' => /\ Working
                         /\ \A t \in DOMAIN writers' : writers'[t] = "failed" =>
                              hit' \/ (t \in DOMAIN writers /\ writers[t] = "failed")
                         /\ \A t \in DOMAIN statters' : statters'[t] = "failed" =>
                              \/ hit' \/ SharedDir
                              \/ t \in DOMAIN statters /\ statters[t] = "failed"
      PROVE  CauseOK'
  <2>1. pc' = "prepare_failed" => hit' \/ leftover' \/ NoFilesInSight'
    BY <1>3, <1>4 DEF CauseOK
  <2>2. Working' => \A t \in DOMAIN writers' : writers'[t] = "failed" => hit'
    BY <1>3, <1>4 DEF CauseOK
  <2>3. Working' => \A t \in DOMAIN statters' : statters'[t] = "failed" => hit' \/ SharedDir'
    BY <1>3, <1>4 DEF CauseOK
  <2> QED BY <2>1, <2>2, <2>3 DEF CauseOK
<1>5. ASSUME Ordinary, UNCHANGED taskVars, Working' => Working,
             pc' = "prepare_failed" =>
               pc = "prepare_failed" \/ hit' \/ leftover \/ NoFilesInSight
      PROVE  CauseOK'
  <2>1. writers' = writers /\ statters' = statters
    BY <1>5 DEF taskVars
  <2> QED BY <1>4, <1>5, <2>1
<1>6. ASSUME Ordinary, MakeWriteRoot \/ MakeMetaRoot PROVE CauseOK'
  <2>1. UNCHANGED taskVars /\ ~Working' /\ (pc' = "prepare_failed" => hit')
    BY <1>6 DEF MakeWriteRoot, MakeMetaRoot, AfterRoot, AfterTree, Meta, PreparationFails, Fault, Working
  <2> QED BY <1>5, <1>6, <2>1
<1>7. ASSUME Ordinary, NextBatch \/ BeginScan \/ ReadyError \/ GivenUp PROVE CauseOK'
  <2>1. UNCHANGED taskVars /\ ~Working' /\ pc' # "prepare_failed"
    BY <1>7 DEF NextBatch, BatchDone, AfterTree, BeginScan, ReadyError, GivenUp, Working
  <2> QED BY <1>5, <1>7, <2>1
<1>8. ASSUME Ordinary, NEW p, StartOp(p) \/ OpDone(p) \/ OrphanLands(p) \/ ScanEntry(p) PROVE CauseOK'
  <2>1. UNCHANGED taskVars /\ pc' = pc
    BY <1>8 DEF StartOp, OpDone, OrphanLands, ScanEntry
  <2> QED BY <1>5, <1>8, <2>1 DEF Working
<1>9. ASSUME Ordinary, NEW p \in flying, OpFails(p) PROVE CauseOK'
  <2>1. /\ UNCHANGED taskVars /\ pc = "layout" /\ pc' = "prepare_failed"
        /\ ~Succeeds(p) \/ hit'
    BY <1>9 DEF OpFails, Fault
  <2>2. leftover \/ hit'
    BY <1>9, <2>1, OperationHasItsPlace DEF RecordOK
  <2> QED BY <1>5, <1>9, <2>1, <2>2 DEF Working
<1>10. ASSUME Ordinary, ScanDirectory PROVE CauseOK'
  <2>1. UNCHANGED taskVars /\ ~Working' /\ (pc' = "prepare_failed" => hit')
    BY <1>10 DEF ScanDirectory, PreparationFails, Fault, Working
  <2> QED BY <1>5, <1>10, <2>1
<1>11. ASSUME Ordinary, ScanDone PROVE CauseOK'
  <2>1. /\ UNCHANGED taskVars /\ pc = "scanning" /\ scan.left = {} /\ scan.stack = <<>> /\ ~Working'
    BY <1>11 DEF ScanDone, AfterTree, PreparationFails, Working
  <2>2. ASSUME pc' = "prepare_failed" PROVE NoFilesInSight
    <3>1. NeedsFiles(m) /\ \A p \in scan.found : IsDir(p)
      BY <1>11, <2>2 DEF ScanDone, AfterTree
    <3>2. Meta = "scan" /\ ScanRoot \in scan.found /\ job # NoSection
      BY <2>1 DEF PhaseOK, ScanOK, RecordOK
    <3>3. m.scanLimit \in Nat
      BY <3>2, JobFacts
    <3>4. ASSUME m.scanLimit = 0 PROVE \A p \in Existing : ~IsFile(p)
      <4>1. \A q : ~Pending(q)
        BY <2>1 DEF Pending
      <4>2. \A p \in Existing :
              Len(p) > 1 /\ Parent(p) \in scan.found => p \in scan.found \/ Last(p)[1] = "link"
        BY <2>1, <3>4, <4>1 DEF ScanOK
      <4>3. \A p \in Existing : p \in scan.found \/ Last(p)[1] = "link"
        BY <3>2, <4>2, AllFound
      <4> QED BY <3>1, <4>3 DEF IsFile
    <3> QED BY <3>1, <3>2, <3>3, <3>4 DEF NoFilesInSight
  <2> QED BY <1>5, <1>11, <2>1, <2>2
<1>12. ASSUME Ordinary, BuildClient PROVE CauseOK'
  <2>1. pc = "client" /\ UNCHANGED taskVars /\ ~Working' /\ job # NoSection
    BY <1>12 DEF BuildClient, Working, RecordOK
  <2>2. record.credentials # NoSection
    BY <2>1, JobFacts DEF PhaseOK
  <2>3. pc' = "prepare_failed" => hit'
    BY <1>12, <2>2 DEF BuildClient, Fault
  <2> QED BY <1>5, <1>12, <2>1, <2>3
<1>13. ASSUME Ordinary, BarrierOpens PROVE CauseOK'
  <2>1. /\ pc' = "run" /\ \A t \in DOMAIN writers' : writers'[t] = "on"
        /\ \A t \in DOMAIN statters' : statters'[t] = "on"
    BY <1>13 DEF BarrierOpens
  <2> QED BY <2>1 DEF CauseOK
<1>14. ASSUME Ordinary, NEW t \in DOMAIN writers, WriteOp(t) \/ WriterEnds(t) PROVE CauseOK'
  <2>1. /\ pc = "run" /\ pc' = pc /\ statters' = statters
        /\ \/ writers' = writers
           \/ writers' = [writers EXCEPT ![t] = "failed"] /\ hit'
           \/ writers' = [writers EXCEPT ![t] = "over"]
    BY <1>14 DEF WriteOp, WriterEnds, Fault
  <2>2. \A u \in DOMAIN writers' : writers'[u] = "failed" =>
          hit' \/ (u \in DOMAIN writers /\ writers[u] = "failed")
    BY <2>1
  <2> QED BY <1>4, <1>14, <2>1, <2>2 DEF Working
<1>15. ASSUME Ordinary, NEW t \in DOMAIN statters, TargetFails(t) \/ StatterEnds(t) PROVE CauseOK'
  <2>1. pc = "run" /\ pc' = pc /\ writers' = writers
    BY <1>15 DEF TargetFails, StatterEnds, StatterWorks
  <2>2. ASSUME TargetFails(t) PROVE hit' \/ SharedDir
    <3>1. hit' \/ \E op \in m.ops \cap {"stat", "open", "readdir"} :
                    Targets(op) = {} \/ ~(Targets(op) \subseteq tree)
      BY <2>2 DEF TargetFails, Fault
    <3> QED BY <2>1, <3>1, TargetsAreThere
  <2>3. \/ statters' = [statters EXCEPT ![t] = "failed"] /\ (hit' \/ SharedDir)
        \/ statters' = [statters EXCEPT ![t] = "over"]
    BY <1>15, <2>2 DEF TargetFails, StatterEnds
  <2>4. \A u \in DOMAIN statters' : statters'[u] = "failed" =>
          hit' \/ SharedDir \/ (u \in DOMAIN statters /\ statters[u] = "failed")
    BY <2>3
  <2> QED BY <1>4, <1>15, <2>1, <2>4 DEF Working
<1>16. ASSUME Ordinary, NEW t \in DOMAIN statters, NEW op \in {"create", "mkdir"}, MakeEntry(t, op)
       PROVE  CauseOK'
  <2>1. /\ pc = "run" /\ Meta = "build" /\ t \in 1..job.metadata.concurrency /\ made[t] \in Nat
    BY <1>16, EntryPath
  <2>2. pc' = pc /\ writers' = writers
    BY <1>16 DEF MakeEntry
  <2>3. PICK p : /\ p \in Paths /\ Len(p) = 4 /\ Parent(p) = TaskRoot(t)
                 /\ Last(p) = <<op, made[t] + 1>>
                 /\ \/ statters' = statters
                    \/ /\ statters' = [statters EXCEPT ![t] = "failed"]
                       /\ hit' = TRUE \/ ~Succeeds(p)
    BY <1>16, EntryPath
  <2>4. SharedDir \/ Succeeds(p)
    BY <2>1, <2>3, EntryHasItsPlace
  <2>5. \A u \in DOMAIN statters' : statters'[u] = "failed" =>
          hit' \/ SharedDir \/ (u \in DOMAIN statters /\ statters[u] = "failed")
    BY <2>3, <2>4
  <2> QED BY <1>4, <1>16, <2>1, <2>2, <2>5 DEF Working
<1>17. ASSUME Ordinary, Removal PROVE CauseOK'
  <2>1. ASSUME ReportResult PROVE CauseOK'
    BY <2>1 DEF ReportResult, CauseOK, Working
  <2>2. ASSUME WriteCleanup \/ MetaCleanup \/ SweepDone
        PROVE  writers' = writers /\ statters' = statters /\ Working /\ pc' # "prepare_failed"
    BY <2>2 DEF WriteCleanup, MetaCleanup, SweepDone, Sweeping, PhaseOK, Working, taskVars
  <2>3. ASSUME VisitDirectory \/ RemoveDirectory \/ (\E e \in sweep.left : RemoveEntry(e))
        PROVE  writers' = writers /\ statters' = statters /\ Working /\ pc' # "prepare_failed"
    <3>1. writers' = writers /\ statters' = statters /\ Sweeping /\ pc' = pc
      BY <2>3 DEF VisitDirectory, RemoveDirectory, RemoveEntry, taskVars
    <3> QED BY <3>1 DEF Sweeping, PhaseOK, Working
  <2> QED BY <1>4, <1>17, <2>1, <2>2, <2>3 DEF Removal
<1>18. ASSUME Ordinary, Prepare PROVE CauseOK'
  BY <1>1, <1>2, <1>6, <1>7, <1>8, <1>9, <1>10, <1>11, <1>12, <1>13, <1>18 DEF Prepare
<1>19. ASSUME Ordinary, Run PROVE CauseOK'
  BY <1>14, <1>15, <1>16, <1>19 DEF Run
<1> QED BY <1>1, <1>2, <1>17, <1>18, <1>19, OtherSteps DEF Next

(* The removal: what one step of the walk does.                            *)
LEMMA TopOfTheWalk ==
  ASSUME WalkOK, sweep.stack # <<>>
  PROVE  /\ Len(sweep.stack) \in Nat \ {0} /\ DOMAIN sweep.stack = 1..Len(sweep.stack)
         /\ Top = sweep.stack[Len(sweep.stack)] /\ Top \in Paths \X BOOLEAN
         /\ Home(Top[1]) = Home(Walked)
         /\ Front(sweep.stack) \in Seq(Paths \X BOOLEAN)
         /\ DOMAIN Front(sweep.stack) = 1..(Len(sweep.stack) - 1)
         /\ \A i \in 1..(Len(sweep.stack) - 1) : Front(sweep.stack)[i] = sweep.stack[i]
         /\ Front(sweep.stack) = <<>> <=> Len(sweep.stack) = 1
         /\ Len(Front(sweep.stack)) = Len(sweep.stack) - 1
<1> DEFINE s == sweep.stack
<1>1. s \in Seq(Paths \X BOOLEAN) /\ \A i \in DOMAIN s : Home(s[i][1]) = Home(Walked)
  BY DEF WalkOK
<1> HIDE DEF s
<1>2. /\ Len(s) \in Nat \ {0} /\ DOMAIN s = 1..Len(s)
      /\ Last(s) = s[Len(s)] /\ Last(s) \in Paths \X BOOLEAN
      /\ Front(s) \in Seq(Paths \X BOOLEAN) /\ Len(Front(s)) = Len(s) - 1
      /\ DOMAIN Front(s) = 1..(Len(s) - 1)
      /\ \A i \in 1..(Len(s) - 1) : Front(s)[i] = s[i]
      /\ Front(s) = <<>> <=> Len(s) = 1
  BY <1>1, Fronts DEF s
<1>3. Home(Last(s)[1]) = Home(Walked)
  BY <1>1, <1>2
<1> QED BY <1>2, <1>3 DEF Top, s

LEMMA VisitTakes ==
  ASSUME TreeOK, WalkOK, VisitDirectory
  PROVE  /\ Sweeping /\ sweep.left = {} /\ pc' = pc /\ tree' = tree /\ job' = job
         /\ writeRunner' = writeRunner
         /\ \/ sweep' = NoSweep /\ hit' = TRUE
            \/ \E k \in Nat \ {0} :
                 /\ DOMAIN sweep.stack = 1..k /\ DOMAIN sweep'.stack = 1..k
                 /\ sweep' = [stack |-> sweep'.stack, left |-> sweep'.left]
                 /\ sweep'.stack \in Seq(Paths \X BOOLEAN) /\ sweep'.stack # <<>>
                 /\ \A i \in 1..k : sweep'.stack[i][1] = sweep.stack[i][1]
                 /\ \A i \in 1..k : i # k => sweep'.stack[i] = sweep.stack[i]
                 /\ sweep'.left = Children(sweep.stack[k][1])
                 /\ \A p \in sweep'.left : p \in Paths /\ Home(p) = Home(Walked)
<1>1. /\ Sweeping /\ sweep.left = {} /\ pc' = pc /\ tree' = tree /\ job' = job /\ sweep.stack # <<>>
      /\ writeRunner' = writeRunner
      /\ \/ sweep' = NoSweep /\ hit' = TRUE
         \/ sweep' = [stack |-> Append(Front(sweep.stack), <<Top[1], TRUE>>), left |-> Children(Top[1])]
  BY DEF VisitDirectory, Fault, jobVars, treeVars, taskVars
<1> DEFINE s == sweep.stack
           f == Front(s)
           x == <<Top[1], TRUE>>
           k == Len(s)
<1>2. /\ k \in Nat \ {0} /\ DOMAIN s = 1..k /\ Top = s[k] /\ Top \in Paths \X BOOLEAN
      /\ Home(Top[1]) = Home(Walked)
      /\ f \in Seq(Paths \X BOOLEAN) /\ DOMAIN f = 1..(k - 1) /\ Len(f) = k - 1
      /\ \A i \in 1..(k - 1) : f[i] = s[i]
  BY <1>1, TopOfTheWalk
<1>3. x \in Paths \X BOOLEAN /\ x[1] = Top[1] /\ Top[1] \in Paths
  BY <1>2
<1> HIDE DEF x, f, k
<1>4. /\ Append(f, x) \in Seq(Paths \X BOOLEAN) /\ Append(f, x) # <<>>
      /\ DOMAIN Append(f, x) = 1..(Len(f) + 1)
      /\ \A i \in 1..Len(f) : Append(f, x)[i] = f[i]
      /\ Append(f, x)[Len(f) + 1] = x
  <2> DEFINE K == Paths \X BOOLEAN
  <2>1. f \in Seq(K) /\ x \in K
    BY <1>2, <1>3
  <2> HIDE DEF K
  <2>2. /\ Append(f, x) \in Seq(K) /\ Append(f, x) # <<>>
        /\ DOMAIN Append(f, x) = 1..(Len(f) + 1)
        /\ \A i \in 1..Len(f) : Append(f, x)[i] = f[i]
        /\ Append(f, x)[Len(f) + 1] = x
    BY <2>1, Appended
  <2> QED BY <2>2 DEF K
<1>5. ASSUME sweep' = [stack |-> Append(f, x), left |-> Children(Top[1])]
      PROVE  \E n \in Nat \ {0} :
                 /\ DOMAIN sweep.stack = 1..n /\ DOMAIN sweep'.stack = 1..n
                 /\ sweep' = [stack |-> sweep'.stack, left |-> sweep'.left]
                 /\ sweep'.stack \in Seq(Paths \X BOOLEAN) /\ sweep'.stack # <<>>
                 /\ \A i \in 1..n : sweep'.stack[i][1] = sweep.stack[i][1]
                 /\ \A i \in 1..n : i # n => sweep'.stack[i] = sweep.stack[i]
                 /\ sweep'.left = Children(sweep.stack[n][1])
                 /\ \A p \in sweep'.left : p \in Paths /\ Home(p) = Home(Walked)
  <2> DEFINE g == Append(f, x)
  <2>1. /\ g \in Seq(Paths \X BOOLEAN) /\ g # <<>> /\ DOMAIN g = 1..k
        /\ \A i \in 1..(k - 1) : g[i] = s[i]
        /\ g[k] = x
    BY <1>2, <1>4
  <2> HIDE DEF g
  <2>2. \A i \in 1..k : i # k => g[i] = s[i]
    BY <1>2, <2>1
  <2>3. \A i \in 1..k : g[i][1] = s[i][1]
    BY <1>2, <1>3, <2>1, <2>2
  <2>4. ASSUME NEW q \in Children(Top[1]) PROVE q \in Paths /\ Home(q) = Home(Walked)
    <3>1. q \in Paths /\ Len(q) = Len(Top[1]) + 1 /\ Parent(q) = Top[1]
      BY <2>4 DEF Children, TreeOK, IsTree
    <3>2. Len(Top[1]) \in Nat /\ Len(Top[1]) > 0
      BY <1>3, LastName
    <3> QED BY <1>2, <3>1, <3>2, Shorter
  <2>5. sweep'.stack = g /\ sweep'.left = Children(Top[1]) /\ Top[1] = s[k][1]
    BY <1>2, <1>5 DEF g
  <2>6. sweep' = [stack |-> sweep'.stack, left |-> sweep'.left]
    BY <1>5
  <2> QED BY <1>2, <2>1, <2>2, <2>3, <2>4, <2>5, <2>6
<1> QED BY <1>1, <1>5 DEF f, x

LEMMA EntryTakes ==
  ASSUME WalkOK, NEW e \in sweep.left, RemoveEntry(e)
  PROVE  /\ Sweeping /\ pc' = pc /\ job' = job /\ writeRunner' = writeRunner /\ tree' \subseteq tree
         /\ \/ sweep' = NoSweep /\ hit' = TRUE
            \/ /\ sweep' = [stack |-> sweep'.stack, left |-> sweep'.left]
               /\ sweep'.stack \in Seq(Paths \X BOOLEAN) /\ sweep'.left = sweep.left \ {e}
               /\ \E n \in Nat :
                    /\ DOMAIN sweep.stack = 1..n
                    /\ \/ DOMAIN sweep'.stack = 1..n /\ tree' = tree \ {e}
                       \/ /\ DOMAIN sweep'.stack = 1..(n + 1) /\ sweep'.stack # <<>>
                          /\ sweep'.stack[n + 1] = <<e, FALSE>>
                    /\ \A i \in 1..n : sweep'.stack[i] = sweep.stack[i]
                    /\ sweep.stack # <<>> => sweep'.stack # <<>>
<1>1. /\ Sweeping /\ pc' = pc /\ job' = job /\ writeRunner' = writeRunner /\ tree' \subseteq tree
      /\ \/ sweep' = NoSweep /\ hit' = TRUE
         \/ sweep' = [stack |-> Append(sweep.stack, <<e, FALSE>>), left |-> sweep.left \ {e}]
         \/ sweep' = [sweep EXCEPT !.left = @ \ {e}] /\ tree' = tree \ {e}
  BY DEF RemoveEntry, Fault, jobVars, taskVars
<1> DEFINE s == sweep.stack
           x == <<e, FALSE>>
<1>2. s \in Seq(Paths \X BOOLEAN) /\ e \in Paths /\ sweep = [stack |-> s, left |-> sweep.left]
  BY DEF WalkOK
<1>3. x \in Paths \X BOOLEAN
  BY <1>2
<1> HIDE DEF x
<1>4. /\ Append(s, x) \in Seq(Paths \X BOOLEAN) /\ Append(s, x) # <<>> /\ Len(s) \in Nat
      /\ DOMAIN Append(s, x) = 1..(Len(s) + 1) /\ DOMAIN s = 1..Len(s)
      /\ \A i \in 1..Len(s) : Append(s, x)[i] = s[i]
      /\ Append(s, x)[Len(s) + 1] = x
  <2> DEFINE K == Paths \X BOOLEAN
  <2>1. s \in Seq(K) /\ x \in K
    BY <1>2, <1>3
  <2> HIDE DEF K, s
  <2>2. /\ Append(s, x) \in Seq(K) /\ Append(s, x) # <<>> /\ Len(s) \in Nat
        /\ DOMAIN Append(s, x) = 1..(Len(s) + 1) /\ DOMAIN s = 1..Len(s)
        /\ \A i \in 1..Len(s) : Append(s, x)[i] = s[i]
        /\ Append(s, x)[Len(s) + 1] = x
    BY <2>1, Appended
  <2> QED BY <2>2 DEF K, s
<1>5. CASE sweep' = [stack |-> Append(s, x), left |-> sweep.left \ {e}]
  <2>1. sweep'.stack = Append(s, x) /\ sweep'.left = sweep.left \ {e}
    BY <1>5
  <2> QED BY <1>1, <1>4, <1>5, <2>1 DEF x
<1>6. CASE sweep' = [sweep EXCEPT !.left = @ \ {e}] /\ tree' = tree \ {e}
  <2>1. sweep'.stack = s /\ sweep'.left = sweep.left \ {e}
        /\ sweep' = [stack |-> sweep'.stack, left |-> sweep'.left]
    BY <1>2, <1>6
  <2> QED BY <1>1, <1>2, <1>4, <1>6, <2>1
<1> QED BY <1>1, <1>5, <1>6 DEF x

LEMMA DirectoryTakes ==
  ASSUME WalkOK, RemoveDirectory
  PROVE  /\ Sweeping /\ sweep.left = {} /\ pc' = pc /\ job' = job /\ writeRunner' = writeRunner
         /\ tree' \subseteq tree
         /\ \E k \in Nat \ {0} :
              /\ DOMAIN sweep.stack = 1..k /\ sweep.stack[k][2]
              /\ \/ sweep' = NoSweep /\ hit' = TRUE
                 \/ sweep' = NoSweep /\ Children(sweep.stack[k][1]) # {}
                 \/ /\ sweep' = [stack |-> sweep'.stack, left |-> sweep'.left]
                    /\ sweep'.stack \in Seq(Paths \X BOOLEAN) /\ sweep'.left = {}
                    /\ tree' = tree \ {sweep.stack[k][1]}
                    /\ DOMAIN sweep'.stack = 1..(k - 1)
                    /\ \A i \in 1..(k - 1) : sweep'.stack[i] = sweep.stack[i]
                    /\ sweep'.stack = <<>> <=> k = 1
<1>1. /\ Sweeping /\ sweep.left = {} /\ pc' = pc /\ job' = job /\ sweep.stack # <<>> /\ Top[2]
      /\ writeRunner' = writeRunner /\ tree' \subseteq tree
      /\ \/ sweep' = NoSweep /\ hit' = TRUE
         \/ sweep' = NoSweep /\ Children(Top[1]) # {}
         \/ sweep' = [sweep EXCEPT !.stack = Front(@)] /\ tree' = tree \ {Top[1]}
  BY DEF RemoveDirectory, Fault, jobVars, taskVars
<1> DEFINE s == sweep.stack
           f == Front(s)
           k == Len(s)
<1>2. /\ k \in Nat \ {0} /\ DOMAIN s = 1..k /\ Top = s[k]
      /\ f \in Seq(Paths \X BOOLEAN) /\ DOMAIN f = 1..(k - 1)
      /\ \A i \in 1..(k - 1) : f[i] = s[i]
      /\ f = <<>> <=> k = 1
  BY <1>1, TopOfTheWalk
<1>3. sweep = [stack |-> s, left |-> sweep.left]
  BY DEF WalkOK
<1>4. ASSUME sweep' = [sweep EXCEPT !.stack = Front(@)]
      PROVE  /\ sweep'.stack = f /\ sweep'.left = {}
             /\ sweep' = [stack |-> sweep'.stack, left |-> sweep'.left]
  BY <1>1, <1>3, <1>4
<1> HIDE DEF f, k
<1> QED BY <1>1, <1>2, <1>4

(* What the worker removes is what it walks through.                       *)
LEMMA WalkStep ==
  ASSUME RecordOK, PhaseOK, TreeOK, OrphansOK, WalkOK, Next
  PROVE  WalkOK'
<1>1. ASSUME sweep' = NoSweep PROVE WalkOK'
  <2>1. /\ sweep'.stack = <<>> /\ sweep'.left = {} /\ <<>> \in Seq(Paths \X BOOLEAN)
        /\ sweep' = [stack |-> sweep'.stack, left |-> sweep'.left]
    BY <1>1 DEF NoSweep
  <2> QED BY <1>1, <2>1 DEF WalkOK
<1>2. ASSUME pc' = pc, job' = job PROVE Home(Walked)' = Home(Walked)
  BY <1>2, SameJob DEF Walked, Home
<1>3. ASSUME sweep' = sweep, pc' = pc, job' = job, writeRunner' = writeRunner PROVE WalkOK'
  <2>1. Home(Walked)' = Home(Walked) /\ Sweeping' = Sweeping
    BY <1>2, <1>3 DEF Sweeping
  <2>2. Home(Walked') = Home(Walked)
    BY <2>1 DEF Home
  <2> QED BY <1>3, <2>1, <2>2 DEF WalkOK
<1>4. ASSUME sweep' = sweep, ~Sweeping PROVE WalkOK'
  BY <1>1, <1>4 DEF WalkOK
<1>5. ASSUME pc # "run", pc # "sweep" PROVE ~Sweeping
  BY <1>5 DEF Sweeping, PhaseOK, Working
<1>6. CASE Prepare
  <2>1. ASSUME NEW p, OrphanLands(p) PROVE WalkOK'
    BY <1>3, <2>1 DEF OrphanLands, jobVars, taskVars
  <2>2. ASSUME NEW p, CreateJob(p) \/ StartOp(p) \/ OpDone(p) \/ OpFails(p) \/ ScanEntry(p)
        PROVE  pc # "run" /\ pc # "sweep" /\ sweep' = sweep
    BY <2>2 DEF CreateJob, StartOp, OpDone, OpFails, ScanEntry
  <2>3. ASSUME Fetch \/ MakeWriteRoot \/ MakeMetaRoot \/ NextBatch \/ BeginScan \/ ScanDirectory
                 \/ ScanDone \/ BuildClient \/ ReadyError \/ BarrierOpens \/ GivenUp
        PROVE  pc # "run" /\ pc # "sweep" /\ sweep' = sweep
    BY <2>3 DEF Fetch, MakeWriteRoot, MakeMetaRoot, NextBatch, BatchDone, BeginScan, ScanDirectory,
                ScanDone, BuildClient, ReadyError, BarrierOpens, GivenUp
  <2> QED BY <1>4, <1>5, <1>6, <2>1, <2>2, <2>3 DEF Prepare
<1>7. CASE Run
  <2>1. sweep' = sweep /\ pc' = pc /\ job' = job /\ writeRunner' = writeRunner
    BY <1>7 DEF Run, WriteOp, WriterEnds, TargetFails, StatterEnds, MakeEntry, jobVars
  <2> QED BY <1>3, <2>1
<1>8. ASSUME NEW root \in Paths, sweep' = SweepOf(root), Walked' = root, Sweeping' PROVE WalkOK'
  <2> DEFINE x == <<root, FALSE>>
  <2>1. x \in Paths \X BOOLEAN /\ x[1] = root
    OBVIOUS
  <2> HIDE DEF x
  <2>2. /\ <<x>> \in Seq(Paths \X BOOLEAN) /\ DOMAIN <<x>> = {1} /\ <<x>>[1] = x
        /\ <<>> \in Seq(Paths \X BOOLEAN) /\ DOMAIN <<>> = {}
    BY <2>1
  <2>3. /\ sweep'.stack = IF root \in tree THEN <<x>> ELSE <<>>
        /\ sweep'.left = {}
        /\ sweep' = [stack |-> sweep'.stack, left |-> sweep'.left]
    BY <1>8 DEF SweepOf, x
  <2>4. \A i \in DOMAIN sweep'.stack : sweep'.stack[i][1] = root
    <3>1. CASE root \in tree
      <4>1. sweep'.stack = <<x>>
        BY <2>3, <3>1
      <4> QED BY <2>1, <2>2, <4>1
    <3>2. CASE root \notin tree
      BY <2>2, <2>3, <3>2
    <3> QED BY <3>1, <3>2
  <2>5. sweep'.stack \in Seq(Paths \X BOOLEAN)
    BY <2>2, <2>3
  <2> QED BY <1>8, <2>3, <2>4, <2>5 DEF WalkOK
<1>9. ASSUME WriteCleanup PROVE WalkOK'
  <2>1. /\ pc = "run" /\ pc' = pc /\ job' = job /\ job # NoSection /\ writeRunner = "on"
    BY <1>9 DEF WriteCleanup, jobVars, RecordOK
  <2>2. ~Sweeping
    BY <2>1 DEF Sweeping
  <2>3. \/ writeRunner' = "sweep" /\ sweep' = SweepOf(WRoot)
        \/ sweep' = sweep
    BY <1>9 DEF WriteCleanup
  <2>4. ASSUME writeRunner' = "sweep", sweep' = SweepOf(WRoot) PROVE WalkOK'
    <3>1. WRoot \in Paths /\ Walked' = WRoot /\ Sweeping'
      BY <2>1, <2>4, JobFacts, SameJob DEF Walked, Sweeping
    <3> QED BY <1>8, <2>4, <3>1
  <2> QED BY <1>4, <2>2, <2>3, <2>4
<1>10. ASSUME MetaCleanup PROVE WalkOK'
  <2>1. /\ pc' = "sweep" /\ (sweep' = SweepOf(MetaRoot) \/ sweep' = NoSweep)
    BY <1>10 DEF MetaCleanup
  <2>2. Walked' = MetaRoot /\ Sweeping' /\ MetaRoot \in Paths
    BY <2>1, RootsArePaths DEF Walked, Sweeping
  <2> QED BY <1>1, <1>8, <2>1, <2>2
<1>11. ASSUME Sweeping, pc' = pc, job' = job, writeRunner' = writeRunner,
              sweep' = [stack |-> sweep'.stack, left |-> sweep'.left],
              sweep'.stack \in Seq(Paths \X BOOLEAN),
              \A p \in sweep'.left : p \in Paths /\ Home(p) = Home(Walked),
              \A i \in DOMAIN sweep'.stack : Home(sweep'.stack[i][1]) = Home(Walked)
       PROVE  WalkOK'
  <2>1. Home(Walked') = Home(Walked)
    BY <1>2, <1>11 DEF Home
  <2>2. Sweeping'
    BY <1>11 DEF Sweeping
  <2> QED BY <1>11, <2>1, <2>2 DEF WalkOK
<1>12. ASSUME VisitDirectory PROVE WalkOK'
  <2>1. Sweeping /\ pc' = pc /\ job' = job /\ writeRunner' = writeRunner
    BY <1>12, VisitTakes
  <2>2. ASSUME NEW k \in Nat \ {0},
               DOMAIN sweep.stack = 1..k, DOMAIN sweep'.stack = 1..k,
               sweep' = [stack |-> sweep'.stack, left |-> sweep'.left],
               sweep'.stack \in Seq(Paths \X BOOLEAN),
               \A i \in 1..k : sweep'.stack[i][1] = sweep.stack[i][1],
               \A p \in sweep'.left : p \in Paths /\ Home(p) = Home(Walked)
        PROVE  WalkOK'
    <3>1. \A i \in DOMAIN sweep'.stack : Home(sweep'.stack[i][1]) = Home(Walked)
      BY <2>2 DEF WalkOK
    <3> QED BY <1>11, <2>1, <2>2, <3>1
  <2> QED BY <1>1, <1>12, <2>2, VisitTakes
<1>13. ASSUME NEW e \in sweep.left, RemoveEntry(e) PROVE WalkOK'
  <2>1. Sweeping /\ pc' = pc /\ job' = job /\ writeRunner' = writeRunner
    BY <1>13, EntryTakes
  <2>2. \A p \in sweep.left : p \in Paths /\ Home(p) = Home(Walked)
    BY DEF WalkOK
  <2>3. ASSUME sweep' = [stack |-> sweep'.stack, left |-> sweep'.left],
               sweep'.stack \in Seq(Paths \X BOOLEAN), sweep'.left = sweep.left \ {e},
               NEW n \in Nat, DOMAIN sweep.stack = 1..n,
               \/ DOMAIN sweep'.stack = 1..n
               \/ DOMAIN sweep'.stack = 1..(n + 1) /\ sweep'.stack[n + 1] = <<e, FALSE>>,
               \A i \in 1..n : sweep'.stack[i] = sweep.stack[i]
        PROVE  WalkOK'
    <3>1. \A i \in 1..n : Home(sweep'.stack[i][1]) = Home(Walked)
      BY <2>3 DEF WalkOK
    <3>2. \A i \in DOMAIN sweep'.stack : Home(sweep'.stack[i][1]) = Home(Walked)
      <4>1. CASE DOMAIN sweep'.stack = 1..n
        BY <3>1, <4>1
      <4>2. CASE DOMAIN sweep'.stack = 1..(n + 1) /\ sweep'.stack[n + 1] = <<e, FALSE>>
        <5>1. Home(sweep'.stack[n + 1][1]) = Home(Walked)
          BY <2>2, <4>2
        <5>2. \A i \in 1..(n + 1) : i \in 1..n \/ i = n + 1
          OBVIOUS
        <5> QED BY <3>1, <4>2, <5>1, <5>2
      <4> QED BY <2>3, <4>1, <4>2
    <3>3. \A p \in sweep'.left : p \in Paths /\ Home(p) = Home(Walked)
      BY <2>2, <2>3
    <3> QED BY <1>11, <2>1, <2>3, <3>2, <3>3
  <2> QED BY <1>1, <1>13, <2>3, EntryTakes
<1>14. ASSUME RemoveDirectory PROVE WalkOK'
  <2>1. Sweeping /\ pc' = pc /\ job' = job /\ writeRunner' = writeRunner
    BY <1>14, DirectoryTakes
  <2>2. ASSUME NEW k \in Nat \ {0}, DOMAIN sweep.stack = 1..k,
               sweep' = [stack |-> sweep'.stack, left |-> sweep'.left],
               sweep'.stack \in Seq(Paths \X BOOLEAN), sweep'.left = {},
               DOMAIN sweep'.stack = 1..(k - 1),
               \A i \in 1..(k - 1) : sweep'.stack[i] = sweep.stack[i]
        PROVE  WalkOK'
    <3>1. \A i \in 1..(k - 1) : i \in 1..k
      OBVIOUS
    <3>2. \A i \in 1..(k - 1) : Home(sweep'.stack[i][1]) = Home(Walked)
      BY <2>2, <3>1 DEF WalkOK
    <3>3. \A i \in DOMAIN sweep'.stack : Home(sweep'.stack[i][1]) = Home(Walked)
      BY <2>2, <3>2
    <3>4. \A p \in sweep'.left : p \in Paths /\ Home(p) = Home(Walked)
      BY <2>2
    <3> QED BY <1>11, <2>1, <2>2, <3>3, <3>4
  <2> QED BY <1>1, <1>14, <2>2, DirectoryTakes
<1>15. ASSUME SweepDone PROVE WalkOK'
  <2>1. sweep' = sweep /\ sweep.left = {} /\ sweep.stack = <<>>
    BY <1>15 DEF SweepDone
  <2> QED BY <1>1, <2>1 DEF WalkOK, NoSweep
<1>16. ASSUME ReportResult PROVE WalkOK'
  <2>1. pc = "report" /\ sweep' = sweep
    BY <1>16 DEF ReportResult
  <2> QED BY <1>4, <1>5, <2>1
<1>17. CASE Removal
  BY <1>9, <1>10, <1>12, <1>13, <1>14, <1>15, <1>16, <1>17 DEF Removal
<1> QED BY <1>6, <1>7, <1>17 DEF Next

(* What is left of the tree that is removed is still to be visited.        *)
LEMMA SweepStep ==
  ASSUME RecordOK, PhaseOK, TreeOK, OrphansOK, ScanOK, WalkOK, SweepOK, Next
  PROVE  SweepOK'
<1> DEFINE Goal == /\ \A i \in DOMAIN sweep'.stack : Covered(i)'
                   /\ Walked' \in tree' => sweep'.stack # <<>> /\ sweep'.stack[1][1] = Walked'
           After(q) == {p \in tree' : Len(p) = Len(q) + 1 /\ Parent(p) = q}
<1> SUFFICES ASSUME Sweeping', Sound', pc' = "sweep" \/ ~SharedDir' PROVE Goal
  BY DEF SweepOK
<1>0. ASSUME NEW i,
             sweep'.stack[i][2] => \A p \in After(sweep'.stack[i][1]) :
               p \in sweep'.left \/ \E j \in DOMAIN sweep'.stack : j > i /\ sweep'.stack[j][1] = p
      PROVE  Covered(i)'
  BY <1>0 DEF Covered, Children
<1>1. pc' \in {"run", "sweep"} /\ (pc' = "run" => writeRunner' = "sweep")
  BY PhaseStep DEF Sweeping, PhaseOK, Working
<1>2. Ordinary
  <2>1. ASSUME NEW p, CreateJob(p) PROVE FALSE
    BY <1>1, <2>1 DEF CreateJob
  <2>2. ASSUME Fetch PROVE FALSE
    BY <1>1, <2>2, FetchTakes
  <2> QED BY <2>1, <2>2, OtherSteps
<1>3. job' = job /\ SharedDir' = SharedDir /\ Sound /\ hit' = FALSE /\ (Walked' = Walked \/ pc' # pc)
  <2>1. job' = job
    BY <1>2 DEF Ordinary
  <2>2. SharedDir' = SharedDir /\ WRoot' = WRoot
    BY <2>1, SameJob
  <2>3. Sound /\ hit' = FALSE
    BY <1>2 DEF Ordinary, Sound, RecordOK
  <2> QED BY <2>1, <2>2, <2>3 DEF Walked
<1>4. ASSUME Sweeping, pc' = pc, sweep' = sweep, Walked \in tree' => Walked \in tree,
             \A i \in DOMAIN sweep.stack :
               Children(sweep.stack[i][1])' \subseteq Children(sweep.stack[i][1])
      PROVE  Goal
  <2>1. /\ \A i \in DOMAIN sweep.stack : Covered(i)
        /\ Walked \in tree => sweep.stack # <<>> /\ sweep.stack[1][1] = Walked
    BY <1>3, <1>4 DEF SweepOK
  <2>2. ASSUME NEW i \in DOMAIN sweep.stack PROVE Covered(i)'
    <3>1. Covered(i) /\ Children(sweep.stack[i][1])' \subseteq Children(sweep.stack[i][1])
      BY <1>4, <2>1, <2>2
    <3> QED BY <1>4, <3>1 DEF Covered
  <2>3. \A i \in DOMAIN sweep'.stack : Covered(i)'
    BY <1>4, <2>2
  <2> QED BY <1>3, <1>4, <2>1, <2>3
<1>5. ASSUME Sweeping, pc' = pc, sweep' = sweep, tree' = tree PROVE Goal
  <2>1. \A i \in DOMAIN sweep.stack :
          Children(sweep.stack[i][1])' \subseteq Children(sweep.stack[i][1])
    BY <1>5 DEF Children
  <2> HIDE DEF Goal
  <2> QED BY <1>4, <1>5, <2>1
<1>6. CASE Prepare
  <2>1. ASSUME NEW p \in orphans, OrphanLands(p) PROVE FALSE
    BY <1>1, <1>3, <2>1 DEF OrphanLands, OrphansOK, Sound
  <2>2. ASSUME NEW p, CreateJob(p) \/ StartOp(p) \/ OpDone(p) \/ OpFails(p) \/ ScanEntry(p) PROVE FALSE
    BY <1>1, <2>2 DEF CreateJob, StartOp, OpDone, OpFails, ScanEntry
  <2>3. ASSUME Fetch \/ MakeMetaRoot \/ NextBatch \/ BeginScan \/ ScanDirectory
                 \/ ScanDone \/ BuildClient \/ ReadyError \/ BarrierOpens \/ GivenUp
        PROVE  FALSE
    BY <1>1, <2>3 DEF Fetch, MakeMetaRoot, NextBatch, BatchDone, AfterTree, BeginScan, ScanDirectory,
                ScanDone, PreparationFails, BuildClient, ReadyError, BarrierOpens, GivenUp
  <2>4. ASSUME MakeWriteRoot PROVE FALSE
    BY <1>1, <2>4 DEF MakeWriteRoot, AfterRoot, AfterTree, Meta, PreparationFails
  <2> QED BY <1>6, <2>1, <2>2, <2>3, <2>4 DEF Prepare
<1>7. CASE Run
  <2>1. pc = "run" /\ pc' = pc /\ sweep' = sweep /\ writeRunner' = writeRunner
    BY <1>7 DEF Run, WriteOp, WriterEnds, TargetFails, StatterEnds, StatterWorks, MakeEntry
  <2>2. writeRunner = "sweep" /\ Sweeping
    BY <1>1, <2>1 DEF Sweeping
  <2>3. ASSUME NEW t \in DOMAIN writers, WriteOp(t) PROVE FALSE
    BY <2>1, <2>2, <2>3 DEF WriteOp, PhaseOK, Working, Ended
  <2>4. ASSUME NEW t, WriterEnds(t) \/ TargetFails(t) \/ StatterEnds(t) PROVE tree' = tree
    BY <2>4 DEF WriterEnds, TargetFails, StatterEnds, treeVars
  <2>5. ASSUME NEW t \in DOMAIN statters, NEW op \in {"create", "mkdir"}, MakeEntry(t, op) PROVE Goal
    <3>1. job # NoSection /\ t \in Nat
      BY <2>5, EntryPath
    <3>2. PICK p : /\ Home(p) = Home(MetaRoot) /\ Parent(p) = TaskRoot(t)
                   /\ tree' = tree \/ tree' = tree \cup {p}
      BY <2>5, EntryPath
    <3>3. ~SharedDir /\ Walked = WriteRoot
      BY <1>1, <1>3, <2>1, <3>1, JobFacts DEF Walked
    <3>4. Walked \in tree' => Walked \in tree
      BY <3>2, <3>3, RootsArePaths
    <3>5. Home(TaskRoot(t)) = Home(MetaRoot)
      BY <3>1, TaskRoots
    <3>6. \A i \in DOMAIN sweep.stack :
            Children(sweep.stack[i][1])' \subseteq Children(sweep.stack[i][1])
      <4> SUFFICES ASSUME NEW i \in DOMAIN sweep.stack
                   PROVE  Children(sweep.stack[i][1])' \subseteq Children(sweep.stack[i][1])
        OBVIOUS
      <4>1. Home(sweep.stack[i][1]) = Home(WriteRoot)
        BY <3>3 DEF WalkOK
      <4>2. Parent(p) # sweep.stack[i][1]
        BY <3>2, <3>5, <4>1, RootsArePaths
      <4> QED BY <2>1, <3>2, <4>2 DEF Children
    <3> HIDE DEF Goal
    <3> QED BY <1>4, <2>1, <2>2, <3>4, <3>6
  <2> HIDE DEF Goal
  <2> QED BY <1>5, <1>7, <2>1, <2>2, <2>3, <2>4, <2>5 DEF Run
<1>8. ASSUME NEW root, sweep' = SweepOf(root), Walked' = root, tree' = tree PROVE Goal
  <2>1. sweep'.stack = IF root \in tree THEN <<<<root, FALSE>>>> ELSE <<>>
    BY <1>8 DEF SweepOf
  <2>2. CASE root \in tree
    <3>1. sweep'.stack = <<<<root, FALSE>>>>
      BY <2>1, <2>2
    <3>2. sweep'.stack # <<>> /\ sweep'.stack[1][1] = root
      BY <3>1
    <3> DEFINE x == <<root, FALSE>>
    <3> HIDE DEF x
    <3>3. DOMAIN <<x>> = {1} /\ <<x>>[1] = x
      OBVIOUS
    <3>4. x[2] = FALSE
      BY DEF x
    <3>5. \A i \in DOMAIN sweep'.stack : sweep'.stack[i][2] = FALSE
      <4>1. sweep'.stack = <<x>>
        BY <3>1 DEF x
      <4> QED BY <3>3, <3>4, <4>1
    <3>6. \A i \in DOMAIN sweep'.stack : Covered(i)'
      BY <3>5 DEF Covered
    <3> QED BY <1>8, <3>2, <3>6
  <2>3. CASE root \notin tree
    <3>1. sweep'.stack = <<>>
      BY <2>1, <2>3
    <3> QED BY <1>8, <2>3, <3>1
  <2> QED BY <2>2, <2>3
<1>9. ASSUME WriteCleanup PROVE Goal
  <2>1. pc = "run" /\ pc' = pc /\ tree' = tree /\ writeRunner' = "sweep"
    BY <1>1, <1>9 DEF WriteCleanup, treeVars
  <2>2. sweep' = SweepOf(WRoot)
    BY <1>9, <2>1 DEF WriteCleanup
  <2>3. Walked' = WRoot
    BY <1>3, <2>1, SameJob DEF Walked
  <2> HIDE DEF Goal
  <2> QED BY <1>8, <2>1, <2>2, <2>3
<1>10. ASSUME MetaCleanup PROVE Goal
  <2>1. pc = "run" /\ pc' = "sweep" /\ tree' = tree /\ job # NoSection
    BY <1>10 DEF MetaCleanup, treeVars, RecordOK
  <2>2. Walked' = MetaRoot
    BY <2>1 DEF Walked
  <2>3. CASE Meta = "build"
    <3>1. sweep' = SweepOf(MetaRoot)
      BY <1>10, <2>3 DEF MetaCleanup
    <3> HIDE DEF Goal
    <3> QED BY <1>8, <2>1, <2>2, <3>1
  <2>4. CASE Meta # "build"
    <3>1. sweep'.stack = <<>>
      BY <1>10, <2>4 DEF MetaCleanup, NoSweep
    <3>2. At(MetaRoot) = {}
      BY <2>1, <2>4 DEF TreeOK
    <3>3. MetaRoot \notin tree'
      BY <2>1, <3>2 DEF At
    <3> QED BY <2>2, <3>1, <3>3
  <2> QED BY <2>3, <2>4
<1>11. ASSUME Sweeping, pc' = pc
       PROVE  /\ \A i \in DOMAIN sweep.stack : Covered(i)
              /\ Walked \in tree => sweep.stack # <<>> /\ sweep.stack[1][1] = Walked
  BY <1>3, <1>11 DEF SweepOK
<1>12. ASSUME VisitDirectory PROVE Goal
  <2>1. Sweeping /\ sweep.left = {} /\ pc' = pc /\ tree' = tree /\ Walked' = Walked
    BY <1>3, <1>12, VisitTakes
  <2>2. PICK k \in Nat \ {0} :
          /\ DOMAIN sweep.stack = 1..k /\ DOMAIN sweep'.stack = 1..k /\ sweep'.stack # <<>>
          /\ \A i \in 1..k : sweep'.stack[i][1] = sweep.stack[i][1]
          /\ \A i \in 1..k : i # k => sweep'.stack[i] = sweep.stack[i]
          /\ sweep'.left = Children(sweep.stack[k][1])
    BY <1>3, <1>12, VisitTakes
  <2>3. ASSUME NEW i \in 1..k PROVE Covered(i)'
    <3>1. After(sweep'.stack[i][1]) = Children(sweep.stack[i][1])
      BY <2>1, <2>2 DEF Children
    <3>2. CASE i = k
      <4>1. \A p \in After(sweep'.stack[i][1]) : p \in sweep'.left
        BY <2>2, <3>1, <3>2
      <4> QED BY <1>0, <4>1
    <3>3. CASE i # k
      <4>1. sweep'.stack[i] = sweep.stack[i] /\ Covered(i)
        BY <1>11, <2>1, <2>2, <3>3
      <4>2. sweep'.stack[i][2] => \A p \in Children(sweep.stack[i][1]) :
              \E j \in 1..k : j > i /\ sweep.stack[j][1] = p
        BY <2>1, <2>2, <4>1 DEF Covered
      <4>3. sweep'.stack[i][2] => \A p \in Children(sweep.stack[i][1]) :
              \E j \in 1..k : j > i /\ sweep'.stack[j][1] = p
        BY <2>2, <4>2
      <4> QED BY <1>0, <2>2, <3>1, <4>3
    <3> QED BY <3>2, <3>3
  <2>4. Walked' \in tree' => sweep'.stack[1][1] = Walked'
    <3>1. 1 \in 1..k
      OBVIOUS
    <3> QED BY <1>11, <2>1, <2>2, <3>1
  <2> QED BY <2>2, <2>3, <2>4
<1>13. ASSUME NEW e \in sweep.left, RemoveEntry(e) PROVE Goal
  <2>1. Sweeping /\ pc' = pc /\ tree' \subseteq tree /\ Walked' = Walked
    BY <1>3, <1>13, EntryTakes
  <2>2. PICK n \in Nat :
          /\ sweep'.left = sweep.left \ {e} /\ DOMAIN sweep.stack = 1..n
          /\ \/ DOMAIN sweep'.stack = 1..n /\ tree' = tree \ {e}
             \/ /\ DOMAIN sweep'.stack = 1..(n + 1) /\ sweep'.stack[n + 1] = <<e, FALSE>>
          /\ \A i \in 1..n : sweep'.stack[i] = sweep.stack[i]
          /\ sweep.stack # <<>> => sweep'.stack # <<>>
    BY <1>3, <1>13, EntryTakes
  <2>3. ASSUME NEW i \in 1..n PROVE Covered(i)'
    <3>1. Covered(i) /\ sweep'.stack[i] = sweep.stack[i]
      BY <1>11, <2>1, <2>2
    <3>2. After(sweep'.stack[i][1]) \subseteq Children(sweep.stack[i][1]) \cap tree'
      BY <2>1, <3>1 DEF Children
    <3>3. ASSUME sweep'.stack[i][2], NEW p \in After(sweep'.stack[i][1])
          PROVE  p \in sweep'.left \/ \E j \in DOMAIN sweep'.stack : j > i /\ sweep'.stack[j][1] = p
      <4>1. p \in sweep.left \/ \E j \in 1..n : j > i /\ sweep.stack[j][1] = p
        BY <2>2, <3>1, <3>2, <3>3 DEF Covered
      <4>2. ASSUME NEW j \in 1..n, j > i, sweep.stack[j][1] = p
            PROVE  \E h \in DOMAIN sweep'.stack : h > i /\ sweep'.stack[h][1] = p
        <5>1. j \in 1..n /\ j \in 1..(n + 1)
          OBVIOUS
        <5>2. j \in DOMAIN sweep'.stack /\ sweep'.stack[j] = sweep.stack[j]
          BY <2>2, <5>1
        <5> QED BY <4>2, <5>2
      <4>3. CASE p = e
        <5>1. p \in tree'
          BY <3>2, <3>3
        <5>2. DOMAIN sweep'.stack = 1..(n + 1) /\ sweep'.stack[n + 1] = <<e, FALSE>>
          BY <2>2, <4>3, <5>1
        <5>3. n + 1 \in DOMAIN sweep'.stack /\ n + 1 > i /\ sweep'.stack[n + 1][1] = p
          BY <4>3, <5>2
        <5> QED BY <5>3
      <4>4. CASE p # e /\ p \in sweep.left
        BY <2>2, <4>4
      <4> QED BY <4>1, <4>2, <4>3, <4>4
    <3> QED BY <1>0, <3>3
  <2>4. ASSUME NEW i \in DOMAIN sweep'.stack PROVE Covered(i)'
    <3>1. CASE i \in 1..n
      BY <2>3, <3>1
    <3>2. CASE i \notin 1..n
      <4>1. DOMAIN sweep'.stack = 1..(n + 1) /\ sweep'.stack[n + 1] = <<e, FALSE>>
        BY <2>2, <2>4, <3>2
      <4>2. i = n + 1
        BY <2>4, <3>2, <4>1
      <4>3. sweep'.stack[i] = <<e, FALSE>> /\ <<e, FALSE>>[2] = FALSE
        BY <4>1, <4>2
      <4>4. ~sweep'.stack[i][2]
        BY <4>3
      <4> QED BY <4>4 DEF Covered
    <3> QED BY <3>1, <3>2
  <2>5. ASSUME Walked' \in tree' PROVE sweep'.stack # <<>> /\ sweep'.stack[1][1] = Walked'
    <3>1. sweep.stack # <<>> /\ sweep.stack[1][1] = Walked
      BY <1>11, <2>1, <2>5
    <3>2. 1 \in 1..n
      BY <2>2, <3>1 DEF WalkOK
    <3> QED BY <2>1, <2>2, <3>1, <3>2
  <2> QED BY <2>4, <2>5
<1>14. ASSUME RemoveDirectory PROVE Goal
  <2>1. Sweeping /\ sweep.left = {} /\ pc' = pc /\ tree' \subseteq tree /\ Walked' = Walked
    BY <1>3, <1>14, DirectoryTakes
  <2>2. PICK k \in Nat \ {0} :
          /\ DOMAIN sweep.stack = 1..k /\ sweep.stack[k][2]
          /\ \/ Children(sweep.stack[k][1]) # {}
             \/ /\ tree' = tree \ {sweep.stack[k][1]}
                /\ DOMAIN sweep'.stack = 1..(k - 1)
                /\ \A i \in 1..(k - 1) : sweep'.stack[i] = sweep.stack[i]
                /\ sweep'.stack = <<>> <=> k = 1
    BY <1>3, <1>14, DirectoryTakes
  <2>3. Children(sweep.stack[k][1]) = {}
    <3>1. k \in 1..k /\ Covered(k)
      BY <1>11, <2>1, <2>2
    <3>2. \A j \in 1..k : ~(j > k)
      OBVIOUS
    <3> QED BY <2>1, <2>2, <3>1, <3>2 DEF Covered
  <2>4. \A i \in 1..(k - 1) : i \in 1..k
    OBVIOUS
  <2>5. ASSUME NEW i \in DOMAIN sweep'.stack PROVE Covered(i)'
    <3>1. i \in 1..(k - 1) /\ i \in 1..k
      BY <2>2, <2>3, <2>4
    <3>2. Covered(i) /\ sweep'.stack[i] = sweep.stack[i]
      BY <1>11, <2>1, <2>2, <2>3, <3>1
    <3>3. After(sweep'.stack[i][1]) \subseteq Children(sweep.stack[i][1]) \cap tree'
      BY <2>1, <3>2 DEF Children
    <3>4. ASSUME sweep'.stack[i][2], NEW p \in After(sweep'.stack[i][1])
          PROVE  \E j \in DOMAIN sweep'.stack : j > i /\ sweep'.stack[j][1] = p
      <4>1. PICK j \in 1..k : j > i /\ sweep.stack[j][1] = p
        BY <2>1, <2>2, <3>2, <3>3, <3>4 DEF Covered
      <4>2. j # k
        BY <2>2, <2>3, <3>3, <3>4, <4>1
      <4>3. j \in 1..(k - 1)
        BY <4>1, <4>2
      <4> QED BY <2>2, <2>3, <4>1, <4>3
    <3> QED BY <1>0, <3>4
  <2>6. ASSUME Walked' \in tree' PROVE sweep'.stack # <<>> /\ sweep'.stack[1][1] = Walked'
    <3>1. sweep.stack[1][1] = Walked /\ Walked # sweep.stack[k][1]
      BY <1>11, <2>1, <2>2, <2>3, <2>6
    <3>2. k # 1 /\ 1 \in 1..(k - 1)
      BY <3>1
    <3> QED BY <2>1, <2>2, <2>3, <3>1, <3>2
  <2> QED BY <2>5, <2>6
<1>15. ASSUME SweepDone PROVE FALSE
  BY <1>1, <1>15 DEF SweepDone, Sweeping, PhaseOK, Working
<1>16. ASSUME ReportResult PROVE FALSE
  BY <1>1, <1>16 DEF ReportResult
<1>17. CASE Removal
  <2> HIDE DEF Goal
  <2> QED BY <1>9, <1>10, <1>12, <1>13, <1>14, <1>15, <1>16, <1>17 DEF Removal
<1> HIDE DEF Goal
<1> QED BY <1>6, <1>7, <1>17 DEF Next

(* What has been removed stays away while the job lasts.                   *)
LEMMA SweptStep ==
  ASSUME RecordOK, PhaseOK, TreeOK, OrphansOK, ScanOK, WalkOK, SweepOK, SweptOK, Next
  PROVE  SweptOK'
<1> SUFFICES ASSUME Working', writeRunner' = "over" \/ pc' = "report", Sound' PROVE SweptOK'
  BY DEF SweptOK, Working
<1>1. Ordinary
  <2>1. ASSUME NEW p, CreateJob(p) PROVE FALSE
    BY <2>1 DEF CreateJob, Working
  <2>2. ASSUME Fetch PROVE FALSE
    BY <2>2, FetchTakes DEF Working
  <2> QED BY <2>1, <2>2, OtherSteps
<1>2. /\ job' = job /\ SharedDir' = SharedDir /\ Writes' = Writes /\ Sound /\ hit' = FALSE
  <2>1. job' = job
    BY <1>1 DEF Ordinary
  <2>2. SharedDir' = SharedDir /\ Writes' = Writes
    BY <2>1, SameJob
  <2>3. Sound /\ hit' = FALSE
    BY <1>1 DEF Ordinary, Sound, RecordOK
  <2> QED BY <2>1, <2>2, <2>3
<1>3. ASSUME Working, writeRunner' = "over" => writeRunner = "over", pc' = "report" => pc = "report",
             At(WriteRoot)' \subseteq At(WriteRoot), pc = "report" => At(MetaRoot)' \subseteq At(MetaRoot)
      PROVE  SweptOK'
  <2>1. Working' /\ writeRunner' = "over" /\ Sound' /\ ~SharedDir' /\ Writes' =>
          (job'.write.cleanup => At(WriteRoot)' = {})
    BY <1>2, <1>3 DEF SweptOK
  <2>2. pc' = "report" /\ Sound' => At(MetaRoot)' = {}
    BY <1>2, <1>3 DEF SweptOK
  <2> QED BY <2>1, <2>2 DEF SweptOK
<1>4. ASSUME tree' \subseteq tree PROVE At(WriteRoot)' \subseteq At(WriteRoot) /\ At(MetaRoot)' \subseteq At(MetaRoot)
  BY <1>4 DEF At
<1>5. CASE Prepare
  <2>1. ASSUME NEW p \in orphans, OrphanLands(p) PROVE FALSE
    BY <1>2, <2>1 DEF OrphanLands, OrphansOK, Sound, Working
  <2>2. ASSUME NEW p, CreateJob(p) \/ StartOp(p) \/ OpDone(p) \/ OpFails(p) \/ ScanEntry(p) PROVE FALSE
    BY <2>2 DEF CreateJob, StartOp, OpDone, OpFails, ScanEntry, Working
  <2>3. ASSUME Fetch \/ MakeMetaRoot \/ NextBatch \/ BeginScan \/ ScanDirectory
                 \/ ScanDone \/ BuildClient \/ ReadyError \/ GivenUp
        PROVE  FALSE
    BY <2>3 DEF Fetch, MakeMetaRoot, NextBatch, BatchDone, AfterTree, BeginScan, ScanDirectory,
                ScanDone, PreparationFails, BuildClient, ReadyError, GivenUp, Working
  <2>4. ASSUME MakeWriteRoot PROVE FALSE
    BY <2>4 DEF MakeWriteRoot, AfterRoot, AfterTree, Meta, PreparationFails, Working
  <2>5. ASSUME BarrierOpens PROVE SweptOK'
    BY <1>2, <2>5 DEF BarrierOpens, SweptOK
  <2> QED BY <1>5, <2>1, <2>2, <2>3, <2>4, <2>5 DEF Prepare
<1>6. CASE Run
  <2>1. pc = "run" /\ pc' = pc /\ writeRunner' = writeRunner
    BY <1>6 DEF Run, WriteOp, WriterEnds, TargetFails, StatterEnds, StatterWorks, MakeEntry
  <2>2. ASSUME NEW t \in DOMAIN writers, WriteOp(t) PROVE FALSE
    BY <2>1, <2>2 DEF WriteOp, PhaseOK, Working, Ended
  <2>3. ASSUME NEW t, WriterEnds(t) \/ TargetFails(t) \/ StatterEnds(t) PROVE tree' = tree
    BY <2>3 DEF WriterEnds, TargetFails, StatterEnds, treeVars
  <2>4. ASSUME NEW t \in DOMAIN statters, NEW op \in {"create", "mkdir"}, MakeEntry(t, op)
        PROVE  At(WriteRoot)' \subseteq At(WriteRoot)
    <3>1. PICK p : Home(p) = Home(MetaRoot) /\ (tree' = tree \/ tree' = tree \cup {p})
      BY <2>4, EntryPath
    <3> QED BY <3>1, RootsArePaths DEF At
  <2>5. At(WriteRoot)' \subseteq At(WriteRoot)
    BY <1>4, <1>6, <2>2, <2>3, <2>4 DEF Run
  <2> QED BY <1>3, <2>1, <2>5 DEF Working
<1>7. CASE Removal
  <2>1. tree' \subseteq tree
    BY <1>7, RemovalTakes
  <2>2. ASSUME VisitDirectory \/ RemoveDirectory \/ (\E e \in sweep.left : RemoveEntry(e)) PROVE SweptOK'
    <3>1. pc' = pc /\ writeRunner' = writeRunner
      BY <2>2 DEF VisitDirectory, RemoveDirectory, RemoveEntry, taskVars
    <3> QED BY <1>3, <1>4, <2>1, <3>1 DEF Working
  <2>3. ASSUME WriteCleanup PROVE SweptOK'
    <3>1. pc = "run" /\ pc' = pc /\ (writeRunner' = "over" => ~job.write.cleanup)
      BY <2>3 DEF WriteCleanup
    <3> QED BY <1>2, <3>1 DEF SweptOK
  <2>4. ASSUME MetaCleanup PROVE SweptOK'
    <3>1. pc = "run" /\ pc' = "sweep" /\ writeRunner = "over"
      BY <2>4 DEF MetaCleanup
    <3> QED BY <1>3, <1>4, <2>1, <3>1 DEF Working
  <2>5. ASSUME SweepDone PROVE SweptOK'
    <3>1. Sweeping /\ sweep.stack = <<>> /\ tree' = tree
      BY <2>5 DEF SweepDone, treeVars
    <3>2. pc = "sweep" \/ ~SharedDir => Walked \notin tree
      BY <1>2, <3>1 DEF SweepOK
    <3>3. IsTree(tree)
      BY DEF TreeOK
    <3>4. CASE pc = "sweep"
      <4>1. Walked = MetaRoot /\ MetaRoot \in Paths /\ Len(MetaRoot) = 1
        BY <3>4, RootsArePaths DEF Walked
      <4>2. \A p \in tree : Home(p) # Home(MetaRoot)
        BY <3>2, <3>3, <3>4, <4>1, NoRootNoTree
      <4>3. At(MetaRoot)' = {}
        BY <3>1, <4>2 DEF At
      <4>4. At(WriteRoot)' = At(WriteRoot) /\ writeRunner' = writeRunner /\ pc' = "report" /\ Working
        BY <2>5, <3>1, <3>4 DEF SweepDone, At, Working
      <4>5. Working' /\ writeRunner' = "over" /\ Sound' /\ ~SharedDir' /\ Writes' =>
              (job'.write.cleanup => At(WriteRoot)' = {})
        BY <1>2, <4>4 DEF SweptOK
      <4> QED BY <4>3, <4>5 DEF SweptOK
    <3>5. CASE pc # "sweep"
      <4>1. pc = "run" /\ pc' = pc /\ job # NoSection
        BY <2>5, <3>1, <3>5 DEF SweepDone, Sweeping, PhaseOK, Working, RecordOK
      <4>2. ASSUME ~SharedDir PROVE At(WriteRoot)' = {}
        <5>1. Walked = WriteRoot /\ WriteRoot \in Paths /\ Len(WriteRoot) = 1
          BY <4>1, <4>2, JobFacts, RootsArePaths DEF Walked
        <5>2. \A p \in tree : Home(p) # Home(WriteRoot)
          BY <3>2, <3>3, <4>2, <5>1, NoRootNoTree
        <5> QED BY <3>1, <5>2 DEF At
      <4> QED BY <1>2, <4>1, <4>2 DEF SweptOK
    <3> QED BY <3>4, <3>5
  <2>6. ASSUME ReportResult PROVE FALSE
    BY <2>6 DEF ReportResult, Working
  <2> QED BY <1>7, <2>2, <2>3, <2>4, <2>5, <2>6 DEF Removal
<1> QED BY <1>5, <1>6, <1>7 DEF Next

LEMMA IdleStep == SetInv /\ UNCHANGED vars => SetInv'
<1> SUFFICES ASSUME SetInv, UNCHANGED vars PROVE SetInv'
  OBVIOUS
<1>1. /\ record' = record /\ job' = job /\ pc' = pc /\ tree' = tree /\ batch' = batch /\ todo' = todo
      /\ flying' = flying /\ orphans' = orphans /\ scan' = scan /\ writers' = writers
      /\ writeRunner' = writeRunner /\ statters' = statters /\ made' = made /\ sweep' = sweep
      /\ rounds' = rounds /\ leftover' = leftover /\ faults' = faults /\ hit' = hit
  BY DEF vars, jobVars, treeVars, taskVars, boundVars
<1>2. /\ Meta' = Meta /\ Writes' = Writes /\ SharedDir' = SharedDir /\ WRoot' = WRoot
      /\ Writers' = Writers /\ Statters' = Statters /\ NoFilesInSight' = NoFilesInSight
  BY <1>1, SameJob
<1>3. /\ Working' = Working /\ Sweeping' = Sweeping /\ Sound' = Sound /\ Ready' = Ready
      /\ \A q : Pending(q)' = Pending(q) /\ At(q)' = At(q) /\ Children(q)' = Children(q)
  BY <1>1 DEF Working, Sweeping, Sound, Ready, Pending, At, Children
<1>4. Walked' = Walked
  BY <1>1, <1>2 DEF Walked
<1>5. RecordOK' /\ PhaseOK' /\ RootOK'
  BY <1>1, <1>2, <1>3 DEF SetInv, RecordOK, PhaseOK, RootOK, Ended
<1>6. TreeOK' /\ OrphansOK' /\ FreshOK'
  BY <1>1, <1>2, <1>3 DEF SetInv, TreeOK, OrphansOK, FreshOK
<1>7. MakingOK'
  BY <1>1, <1>2, <1>3 DEF SetInv, MakingOK, Done
<1>8. BuiltOK'
  BY <1>1, <1>2, <1>3 DEF SetInv, BuiltOK
<1>9. ScanOK'
  BY <1>1, <1>2, <1>3, ScanLeft DEF SetInv
<1>10. CauseOK'
  BY <1>1, <1>2, <1>3 DEF SetInv, CauseOK
<1>11. WalkOK' /\ SweepOK' /\ SweptOK'
  BY <1>1, <1>2, <1>3, <1>4 DEF SetInv, WalkOK, SweepOK, SweptOK, Covered
<1> QED BY <1>5, <1>6, <1>7, <1>8, <1>9, <1>10, <1>11 DEF SetInv

LEMMA SetStep == SetInv /\ Next => SetInv'
<1> SUFFICES ASSUME SetInv, Next PROVE SetInv'
  OBVIOUS
<1>1. /\ RecordOK /\ PhaseOK /\ RootOK /\ TreeOK /\ OrphansOK /\ MakingOK /\ FreshOK /\ BuiltOK
      /\ ScanOK /\ CauseOK /\ WalkOK /\ SweepOK /\ SweptOK
  BY DEF SetInv
<1>2. RecordOK' /\ PhaseOK' /\ RootOK'
  BY <1>1, RecordStep, PhaseStep, RootStep
<1>3. TreeOK' /\ OrphansOK'
  BY <1>1, TreeStep, OrphansStep
<1>4. MakingOK' /\ FreshOK' /\ BuiltOK'
  BY <1>1, MakingStep, FreshStep, BuiltStep
<1>5. ScanOK' /\ CauseOK'
  BY <1>1, ScanStep, CauseStep
<1>6. WalkOK' /\ SweepOK' /\ SweptOK'
  BY <1>1, WalkStep, SweepStep, SweptStep
<1> QED BY <1>2, <1>3, <1>4, <1>5, <1>6 DEF SetInv

LEMMA SetAlways == Spec => []SetInv
<1>1. SetInv /\ [Next]_vars => SetInv'
  BY IdleStep, SetStep
<1> QED BY InitSet, <1>1, PTL DEF Spec

-----------------------------------------------------------------------------
(* The properties.                                                         *)

LEMMA TypesOfTheSet == SetInv => TypeOK
<1> SUFFICES ASSUME SetInv PROVE TypeOK
  OBVIOUS
<1> USE DEF SetInv
<1>1. /\ pc \in {"idle", "fetch", "write_root", "build", "scan", "layout", "scanning", "client",
                 "prepare_failed", "ready", "run", "sweep", "report", "over"}
      /\ IsTree(tree) /\ scan.found \subseteq Existing
      /\ scan.count > 0 /\ job.metadata.scanLimit > 0 => scan.count <= job.metadata.scanLimit
      /\ rounds \in 0..MaxRounds /\ faults \in 0..MaxFaults /\ {hit, leftover} \subseteq BOOLEAN
  BY DEF PhaseOK, Places, TreeOK, ScanOK, RecordOK
<1>2. flying # {} => Cardinality(flying) <= job.metadata.layoutConcurrency
  BY DEF PhaseOK, MakingOK
<1>3. ASSUME batch > 0 \/ orphans # {}
      PROVE  Meta = "build" /\ todo \cup flying \cup orphans \subseteq Layout(job.metadata)
  <2>1. CASE pc = "layout"
    <3>1. Meta = "build" /\ todo \cup flying \subseteq Layout(job.metadata)
      BY <2>1 DEF PhaseOK, MakingOK, Layout
    <3> QED BY <3>1 DEF OrphansOK
  <2>2. CASE pc # "layout"
    <3>1. batch = 0 /\ todo = {} /\ flying = {}
      BY <2>2 DEF PhaseOK
    <3> QED BY <1>3, <3>1 DEF OrphansOK
  <2> QED BY <2>1, <2>2
<1>4. DOMAIN NoTasks = {}
  BY DEF NoTasks
<1>5. /\ \A t \in DOMAIN writers : writers[t] \in {"on", "over", "failed"}
      /\ \A t \in DOMAIN statters : statters[t] \in {"on", "over", "failed"}
      /\ writeRunner \in {"off", "on", "sweep", "over"}
      /\ \A t \in DOMAIN made : made[t] \in 0..MaxNew
  <2>1. CASE Working
    BY <2>1 DEF PhaseOK, TaskStates
  <2>2. CASE ~Working
    BY <1>4, <2>2 DEF PhaseOK
  <2> QED BY <2>1, <2>2
<1>6. \A tasks \in {writers, statters} :
        \A t \in DOMAIN tasks : tasks[t] \in {"on", "over", "failed"}
  BY <1>5
<1> QED BY <1>1, <1>2, <1>3, <1>5, <1>6 DEF TypeOK

(* A job the master has taken fails only for a cause: every operation of   *)
(* the layout finds its parent and a free name, whatever order they are    *)
(* done in; every target and every directory of a task is there; and what  *)
(* one task makes another does not make too.                               *)
THEOREM FailuresHaveACause == Spec => []FailsForACause
<1>1. SetInv => FailsForACause
  <2> SUFFICES ASSUME SetInv PROVE FailsForACause
    OBVIOUS
  <2>1. DOMAIN NoTasks = {}
    BY DEF NoTasks
  <2>2. pc = "prepare_failed" => hit \/ leftover \/ (job # NoSection /\ NoFilesInSight)
    BY DEF SetInv, CauseOK, RecordOK
  <2>3. /\ \A t \in DOMAIN writers : writers[t] = "failed" => hit
        /\ \A t \in DOMAIN statters : statters[t] = "failed" => hit \/ SharedDir
    <3>1. CASE Working
      BY <3>1 DEF SetInv, CauseOK
    <3>2. CASE ~Working
      BY <2>1, <3>2 DEF SetInv, PhaseOK
    <3> QED BY <3>1, <3>2
  <2> QED BY <2>2, <2>3 DEF FailsForACause
<1> QED BY <1>1, SetAlways, PTL

(* From the barrier to the removal the whole working set is there, as      *)
(* large as was asked for and no larger than the caps allow, for a layout  *)
(* of any depth and width.                                                 *)
THEOREM SetAlwaysStands == Spec => []SetStands
<1>1. SetInv => LayoutStands
  <2> SUFFICES ASSUME SetInv PROVE LayoutStands
    OBVIOUS
  <2> DEFINE m == job.metadata
  <2>1. ASSUME pc = "ready" \/ (pc = "run" /\ ~SharedDir)
        PROVE  (Meta = "build" => Layout(m) \subseteq tree) /\ InUse \subseteq tree
    <3>1. RecordOK /\ job # NoSection
      BY <2>1 DEF SetInv, RecordOK
    <3>2. Meta = "build" => Layout(m) \subseteq tree
      BY <2>1 DEF SetInv, BuiltOK
    <3>3. CASE Meta = "build"
      <4>1. InUse = Directories(m) \cup Files(m)
        BY <3>3 DEF InUse
      <4>2. Directories(m) \cup Files(m) \subseteq Layout(m)
        BY <3>1, <3>3, JobFacts, LayoutIs
      <4> QED BY <3>2, <3>3, <4>1, <4>2
    <3>4. CASE Meta = "scan"
      <4>1. InUse = scan.found
        BY <3>4 DEF InUse
      <4> QED BY <3>4, <4>1 DEF SetInv, ScanOK, TreeOK, At
    <3>5. CASE Meta \notin {"build", "scan"}
      BY <3>5 DEF InUse
    <3> QED BY <3>2, <3>3, <3>4, <3>5
  <2>2. ASSUME pc = "ready", Meta = "build"
        PROVE  /\ Cardinality(Directories(m)) = TotalDirs(m)
               /\ Cardinality(Directories(m)) <= Caps.totalDirs
               /\ Cardinality(Files(m)) <= Caps.totalFiles
    <3>1. GoodTree(m) /\ WithinCaps(m)
      BY <2>2, JobFacts DEF SetInv, RecordOK
    <3>2. Cardinality(Directories(m)) = TotalDirs(m) /\ Cardinality(Files(m)) = TotalDirs(m) * m.files
      BY <3>1, LayoutSizes
    <3>3. m.depth > 0 /\ m.width > 0
      BY <3>1 DEF GoodTree
    <3>4. TotalDirs(m) <= Caps.totalDirs /\ TotalDirs(m) * m.files <= Caps.totalFiles
      BY <3>1, <3>3 DEF WithinCaps
    <3> QED BY <3>2, <3>4
  <2>3. pc = "run" /\ writeRunner = "on" => WRoot \in tree
    BY DEF SetInv, RootOK
  <2> QED BY <2>1, <2>2, <2>3 DEF LayoutStands
<1> QED BY <1>1, TypesOfTheSet, SetAlways, PTL DEF SetStands

(* After a run in which the file system did its work nothing is left of    *)
(* the trees that are to be removed, however the tasks ended and whatever  *)
(* they made meanwhile, and what is scanned is untouched.                  *)
THEOREM NothingIsLeft == Spec => []RunLeavesNothing
<1>1. SetInv => RunLeavesNothing
  <2> SUFFICES ASSUME SetInv PROVE RunLeavesNothing
    OBVIOUS
  <2>1. ASSUME NEW r \in Paths, Len(r) = 1 PROVE Under(r) = At(r)
    <3>1. \A p \in tree : p \in Paths
      BY DEF SetInv, TreeOK, IsTree
    <3>2. \A p \in tree : IsPrefix(r, p) <=> Home(p) = Home(r)
      BY <2>1, <3>1, UnderRoot
    <3> QED BY <3>2 DEF Under, At
  <2>2. /\ Under(MetaRoot) = At(MetaRoot) /\ Under(WriteRoot) = At(WriteRoot)
        /\ Under(ScanRoot) = At(ScanRoot)
    BY <2>1, RootsArePaths
  <2>3. ASSUME pc = "report", ~hit, ~leftover
        PROVE  /\ Under(MetaRoot) = {}
               /\ Writes => (job.write.cleanup => Under(WRoot) = {})
    <3>1. At(MetaRoot) = {}
      BY <2>3 DEF SetInv, SweptOK, Sound
    <3>2. RecordOK /\ job # NoSection /\ writeRunner = "over" /\ Working
      BY <2>3 DEF SetInv, RecordOK, PhaseOK, Working
    <3>3. CASE SharedDir
      BY <2>2, <3>1, <3>2, <3>3, JobFacts
    <3>4. CASE ~SharedDir
      <4>1. Writes => (job.write.cleanup => At(WriteRoot) = {})
        BY <2>3, <3>2, <3>4 DEF SetInv, SweptOK, Sound
      <4>2. WRoot = WriteRoot
        BY <3>2, <3>4, JobFacts
      <4> QED BY <2>2, <3>1, <4>1, <4>2
    <3> QED BY <3>3, <3>4
  <2>4. Under(ScanRoot) = Existing
    BY <2>2 DEF SetInv, TreeOK
  <2> QED BY <2>3, <2>4 DEF RunLeavesNothing
<1> QED BY <1>1, SetAlways, PTL
==============================================================================
