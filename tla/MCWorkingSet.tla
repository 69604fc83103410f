---------------------------- MODULE MCWorkingSet ----------------------------
(* Small instances of WorkingSet for TLC.                                  *)
EXTENDS WorkingSet

SmallCaps == [depth |-> 2, width |-> 3, files |-> 2, totalDirs |-> 6, totalFiles |-> 6]

S3 == [bucket |-> TRUE, url |-> TRUE, region |-> TRUE, accessKey |-> "a", secretKey |-> "s"]

ReadSection == [concurrency |-> 1, files |-> TRUE, dirs |-> FALSE, think |-> Unset, rate |-> "",
                s3 |-> S3]

WriteSection == [concurrency |-> 1, dir |-> <<"w">>, size |-> 1, range |-> NoSection,
                 cleanup |-> TRUE, think |-> Unset, rate |-> ""]

MetaSection == [concurrency |-> 1, dir |-> <<"m">>, manifest |-> FALSE, ops |-> {"stat", "readdir"},
                depth |-> 1, width |-> 1, files |-> 1, layoutConcurrency |-> 0,
                readOnly |-> FALSE, scanLimit |-> 0, think |-> Unset, rate |-> ""]

Sizes(min, max, distribution) == [min |-> min, max |-> max, distribution |-> distribution]

Job(read, write, metadata) ==
  [fs |-> "fs", ioMode |-> "seq", aligned |-> TRUE, direct |-> FALSE, blockSize |-> 512,
   duration |-> 2, warmup |-> Unset, workers |-> 1,
   read |-> read, write |-> write, metadata |-> metadata]

Writing(w)    == Job(NoSection, w, NoSection)
Reading(r)    == Job(r, NoSection, NoSection)
OnMetadata(m) == Job(NoSection, NoSection, m)

(* The jobs whose interleavings matter.                                    *)
TwoWriters == [WriteSection EXCEPT !.concurrency = 2]
Tree22     == [MetaSection EXCEPT !.depth = 2, !.width = 2, !.concurrency = 2,
                                  !.ops = MetadataOps]
Scan3      == [MetaSection EXCEPT !.readOnly = TRUE, !.scanLimit = 3, !.concurrency = 2,
                                  !.depth = 0, !.width = 0, !.files = 0]

Large == {OnMetadata(Tree22), Writing(TwoWriters), Job(NoSection, TwoWriters, Tree22),
          Job(NoSection, [TwoWriters EXCEPT !.cleanup = FALSE], Scan3),
          Job(ReadSection, WriteSection, MetaSection)}

(* One field at a time is set to what a client may send.                   *)
ReadVariants ==
  {[ReadSection EXCEPT !.concurrency = n] : n \in {-1, 0}}
  \cup {[ReadSection EXCEPT !.files = f, !.dirs = d] : f \in BOOLEAN, d \in BOOLEAN}
  \cup {[ReadSection EXCEPT !.rate = r] : r \in {"bytes", "iops", "garbage"}}
  \cup {[ReadSection EXCEPT !.s3 = NoSection]}
  \cup {[ReadSection EXCEPT !.s3.accessKey = k] : k \in {"", Redacted}}
  \cup {[ReadSection EXCEPT !.s3.bucket = FALSE]}

WriteVariants ==
  {[WriteSection EXCEPT !.dir = d] :
     d \in {<<"">>, <<"", "w">>, <<"w", "..">>, <<"w", ".">>, <<"w", "", "v">>}}
  \cup {[WriteSection EXCEPT !.size = n] : n \in {Unset, Garbage, 0}}
  \cup {[WriteSection EXCEPT !.size = Unset, !.range = r] :
          r \in {Sizes(1, 2, ""), Sizes(2, 1, "uniform"), Sizes(0, 1, ""), Sizes(1, 2, "normal")}}
  \cup {[WriteSection EXCEPT !.range = Sizes(1, 2, "")], [WriteSection EXCEPT !.rate = "iops"],
        [WriteSection EXCEPT !.think = Garbage], [WriteSection EXCEPT !.cleanup = FALSE]}

MetadataVariants ==
  {[MetaSection EXCEPT !.depth = d, !.width = w, !.files = f] : d \in 0..3, w \in 0..4, f \in 0..3}
  \cup {[MetaSection EXCEPT !.ops = o, !.files = f] : f \in 0..1,
          o \in {{}, {"stat"}, {"readdir"}, {"create"}, {"mkdir", "open"}, {"rename"}}}
  \cup {[MetaSection EXCEPT !.readOnly = TRUE, !.ops = o, !.scanLimit = n, !.files = 0] :
          o \in {{"stat"}, {"readdir"}, {"create"}}, n \in {-1, 0, 1}}
  \cup {[MetaSection EXCEPT !.manifest = TRUE, !.dir = <<"">>, !.ops = o] : o \in {{"stat"}, {"open"}}}
  \cup {[MetaSection EXCEPT !.layoutConcurrency = n] : n \in {-1, 2}}
  \cup {[MetaSection EXCEPT !.rate = r] : r \in {"bytes", "iops"}}

Base == Reading([ReadSection EXCEPT !.s3 = NoSection])
SpecVariants ==
  {[Base EXCEPT !.fs = f] : f \in {"", "other"}}
  \cup {[Base EXCEPT !.ioMode = "random"], [Base EXCEPT !.read = NoSection]}
  \cup {[Base EXCEPT !.aligned = a, !.direct = d] : a \in BOOLEAN, d \in BOOLEAN}
  \cup {[Base EXCEPT !.blockSize = n] : n \in {Unset, Garbage, 0, 511, 1024}}
  \cup {[Base EXCEPT !.duration = n, !.warmup = m] : n \in {Unset, 0, 2}, m \in {Garbage, 0, 1, 2}}
  \cup {[Base EXCEPT !.workers = n] : n \in {-1, 0, 2}}

Variants == {Reading(r) : r \in ReadVariants} \cup {Writing(w) : w \in WriteVariants}
              \cup {OnMetadata(m) : m \in MetadataVariants} \cup SpecVariants

(* write.dir = metadata.dir: the write runner removes the metadata tree    *)
(* under the metadata tasks.                                               *)
SharedDirs == {Job(NoSection, [WriteSection EXCEPT !.dir = <<"m">>],
                   [MetaSection EXCEPT !.ops = {"stat", "mkdir"}])}

AllProtos == Large \cup Variants \cup SharedDirs

R == <<<<"root", 3>>>>
D == Append(R, <<"dir", 1>>)
Tree == {R, D, Append(D, <<"file", 1>>), Append(D, <<"link", 1>>), Append(R, <<"file", 2>>)}
=============================================================================
