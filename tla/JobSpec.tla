------------------------------- MODULE JobSpec -------------------------------
(***************************************************************************)
(* The specification of a job on its way to the workers: the master parses *)
(* and validates what the client sends, stores it without the credentials, *)
(* and each worker parses and validates what is stored once more.          *)
(*                                                                         *)
(* A field that is text holds what its parser makes of it: a number, Unset *)
(* for empty text, or Garbage for text that the parser refuses.  A path is *)
(* the sequence of what stands between its slashes.                        *)
(***************************************************************************)
EXTENDS Integers, Sequences, FiniteSets

CONSTANTS
  FileSystems,  (* the file systems of cvd-master.toml                     *)
  Caps          (* LayoutCaps: the soft caps of a metadata tree            *)

ASSUME CapsAssumption ==
  Caps \in [depth : Nat, width : Nat, files : Nat, totalDirs : Nat, totalFiles : Nat]

Unset     == -1
Garbage   == -2
NoSection == [set |-> FALSE]
Redacted  == "***"

MetadataOps == {"create", "mkdir", "stat", "open", "readdir"}
Alignment   == 512

-----------------------------------------------------------------------------
(* What a client can send, field by field.                                 *)

Keys          == STRING \cup {Redacted}
S3Sections    == [bucket : BOOLEAN, url : BOOLEAN, region : BOOLEAN,
                  accessKey : Keys, secretKey : Keys]
ReadSections  == [concurrency : Int, files : BOOLEAN, dirs : BOOLEAN, think : Int,
                  rate : STRING, s3 : {NoSection} \cup S3Sections]
RangeSections == [min : Int, max : Int, distribution : STRING]
WriteSections == [concurrency : Int, dir : Seq(STRING), size : Int,
                  range : {NoSection} \cup RangeSections, cleanup : BOOLEAN,
                  think : Int, rate : STRING]
MetadataSections ==
  [concurrency : Int, dir : Seq(STRING), manifest : BOOLEAN, ops : SUBSET STRING,
   depth : Int, width : Int, files : Int, layoutConcurrency : Int,
   readOnly : BOOLEAN, scanLimit : Int, think : Int, rate : STRING]
BenchSpec ==
  [fs : STRING, ioMode : STRING, aligned : BOOLEAN, direct : BOOLEAN,
   blockSize : Int, duration : Int, warmup : Int, workers : Int,
   read : {NoSection} \cup ReadSections, write : {NoSection} \cup WriteSections,
   metadata : {NoSection} \cup MetadataSections]

-----------------------------------------------------------------------------
(* try_from_proto.                                                         *)

Required(n)    == n >= 0
Optional(n)    == n # Garbage
RateReads(rate) == rate # "garbage"

ReadParses(r) ==
  /\ r.files # r.dirs
  /\ r.concurrency > 0 /\ Optional(r.think) /\ RateReads(r.rate)

SizeParses(w) ==
  \/ w.size # Unset /\ w.range = NoSection /\ Required(w.size)
  \/ /\ w.size = Unset /\ w.range # NoSection
     /\ Required(w.range.min) /\ Required(w.range.max)
     /\ w.range.distribution \in {"", "log_uniform", "uniform"}

WriteParses(w) ==
  /\ SizeParses(w)
  /\ w.concurrency > 0 /\ Optional(w.think) /\ RateReads(w.rate)

MetadataParses(m) ==
  /\ m.ops \subseteq MetadataOps
  /\ m.concurrency > 0 /\ Optional(m.think) /\ RateReads(m.rate)
  /\ \A n \in {m.depth, m.width, m.files, m.scanLimit} : n >= 0

Parses(p) ==
  /\ p.ioMode \in {"seq", "rand"}
  /\ Required(p.blockSize) /\ Required(p.duration) /\ Optional(p.warmup)
  /\ p.read # NoSection => ReadParses(p.read)
  /\ p.write # NoSection => WriteParses(p.write)
  /\ p.metadata # NoSection => MetadataParses(p.metadata)

(* What is left out takes its default.                                     *)
DefaultLayout(m) ==
  IF m # NoSection /\ m.layoutConcurrency <= 0
  THEN [m EXCEPT !.layoutConcurrency = m.concurrency] ELSE m

FromProto(p) ==
  [p EXCEPT !.warmup   = IF @ = Unset THEN 0 ELSE @,
            !.workers  = IF @ <= 0 THEN 1 ELSE @,
            !.metadata = DefaultLayout(@)]

-----------------------------------------------------------------------------
(* validate.                                                               *)

(* validate_relative.                                                      *)
IsRelative(path) ==
  /\ path # <<"">> /\ path[1] # ""
  /\ \A i \in 1..Len(path) : path[i] \notin {".", "..", "nul"}

(* A worker sees credentials only as they are stored.                      *)
ValidConsistency(s3, redactedToo) ==
  /\ s3.bucket /\ s3.url /\ s3.region
  /\ \A key \in {s3.accessKey, s3.secretKey} : key # "" /\ (key = Redacted => redactedToo)

ValidRead(r, redactedToo) ==
  /\ r.rate \in {"", "bytes"}
  /\ r.s3 # NoSection => ValidConsistency(r.s3, redactedToo)

ValidWrite(w) ==
  /\ IsRelative(w.dir)
  /\ IF w.range = NoSection THEN w.size > 0 ELSE w.range.min > 0 /\ w.range.max >= w.range.min
  /\ w.rate \in {"", "bytes"}

(* The sum of width^i; beyond the caps it saturates in the code.           *)
TotalDirs(m) ==
  LET layer[k \in 0..m.depth] == IF k = 0 THEN 1 ELSE layer[k - 1] * m.width
      sum[k \in 0..m.depth]   == IF k = 0 THEN 0 ELSE sum[k - 1] + layer[k]
  IN  sum[m.depth]

WithinCaps(m) ==
  /\ m.depth <= Caps.depth /\ m.width <= Caps.width /\ m.files <= Caps.files
  /\ m.depth > 0 /\ m.width > 0 =>
       TotalDirs(m) <= Caps.totalDirs /\ TotalDirs(m) * m.files <= Caps.totalFiles

Builds(m)    == ~m.manifest /\ ~m.readOnly
NeedsFiles(m) == m.ops \cap {"stat", "open"} # {}

(* Mutant: a tree without files will do for stat and open.                 *)
BuildableAnyway(m) == m.depth > 0 /\ m.width > 0

Buildable(m) == m.depth > 0 /\ m.width > 0 /\ (NeedsFiles(m) => m.files > 0)

ValidMetadata(m) ==
  /\ ~m.manifest => IsRelative(m.dir)
  /\ m.ops # {}
  /\ m.manifest => m.ops = {"stat"}
  /\ m.readOnly => m.ops \subseteq {"stat", "open", "readdir"}
  /\ Builds(m) => Buildable(m)
  /\ WithinCaps(m)
  /\ m.rate \in {"", "iops"}

Valid(s, redactedToo) ==
  /\ s.fs # ""
  /\ s.duration > 0 /\ s.warmup < s.duration
  /\ s.blockSize > 0 /\ s.blockSize % Alignment = 0
  /\ s.direct => s.aligned
  /\ {s.read, s.write, s.metadata} # {NoSection}
  /\ s.read # NoSection => ValidRead(s.read, redactedToo)
  /\ s.write # NoSection => ValidWrite(s.write)
  /\ s.metadata # NoSection => ValidMetadata(s.metadata)

-----------------------------------------------------------------------------
(* The master and the worker.                                              *)

(* create_job.  A manifest that cannot be read refuses the job too.        *)
Accepts(p) == Parses(p) /\ Valid(FromProto(p), FALSE) /\ p.fs \in FileSystems

HasConsistency(s) == IF s.read = NoSection THEN FALSE ELSE s.read.s3 # NoSection

(* extract_credentials.                                                    *)
Credentials(p) ==
  IF HasConsistency(p) THEN [accessKey |-> p.read.s3.accessKey, secretKey |-> p.read.s3.secretKey]
  ELSE NoSection

RedactedRead(r) == [r EXCEPT !.s3 = [@ EXCEPT !.accessKey = Redacted, !.secretKey = Redacted]]

(* What is stored: redact_in_place, and at least one worker.               *)
Stored(p) ==
  [p EXCEPT !.workers = IF @ <= 0 THEN 1 ELSE @,
            !.read    = IF HasConsistency(p) THEN RedactedRead(p.read) ELSE @]

(* parse_and_validate of the worker.                                       *)
Understands(p) == Parses(p) /\ Valid(FromProto(p), TRUE)
=============================================================================
