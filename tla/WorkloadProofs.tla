--------------------------- MODULE WorkloadProofs ---------------------------
(***************************************************************************)
(* Proofs about Workload: types, the truth of the report, and that no file *)
(* is lost or handled twice between the master and the tasks.              *)
(***************************************************************************)
EXTENDS Workload, SequenceTheorems, TLAPS

(* One lemma per case needs Next as a flat list of actions.                *)
FetchStep == \E r \in Fetching : Fetch(r)

TaskStep ==
  \/ \E r \in Runners, t \in Tasks : TaskTop(r, t)
  \/ \E r \in Fetching, t \in Tasks : TaskRecv(r, t)
  \/ \E t \in Tasks : \/ ReadFile(t) \/ AfterRead(t) \/ CompareFile(t) \/ StatFile(t)
                      \/ MetadataOp(t) \/ WriteFile(t)

OtherStep == RunPreflight \/ (\E r \in Runners : JoinTask(r)) \/ WorkloadOver \/ ReportResult \/ Around

(* Every step is a step of a fetcher, of a task, or of the rest.           *)
LEMMA StepCases == Next => FetchStep \/ TaskStep \/ OtherStep
BY DEF Next, Conclude, Perform, Operation, FetchStep, TaskStep, OtherStep, Fetching, Runners

(* What is common to all steps: the job stays, flags are only raised.      *)
LEMMA Kept ==
  TypeOK /\ [Next]_vars =>
    /\ job' = job /\ (abort => abort') /\ (cancelled => cancelled') /\ (deadline => deadline')
    /\ (unknown => unknown') /\ (told => told') /\ manifest' >= manifest
  <1> SUFFICES ASSUME TypeOK, [Next]_vars
               PROVE  /\ job' = job /\ (abort => abort') /\ (cancelled => cancelled')
                      /\ (deadline => deadline') /\ (unknown => unknown') /\ (told => told')
                      /\ manifest' >= manifest
    OBVIOUS
  <1>0. manifest \in Nat
    BY DEF TypeOK
  <1>1. CASE FetchStep
    <2> PICK r \in Fetching : Fetch(r)
      BY <1>1 DEF FetchStep, Fetch
    <2>1. CASE FetchFileBatch(r)
      <3>1. CASE ToldUnknown(r) \/ ToldCancelled(r) \/ CallFailed(r)
        <4>1. job' = job /\ deadline' = deadline /\ manifest' = manifest
          BY <2>1, <3>1 DEF FetchFileBatch, ToldUnknown, ToldCancelled, CallFailed
        <4>2. (abort => abort') /\ (cancelled => cancelled') /\ (unknown => unknown')
          BY <3>1 DEF ToldUnknown, ToldCancelled, CallFailed, flagVars
        <4>3. told => told'
          BY <2>1 DEF FetchFileBatch
        <4> QED
          BY <1>0, <4>1, <4>2, <4>3
      <3>2. CASE GivenFiles(r)
        <4>1. Batch \in Nat
          BY WorkloadAssumption
        <4>2. manifest' >= manifest
          BY <1>0, <3>2, <4>1 DEF GivenFiles
        <4> QED
          BY <2>1, <3>2, <4>2 DEF FetchFileBatch, GivenFiles, flagVars
      <3> QED
        BY <2>1, <3>1, <3>2 DEF FetchFileBatch
    <2>2. CASE FetcherTop(r) \/ BackoffEnds(r) \/ FetcherChecks(r) \/ FetcherSends(r)
      <3>1. UNCHANGED <<envVars, flagVars, manifest>>
        BY <2>2 DEF FetcherTop, BackoffEnds, FetcherChecks, FetcherSends
      <3> QED
        BY <1>0, <3>1 DEF envVars, flagVars
    <2> QED
      BY <2>1, <2>2 DEF Fetch
  <1>2. CASE TaskStep
    <2>1. UNCHANGED <<envVars, cancelled, unknown, manifest>> /\ (abort => abort')
      BY <1>2 DEF TaskStep, TaskTop, TaskRecv, ReadFile, AfterRead, CompareFile, StatFile,
       MetadataOp, WriteFile, Fails, flagVars
    <2> QED
      BY <1>0, <2>1 DEF envVars
  <1>3. CASE OtherStep
    <2>1. CASE RunPreflight \/ WorkloadOver \/ ReportResult
      <3>1. UNCHANGED <<envVars, flagVars, manifest>>
        BY <2>1, Zenon DEF RunPreflight, WorkloadOver, ReportResult
      <3> QED
        BY <1>0, <3>1 DEF envVars, flagVars
    <2>2. ASSUME NEW r \in Runners, JoinTask(r)
          PROVE  UNCHANGED <<envVars, cancelled, unknown, manifest>> /\ (abort => abort')
      BY <2>2, Zenon DEF JoinTask
    <2>3. CASE ProgressAnswered \/ ShutdownBridged
      <3>1. UNCHANGED <<job, deadline, manifest, abort>> /\ cancelled' = TRUE
        BY <2>3 DEF ProgressAnswered, ShutdownBridged, envVars
      <3>2. unknown => unknown'
        BY <2>3, Zenon DEF ProgressAnswered, ShutdownBridged
      <3>3. told => told'
        BY <2>3, Zenon DEF ProgressAnswered, ShutdownBridged, envVars
      <3> QED
        BY <1>0, <3>1, <3>2, <3>3
    <2>4. CASE DeadlinePasses \/ MasterEnds
      <3>1. UNCHANGED <<job, told, flagVars, manifest>> /\ (deadline => deadline')
        BY <2>4 DEF DeadlinePasses, MasterEnds
      <3> QED
        BY <1>0, <3>1 DEF flagVars
    <2>5. CASE \E r \in Runners : JoinTask(r)
      BY <1>0, <2>2, <2>5 DEF envVars
    <2> QED
      BY <1>3, <2>1, <2>3, <2>4, <2>5 DEF OtherStep, Around
  <1>4. CASE UNCHANGED vars
    BY <1>0, <1>4 DEF vars, flagVars
  <1> QED
    BY <1>1, <1>2, <1>3, <1>4, StepCases

-----------------------------------------------------------------------------
(* The type invariant.                                                     *)

LEMMA InitTypes == Init => TypeOK
  <1> SUFFICES ASSUME Init PROVE TypeOK
    OBVIOUS
  <1>1. N \in Nat /\ Capacity \in Nat /\ Batch \in Nat /\ NFiles \in Nat
    BY WorkloadAssumption
  <1>2. <<>> \in Seq(Files) /\ Len(<<>>) = 0
    OBVIOUS
  <1>3. 0 \in 0..NFiles /\ 0 \in 0..N /\ 0 \in Nat /\ 0 <= Batch /\ 0 <= Capacity
    BY <1>1
  <1>4. /\ job \in Jobs /\ main = "preflight" /\ master = "running" /\ manifest \in 0..NFiles
        /\ client \in BOOLEAN /\ abort \in BOOLEAN /\ cancelled \in BOOLEAN
        /\ unknown \in BOOLEAN /\ deadline \in BOOLEAN /\ told \in BOOLEAN
        /\ errors \in Seq(Files) /\ handled \in [Files -> Nat] /\ uncompared \subseteq Files
    BY <1>2, <1>3 DEF Init
  <1>5. /\ fetcher \in [Fetching -> {"top", "calling", "backoff", "checking", "sending", "ended"}]
        /\ batch \in [Fetching -> Seq(Files)] /\ more \in [Fetching -> BOOLEAN]
        /\ buffer \in [Fetching -> Seq(Files)]
    BY <1>2 DEF Init
  <1>6. \A r \in Fetching : /\ Len(batch[r]) <= Batch /\ Len(buffer[r]) <= Capacity
                            /\ fetcher[r] = "sending" => batch[r] # <<>>
    BY <1>2, <1>3 DEF Init
  <1>7. task \in [Runners -> [Tasks -> {"top", "recv", "op", "after", "compare", "ended", "failed"}]]
        /\ \A r \in Runners \ job.runners : \A t \in Tasks : task[r][t] = "top"
    BY DEF Init
  <1>8. /\ current \in [Runners -> [Tasks -> 0..NFiles]]
        /\ joined \in [Runners -> 0..N] /\ firstErr \in [Runners -> 0..N]
    BY <1>3 DEF Init
  <1> QED
    BY <1>4, <1>5, <1>6, <1>7, <1>8 DEF TypeOK

(* The types of a fetcher step: only the fetcher, its batch, the buffer,   *)
(* the flags and the manifest change.                                      *)
LEMMA FetchTypes == TypeOK /\ FetchStep => TypeOK'
  <1> SUFFICES ASSUME TypeOK, NEW r \in Fetching, Fetch(r) PROVE TypeOK'
    BY DEF FetchStep
  <1>0. N \in Nat /\ Capacity \in Nat /\ Batch \in Nat /\ NFiles \in Nat /\ manifest \in Nat
    BY WorkloadAssumption DEF TypeOK
  <1>1. CASE FetcherTop(r)
    BY <1>1 DEF TypeOK, FetcherTop, envVars, flagVars, taskVars, joinVars, historyVars
  <1>2. CASE FetchFileBatch(r)
    <2>1. UNCHANGED <<job, deadline, master, client, main, buffer, taskVars, joinVars, errors,
                      result, historyVars>> /\ told' \in BOOLEAN
      BY <1>2 DEF FetchFileBatch, TypeOK
    <2>2. CASE ToldUnknown(r)
      BY <2>1, <2>2 DEF TypeOK, ToldUnknown, taskVars, joinVars, historyVars
    <2>3. CASE ToldCancelled(r)
      BY <2>1, <2>3 DEF TypeOK, ToldCancelled, taskVars, joinVars, historyVars
    <2>4. CASE GivenFiles(r)
      <3>1. PICK n \in 0..Batch :
              /\ manifest + n <= NFiles /\ manifest' = manifest + n
              /\ batch' = [batch EXCEPT ![r] = [i \in 1..n |-> manifest + i]]
              /\ \E b \in BOOLEAN : more' = [more EXCEPT ![r] = b]
        BY <2>4 DEF GivenFiles
      <3>2. [i \in 1..n |-> manifest + i] \in Seq(Files) /\ Len([i \in 1..n |-> manifest + i]) = n
        <4>1. n \in Nat /\ \A i \in 1..n : manifest + i \in Files
          BY <1>0, <3>1 DEF Files
        <4> QED
          BY <4>1
      <3>3. manifest' \in 0..NFiles /\ n <= Batch
        BY <1>0, <3>1
      <3>4. batch' \in [Fetching -> Seq(Files)] /\ \A q \in Fetching : Len(batch'[q]) <= Batch
        BY <3>1, <3>2, <3>3 DEF TypeOK
      <3>5. fetcher' = [fetcher EXCEPT ![r] = "checking"] /\ UNCHANGED flagVars
        BY <2>4 DEF GivenFiles
      <3>6. \A q \in Fetching : fetcher'[q] = "sending" => batch'[q] # <<>>
        BY <3>1, <3>5 DEF TypeOK
      <3>7. more' \in [Fetching -> BOOLEAN]
        BY <3>1 DEF TypeOK
      <3> QED
        BY <2>1, <3>3, <3>4, <3>5, <3>6, <3>7
           DEF TypeOK, taskVars, joinVars, historyVars, flagVars
    <2>5. CASE CallFailed(r)
      BY <2>1, <2>5 DEF TypeOK, CallFailed, taskVars, joinVars, historyVars, flagVars
    <2> QED
      BY <1>2, <2>2, <2>3, <2>4, <2>5 DEF FetchFileBatch
  <1>3. CASE BackoffEnds(r)
    BY <1>3 DEF TypeOK, BackoffEnds, envVars, flagVars, taskVars, joinVars, historyVars
  <1>4. CASE FetcherChecks(r)
    BY <1>4 DEF TypeOK, FetcherChecks, envVars, flagVars, taskVars, joinVars, historyVars
  <1>5. CASE FetcherSends(r)
    <2>1. UNCHANGED <<envVars, client, main, flagVars, manifest, more, taskVars, joinVars, errors,
                      result, historyVars>> /\ fetcher[r] = "sending"
      BY <1>5 DEF FetcherSends
    <2>2. CASE ~ReceiversGone(r)
      <3>1. /\ Len(buffer[r]) < Capacity
            /\ buffer' = [buffer EXCEPT ![r] = Append(@, Head(batch[r]))]
            /\ batch' = [batch EXCEPT ![r] = Tail(@)]
            /\ fetcher' = [fetcher EXCEPT ![r] = "checking"]
        BY <1>5, <2>2 DEF FetcherSends
      <3>2. batch[r] \in Seq(Files) /\ buffer[r] \in Seq(Files) /\ batch[r] # <<>>
            /\ Len(batch[r]) <= Batch
        BY <2>1 DEF TypeOK
      <3>3. Tail(batch[r]) \in Seq(Files) /\ Len(Tail(batch[r])) <= Batch
        BY <1>0, <3>2
      <3>4. Append(buffer[r], Head(batch[r])) \in Seq(Files)
            /\ Len(Append(buffer[r], Head(batch[r]))) <= Capacity
        BY <1>0, <3>1, <3>2
      <3>5. batch' \in [Fetching -> Seq(Files)] /\ buffer' \in [Fetching -> Seq(Files)]
        BY <3>1, <3>3, <3>4 DEF TypeOK
      <3>6. \A q \in Fetching : /\ Len(batch'[q]) <= Batch /\ Len(buffer'[q]) <= Capacity
                                /\ fetcher'[q] = "sending" => batch'[q] # <<>>
        BY <3>1, <3>3, <3>4 DEF TypeOK
      <3>7. fetcher' \in [Fetching -> {"top", "calling", "backoff", "checking", "sending", "ended"}]
        BY <3>1 DEF TypeOK
      <3> QED
        BY <2>1, <3>5, <3>6, <3>7
           DEF TypeOK, envVars, flagVars, taskVars, joinVars, historyVars
    <2>3. CASE ReceiversGone(r)
      <3>1. fetcher' = [fetcher EXCEPT ![r] = "ended"] /\ UNCHANGED <<buffer, batch>>
        BY <1>5, <2>3 DEF FetcherSends
      <3> QED
        BY <2>1, <3>1 DEF TypeOK, envVars, flagVars, taskVars, joinVars, historyVars
    <2> QED
      BY <2>2, <2>3
  <1> QED
    BY <1>1, <1>2, <1>3, <1>4, <1>5 DEF Fetch

(* A step of a task.  Moves says that it goes from one place to another.   *)
Moves(r, t, from, to) == task[r][t] = from /\ GoesTo(r, t, to)

Places == {"top", "recv", "op", "after", "compare", "ended", "failed"}

LEMMA TaskMoves ==
  ASSUME TypeOK, NEW r \in Runners, NEW t \in Tasks, NEW where \in Places, GoesTo(r, t, where),
         job' = job, r \in job.runners
  PROVE  /\ task' \in [Runners -> [Tasks -> Places]]
         /\ \A q \in Runners \ job'.runners : \A u \in Tasks : task'[q][u] = "top"
         /\ \A q \in Runners, u \in Tasks :
              task'[q][u] = IF q = r /\ u = t THEN where ELSE task[q][u]
  <1>1. task \in [Runners -> [Tasks -> Places]]
    BY DEF TypeOK, Places
  <1>2. [task[r] EXCEPT ![t] = where] \in [Tasks -> Places]
    BY <1>1
  <1>3. task' = [task EXCEPT ![r] = [task[r] EXCEPT ![t] = where]]
    BY <1>1 DEF GoesTo
  <1>4. \A q \in Runners, u \in Tasks :
          task'[q][u] = IF q = r /\ u = t THEN where ELSE task[q][u]
    BY <1>1, <1>3
  <1> QED
    BY <1>1, <1>2, <1>3, <1>4 DEF TypeOK

HeldAreFiles == \A r \in Fetching, t \in Tasks : Holds(r, t) => current[r][t] \in Files

LEMMA TaskTypes == TypeOK /\ HeldAreFiles /\ TaskStep => TypeOK'
  <1> SUFFICES ASSUME TypeOK, HeldAreFiles, TaskStep PROVE TypeOK'
    OBVIOUS
  <1> USE DEF Fetching, Runners
  <1>0. N \in Nat /\ Capacity \in Nat /\ NFiles \in Nat /\ 0 \in 0..NFiles
    BY WorkloadAssumption
  <1>1. ASSUME NEW r \in Runners, NEW t \in Tasks, TaskTop(r, t) PROVE TypeOK'
    <2>1. PICK where \in Places : GoesTo(r, t, where)
      BY <1>1 DEF TaskTop, Places
    <2>2. job' = job /\ r \in job.runners /\ current' = [current EXCEPT ![r][t] = 0]
          /\ UNCHANGED <<deadline, master, told, client, main, flagVars, manifest, fetcherVars, buffer, joinVars,
                 errors, result, historyVars>>
      BY <1>1 DEF TaskTop, Active, envVars
    <2>3. current' \in [Runners -> [Tasks -> 0..NFiles]]
      BY <1>0, <2>2 DEF TypeOK
    <2>4. /\ task' \in [Runners -> [Tasks -> Places]]
          /\ \A q \in Runners \ job'.runners : \A u \in Tasks : task'[q][u] = "top"
      BY <2>1, <2>2, TaskMoves
    <2> QED
      BY <2>2, <2>3, <2>4, ZenonT(60) DEF TypeOK, Places, flagVars, fetcherVars, joinVars, historyVars
  <1>2. ASSUME NEW r \in Fetching, NEW t \in Tasks, TaskRecv(r, t) PROVE TypeOK'
    <2>1. PICK where \in Places : GoesTo(r, t, where)
      BY <1>2 DEF TaskRecv, Places
    <2>2. job' = job /\ r \in job.runners
          /\ UNCHANGED <<deadline, master, told, client, main, flagVars, manifest, fetcherVars,
                         joinVars, errors, result, historyVars>>
      BY <1>2 DEF TaskRecv, Active, envVars
    <2>3. /\ task' \in [Runners -> [Tasks -> Places]]
          /\ \A q \in Runners \ job'.runners : \A u \in Tasks : task'[q][u] = "top"
      BY <2>1, <2>2, TaskMoves
    <2>4. /\ current' \in [Runners -> [Tasks -> 0..NFiles]] /\ buffer' \in [Fetching -> Seq(Files)]
          /\ \A q \in Fetching : Len(buffer'[q]) <= Capacity
      <3>1. CASE buffer[r] # <<>>
        <4>1. /\ current' = [current EXCEPT ![r][t] = Head(buffer[r])]
              /\ buffer' = [buffer EXCEPT ![r] = Tail(@)]
          BY <1>2, <3>1 DEF TaskRecv
        <4>2. buffer[r] \in Seq(Files) /\ Len(buffer[r]) <= Capacity
          BY DEF TypeOK
        <4>3. /\ Head(buffer[r]) \in 0..NFiles /\ Tail(buffer[r]) \in Seq(Files)
              /\ Len(Tail(buffer[r])) <= Capacity
          <5>1. Head(buffer[r]) \in Files
            BY <3>1, <4>2
          <5>2. Tail(buffer[r]) \in Seq(Files) /\ Len(Tail(buffer[r])) <= Capacity
            BY <1>0, <3>1, <4>2
          <5> QED
            BY <1>0, <5>1, <5>2 DEF Files
        <4>4. current' \in [Runners -> [Tasks -> 0..NFiles]]
          BY <4>1, <4>3 DEF TypeOK
        <4> QED
          BY <4>1, <4>3, <4>4 DEF TypeOK
      <3>2. CASE buffer[r] = <<>>
        BY <1>2, <3>2 DEF TaskRecv, TypeOK
      <3> QED
        BY <3>1, <3>2
    <2> QED
      BY <2>2, <2>3, <2>4, ZenonT(60) DEF TypeOK, Places, flagVars, fetcherVars, joinVars, historyVars
  <1>3. ASSUME NEW t \in Tasks,
               ReadFile(t) \/ AfterRead(t) \/ CompareFile(t) \/ StatFile(t) \/ MetadataOp(t) \/ WriteFile(t)
        PROVE  TypeOK'
    <2>1. PICK r \in Runners, where \in Places : GoesTo(r, t, where) /\ r \in job.runners
      BY <1>3 DEF ReadFile, AfterRead, CompareFile, StatFile, MetadataOp, WriteFile, Places, Fails, Active
    <2>2. UNCHANGED <<envVars, client, main, cancelled, unknown, manifest, fetcherVars, buffer,
                      current, joinVars, result>>
      BY <1>3 DEF ReadFile, AfterRead, CompareFile, StatFile, MetadataOp, WriteFile, flagVars
    <2>3. abort' \in BOOLEAN
      <3>1. abort' = abort \/ abort' = TRUE
        BY <1>3 DEF ReadFile, AfterRead, CompareFile, StatFile, MetadataOp, WriteFile, Fails, flagVars
      <3> QED
        BY <3>1 DEF TypeOK
    <2>4. /\ task' \in [Runners -> [Tasks -> Places]]
          /\ \A q \in Runners \ job'.runners : \A u \in Tasks : task'[q][u] = "top"
      BY <2>1, <2>2, TaskMoves DEF envVars
    <2>5. handled' = handled \/ \E f : handled' = [handled EXCEPT ![f] = @ + 1]
      BY <1>3 DEF ReadFile, AfterRead, CompareFile, StatFile, MetadataOp, WriteFile, Handle, historyVars
    <2>6. handled' \in [Files -> Nat]
      <3>1. handled \in [Files -> Nat]
        BY DEF TypeOK
      <3>2. CASE \E f : handled' = [handled EXCEPT ![f] = @ + 1]
        <4> PICK f : handled' = [handled EXCEPT ![f] = @ + 1]
          BY <3>2
        <4>1. CASE f \in Files
          BY <3>1, <4>1
        <4>2. CASE f \notin Files
          BY <3>1, <4>2
        <4> QED
          BY <4>1, <4>2
      <3> QED
        BY <2>5, <3>1, <3>2
    <2>7. /\ errors' = errors \/ \E f \in Files : errors' = <<f>>
          /\ uncompared' = uncompared \/ \E f \in Files : uncompared' = uncompared \cup {f}
      <3>1. CASE AfterRead(t)
        <4>1. current["read"][t] \in Files
          BY <3>1 DEF AfterRead, HeldAreFiles, Holds
        <4> QED
          BY <3>1, <4>1 DEF AfterRead, historyVars
      <3>2. CASE CompareFile(t)
        <4>1. current["read"][t] \in Files
          BY <3>2 DEF CompareFile, HeldAreFiles, Holds
        <4> QED
          BY <3>2, <4>1 DEF CompareFile, Record
      <3> QED
        BY <1>3, <3>1, <3>2 DEF ReadFile, StatFile, MetadataOp, WriteFile, historyVars
    <2>8. errors' \in Seq(Files) /\ uncompared' \subseteq Files
      <3>1. \A f \in Files : <<f>> \in Seq(Files)
        OBVIOUS
      <3>2. errors \in Seq(Files) /\ uncompared \subseteq Files
        BY DEF TypeOK
      <3>3. errors' \in Seq(Files)
        BY <2>7, <3>1, <3>2
      <3>4. uncompared' \subseteq Files
        BY <2>7, <3>2
      <3> QED
        BY <3>3, <3>4
    <2> QED
      BY <2>2, <2>3, <2>4, <2>6, <2>8 DEF TypeOK, Places, envVars, fetcherVars, joinVars
  <1> QED
    BY <1>1, <1>2, <1>3 DEF TaskStep

(* The rest changes flags, what is joined, and where the workload is.      *)
LEMMA OtherTypes == TypeOK /\ OtherStep => TypeOK'
  <1> SUFFICES ASSUME TypeOK, OtherStep PROVE TypeOK'
    OBVIOUS
  <1>1. CASE RunPreflight
    <2>1. client' \in BOOLEAN
      BY <1>1 DEF RunPreflight, ClientMade, TypeOK
    <2>2. main' \in {"running", "refused"}
      BY <1>1 DEF RunPreflight
    <2> QED
      BY <1>1, <2>1, <2>2
         DEF RunPreflight, TypeOK, envVars, flagVars, fetcherVars, taskVars, joinVars, historyVars
  <1>2. ASSUME NEW r \in Runners, JoinTask(r) PROVE TypeOK'
    <2>1. N \in Nat /\ joined[r] \in 0..N /\ firstErr[r] \in 0..N /\ joined[r] < N
      BY <1>2, WorkloadAssumption DEF TypeOK, JoinTask
    <2> DEFINE t == joined[r] + 1
    <2>2. t \in 0..N /\ ErrOf(r, t) \in 0..N
      BY <2>1 DEF ErrOf
    <2>3. joined' = [joined EXCEPT ![r] = t] /\ firstErr' = [firstErr EXCEPT ![r] = ErrOf(r, t)]
          /\ abort' \in BOOLEAN
      BY <1>2 DEF JoinTask
    <2>4. joined' \in [Runners -> 0..N] /\ firstErr' \in [Runners -> 0..N]
      BY <2>2, <2>3 DEF TypeOK
    <2>5. UNCHANGED <<envVars, client, main, cancelled, unknown, manifest, fetcherVars, buffer,
                      taskVars, errors, result, historyVars>>
      BY <1>2 DEF JoinTask
    <2> QED
      BY <2>3, <2>4, <2>5 DEF TypeOK, envVars, fetcherVars, taskVars, historyVars
  <1>3. CASE WorkloadOver \/ ReportResult
    <2>1. main' \in {"left", "reporting", "reported"}
          /\ UNCHANGED <<envVars, client, flagVars, manifest, fetcherVars, buffer, taskVars,
                         joinVars, errors, historyVars>>
      BY <1>3 DEF WorkloadOver, ReportResult
    <2> QED
      BY <2>1 DEF TypeOK, envVars, flagVars, fetcherVars, taskVars, joinVars, historyVars
  <1>4. CASE Around
    <2>1. /\ cancelled' \in BOOLEAN /\ unknown' \in BOOLEAN /\ deadline' \in BOOLEAN
          /\ told' \in BOOLEAN /\ master' \in {"running", "cancelled", "gone"}
      BY <1>4 DEF Around, ProgressAnswered, ShutdownBridged, DeadlinePasses, MasterEnds, TypeOK,
         envVars, flagVars
    <2>2. UNCHANGED <<job, client, main, abort, manifest, fetcherVars, buffer, taskVars, joinVars,
                      errors, historyVars>>
      BY <1>4 DEF Around, ProgressAnswered, ShutdownBridged, DeadlinePasses, MasterEnds, envVars, flagVars
    <2> QED
      BY <2>1, <2>2 DEF TypeOK, fetcherVars, taskVars, joinVars, historyVars
  <1> QED
    BY <1>1, <1>2, <1>3, <1>4 DEF OtherStep

LEMMA NextTypes == TypeOK /\ HeldAreFiles /\ [Next]_vars => TypeOK'
  <1> SUFFICES ASSUME TypeOK, HeldAreFiles, [Next]_vars PROVE TypeOK'
    OBVIOUS
  <1>1. CASE UNCHANGED vars
    BY <1>1 DEF TypeOK, vars, flagVars, fetcherVars, taskVars, joinVars, historyVars
  <1> QED
    BY <1>1, StepCases, FetchTypes, TaskTypes, OtherTypes

-----------------------------------------------------------------------------
(* The report.                                                             *)

(* A failure outside the metadata runner raises abort at once, joining     *)
(* finds the others; a workload that is over has joined everything.        *)
FailuresSeen ==
  /\ \A r \in Runners \ {"metadata"}, t \in Tasks : task[r][t] = "failed" => abort
  /\ \A r \in Runners : \A t \in 1..joined[r] : Gone(r, t)
  /\ \A r \in Runners : firstErr[r] # 0 <=> \E t \in 1..joined[r] : task[r][t] = "failed"
  /\ main \in {"reporting", "reported", "left"} => \A r \in job.runners : RunnerOver(r)

(* One difference at most is recorded, by a task that fails with it, and   *)
(* the result says what is recorded.                                       *)
ErrorsMean ==
  /\ Len(errors) <= 1
  /\ errors # <<>> => "read" \in job.runners /\ \E t \in Tasks : task["read"][t] = "failed"
  /\ main = "reported" => /\ result.success <=> SomeErr = {}
                          /\ result.mismatch <=> errors # <<>>

UnknownMeans == (told => unknown) /\ (main \in {"reporting", "reported"} => ~unknown)

ClientMeans ==
  /\ main \notin {"preflight", "refused"} => client = ClientMade
  /\ main \in {"preflight", "refused"} \/ ClientMade => uncompared = {}

ReportInv == FailuresSeen /\ ErrorsMean /\ UnknownMeans /\ ClientMeans

(* Outside the workload everything that it works on stays.                 *)
LEMMA Frozen ==
  [Next]_vars /\ main # "running" =>
    UNCHANGED <<flagVars, deadline, told, manifest, fetcherVars, buffer, taskVars, joinVars, errors,
                historyVars>>
  <1> SUFFICES ASSUME [Next]_vars, main # "running"
               PROVE  UNCHANGED <<flagVars, deadline, told, manifest, fetcherVars, buffer, taskVars,
                                  joinVars, errors, historyVars>>
    OBVIOUS
  <1>1. CASE FetchStep
    BY <1>1 DEF FetchStep, Fetch, Active, FetcherTop, FetchFileBatch, BackoffEnds, FetcherChecks,
       FetcherSends
  <1>2. CASE TaskStep
    BY <1>2 DEF TaskStep, Active, TaskTop, TaskRecv, ReadFile, AfterRead, CompareFile, StatFile,
       MetadataOp, WriteFile
  <1>3. CASE OtherStep
    BY <1>3 DEF OtherStep, Active, RunPreflight, JoinTask, WorkloadOver, ReportResult, Around,
       ProgressAnswered, ShutdownBridged, DeadlinePasses, MasterEnds, envVars
  <1>4. CASE UNCHANGED vars
    BY <1>4 DEF vars
  <1> QED
    BY <1>1, <1>2, <1>3, <1>4, StepCases

(* The tasks in a step: at most one moves, one that is gone never does,    *)
(* and a step that is not one of the tasks moves none.                     *)
LEMMA FetchLeavesTasks ==
  FetchStep => UNCHANGED <<job, main, client, deadline, taskVars, joinVars, errors, result, historyVars>>
BY DEF FetchStep, Fetch, FetcherTop, FetchFileBatch, BackoffEnds, FetcherChecks, FetcherSends, envVars

LEMMA OtherLeavesTasks ==
  OtherStep => UNCHANGED <<job, manifest, fetcherVars, buffer, taskVars, errors, historyVars>>
BY DEF OtherStep, RunPreflight, JoinTask, WorkloadOver, ReportResult, Around, ProgressAnswered,
   ShutdownBridged, DeadlinePasses, MasterEnds, envVars

LEMMA TaskStepMoves ==
  TypeOK /\ TaskStep =>
    /\ UNCHANGED <<envVars, client, main, cancelled, unknown, manifest, fetcherVars, joinVars, result>>
    /\ \A r \in Runners, t \in Tasks : Gone(r, t) => task'[r][t] = task[r][t]
    /\ \A r \in Runners \ {"metadata"}, t \in Tasks :
         task'[r][t] = "failed" => task[r][t] = "failed" \/ abort'
  <1> SUFFICES ASSUME TypeOK, TaskStep
               PROVE  /\ UNCHANGED <<envVars, client, main, cancelled, unknown, manifest,
                                     fetcherVars, joinVars, result>>
                      /\ \A r \in Runners, t \in Tasks : Gone(r, t) => task'[r][t] = task[r][t]
                      /\ \A r \in Runners \ {"metadata"}, t \in Tasks :
                           task'[r][t] = "failed" => task[r][t] = "failed" \/ abort'
    OBVIOUS
  <1>1. UNCHANGED <<envVars, client, main, cancelled, unknown, manifest, fetcherVars, joinVars, result>>
    BY DEF TaskStep, TaskTop, TaskRecv, ReadFile, AfterRead, CompareFile, StatFile, MetadataOp,
       WriteFile, flagVars
  <1>2. PICK r \in Runners, t \in Tasks, where \in Places :
          /\ GoesTo(r, t, where) /\ r \in job.runners /\ ~Gone(r, t)
          /\ where = "failed" /\ r # "metadata" => abort'
    BY DEF TaskStep, TaskTop, TaskRecv, ReadFile, AfterRead, CompareFile, StatFile, MetadataOp,
       WriteFile, Fails, Gone, Active, Places, Runners, Fetching
  <1>3. \A q \in Runners, u \in Tasks :
          task'[q][u] = IF q = r /\ u = t THEN where ELSE task[q][u]
    BY <1>1, <1>2, TaskMoves DEF envVars
  <1> QED
    BY <1>1, <1>2, <1>3

(* In any step, one that is gone stays where it is.                        *)
LEMMA GoneStay ==
  TypeOK /\ [Next]_vars =>
    /\ \A r \in Runners, t \in Tasks : Gone(r, t) => task'[r][t] = task[r][t]
    /\ \A r \in Runners \ {"metadata"}, t \in Tasks :
         task'[r][t] = "failed" => task[r][t] = "failed" \/ abort'
  <1> SUFFICES ASSUME TypeOK, [Next]_vars
               PROVE  /\ \A r \in Runners, t \in Tasks : Gone(r, t) => task'[r][t] = task[r][t]
                      /\ \A r \in Runners \ {"metadata"}, t \in Tasks :
                           task'[r][t] = "failed" => task[r][t] = "failed" \/ abort'
    OBVIOUS
  <1>1. CASE TaskStep
    BY <1>1, TaskStepMoves
  <1>2. CASE task' = task
    BY <1>2
  <1>3. FetchStep \/ OtherStep \/ UNCHANGED vars => task' = task
    BY FetchLeavesTasks, OtherLeavesTasks DEF taskVars, vars
  <1> QED
    BY <1>1, <1>2, <1>3, StepCases

LEMMA JoinedTasks == TypeOK => \A r \in Runners : joined[r] \in Nat /\ 1..joined[r] \subseteq Tasks
  <1> SUFFICES ASSUME TypeOK, NEW r \in Runners PROVE joined[r] \in Nat /\ 1..joined[r] \subseteq Tasks
    OBVIOUS
  <1>1. N \in Nat /\ joined[r] \in 0..N
    BY WorkloadAssumption DEF TypeOK
  <1> QED
    BY <1>1 DEF Tasks

LEMMA FailuresSeenKept == TypeOK /\ FailuresSeen /\ [Next]_vars => FailuresSeen'
  <1> SUFFICES ASSUME TypeOK, FailuresSeen, [Next]_vars PROVE FailuresSeen'
    OBVIOUS
  <1>1. \A r \in Runners \ {"metadata"}, t \in Tasks : task'[r][t] = "failed" => abort'
    BY GoneStay, Kept DEF FailuresSeen
  <1>2. /\ \A r \in Runners : \A t \in 1..joined'[r] : Gone(r, t)'
        /\ \A r \in Runners : firstErr'[r] # 0 <=> \E t \in 1..joined'[r] : task'[r][t] = "failed"
    <2>1. CASE UNCHANGED joinVars
      <3>1. \A r \in Runners : \A t \in 1..joined[r] :
              Gone(r, t) /\ Gone(r, t)' /\ task'[r][t] = task[r][t]
        BY JoinedTasks, GoneStay DEF FailuresSeen, Gone
      <3>2. joined' = joined /\ firstErr' = firstErr
        BY <2>1 DEF joinVars
      <3>3. \A r \in Runners : \A t \in 1..joined'[r] : Gone(r, t)'
        BY <3>1, <3>2
      <3>4. \A r \in Runners : firstErr[r] # 0 <=> \E t \in 1..joined[r] : task[r][t] = "failed"
        BY DEF FailuresSeen
      <3>5. \A r \in Runners :
              (\E t \in 1..joined[r] : task[r][t] = "failed")
                <=> (\E t \in 1..joined[r] : task'[r][t] = "failed")
        BY <3>1
      <3> QED
        BY <3>2, <3>3, <3>4, <3>5
    <2>2. ASSUME NEW r \in Runners, JoinTask(r)
          PROVE  /\ \A q \in Runners : \A t \in 1..joined'[q] : Gone(q, t)'
                 /\ \A q \in Runners :
                      firstErr'[q] # 0 <=> \E t \in 1..joined'[q] : task'[q][t] = "failed"
      <3> DEFINE t == joined[r] + 1
      <3>1. /\ Gone(r, t) /\ joined' = [joined EXCEPT ![r] = t]
            /\ firstErr' = [firstErr EXCEPT ![r] = ErrOf(r, t)] /\ task' = task
        BY <2>2 DEF JoinTask, taskVars
      <3>2. joined[r] \in Nat /\ joined'[r] = t
            /\ \A q \in Runners : q # r => joined'[q] = joined[q] /\ firstErr'[q] = firstErr[q]
        BY <3>1, JoinedTasks DEF TypeOK
      <3>3. firstErr'[r] = ErrOf(r, t)
        BY <3>1 DEF TypeOK
      <3> HIDE DEF t
      <3>4. 1..t = 1..joined[r] \cup {t} /\ t # 0
        BY <3>2 DEF t
      <3>5. \A q \in Runners : \A u : Gone(q, u)' <=> Gone(q, u)
        BY <3>1 DEF Gone
      <3>6. \A q \in Runners : \A u \in 1..joined'[q] : Gone(q, u)'
        BY <3>1, <3>2, <3>4, <3>5 DEF FailuresSeen
      <3>7. ErrOf(r, t) # 0 <=> \E u \in 1..t : task[r][u] = "failed"
        BY <3>4 DEF ErrOf, FailuresSeen
      <3>8. \A q \in Runners :
              firstErr'[q] # 0 <=> \E u \in 1..joined'[q] : task'[q][u] = "failed"
        BY <3>1, <3>2, <3>3, <3>7 DEF FailuresSeen
      <3> QED
        BY <3>6, <3>8
    <2>3. UNCHANGED joinVars \/ \E r \in Runners : JoinTask(r)
      <3>1. FetchStep \/ TaskStep \/ UNCHANGED vars => UNCHANGED joinVars
        BY FetchLeavesTasks, TaskStepMoves DEF vars
      <3>2. RunPreflight \/ WorkloadOver \/ ReportResult \/ Around => UNCHANGED joinVars
        BY DEF RunPreflight, WorkloadOver, ReportResult, Around, ProgressAnswered, ShutdownBridged,
           DeadlinePasses, MasterEnds
      <3> QED
        BY <3>1, <3>2, StepCases DEF OtherStep
    <2> QED
      BY <2>1, <2>2, <2>3
  <1>3. main' \in {"reporting", "reported", "left"} => \A r \in job'.runners : RunnerOver(r)'
    <2> SUFFICES ASSUME main' \in {"reporting", "reported", "left"}
                 PROVE  \A r \in job'.runners : RunnerOver(r)'
      OBVIOUS
    <2>1. job' = job
      BY Kept
    <2>2. CASE main = "running"
      <3>1. WorkloadOver
        <4>1. FetchStep \/ TaskStep \/ UNCHANGED vars => main' = main
          BY FetchLeavesTasks, TaskStepMoves DEF vars
        <4>2. (\E r \in Runners : JoinTask(r)) \/ Around => main' = main
          BY DEF JoinTask, Around, ProgressAnswered, ShutdownBridged, DeadlinePasses, MasterEnds
        <4> QED
          BY <2>2, <4>1, <4>2, StepCases DEF OtherStep, RunPreflight, ReportResult
      <3> QED
        BY <2>1, <3>1 DEF WorkloadOver, RunnerOver, joinVars, fetcherVars
    <2>3. CASE main # "running"
      <3>1. main \in {"reporting", "reported", "left"}
        <4>1. FetchStep \/ TaskStep \/ UNCHANGED vars => main' = main
          BY FetchLeavesTasks, TaskStepMoves DEF vars
        <4>2. (\E r \in Runners : JoinTask(r)) \/ Around => main' = main
          BY DEF JoinTask, Around, ProgressAnswered, ShutdownBridged, DeadlinePasses, MasterEnds
        <4> QED
          BY <2>3, <4>1, <4>2, StepCases DEF OtherStep, RunPreflight, ReportResult, WorkloadOver
      <3>2. joined' = joined /\ fetcher' = fetcher
        BY <2>3, Frozen DEF joinVars, fetcherVars
      <3> QED
        BY <2>1, <3>1, <3>2 DEF FailuresSeen, RunnerOver
    <2> QED
      BY <2>2, <2>3
  <1> QED
    BY <1>1, <1>2, <1>3 DEF FailuresSeen

(* main, the client and the result change in three steps only.             *)
LEMMA MainSteps ==
  [Next]_vars =>
    UNCHANGED <<main, client, result>> \/ RunPreflight \/ WorkloadOver \/ ReportResult
  <1>1. FetchStep \/ UNCHANGED vars => UNCHANGED <<main, client, result>>
    BY FetchLeavesTasks DEF vars
  <1>2. TaskStep => UNCHANGED <<main, client, result>>
    BY DEF TaskStep, TaskTop, TaskRecv, ReadFile, AfterRead, CompareFile, StatFile, MetadataOp, WriteFile
  <1>3. (\E r \in Runners : JoinTask(r)) \/ Around => UNCHANGED <<main, client, result>>
    BY DEF JoinTask, Around, ProgressAnswered, ShutdownBridged, DeadlinePasses, MasterEnds
  <1> QED
    BY <1>1, <1>2, <1>3, StepCases DEF OtherStep

LEMMA ErrorsMeanKept == TypeOK /\ ErrorsMean /\ [Next]_vars => ErrorsMean'
  <1> SUFFICES ASSUME TypeOK, ErrorsMean, [Next]_vars PROVE ErrorsMean'
    OBVIOUS
  <1>0. job' = job /\ "read" \in Runners
    BY Kept DEF Runners
  <1>1. \A t \in Tasks : task["read"][t] = "failed" => task'["read"][t] = "failed"
    BY <1>0, GoneStay DEF Gone
  <1>2. /\ Len(errors') <= 1
        /\ errors' # <<>> => "read" \in job'.runners /\ \E t \in Tasks : task'["read"][t] = "failed"
    <2>1. CASE errors' = errors
      BY <1>0, <1>1, <2>1 DEF ErrorsMean
    <2>2. CASE errors' # errors
      <3>1. PICK t \in Tasks : CompareFile(t) /\ Record(t) /\ Fails("read", t)
        <4>1. FetchStep \/ OtherStep \/ UNCHANGED vars => errors' = errors
          BY FetchLeavesTasks, OtherLeavesTasks DEF vars
        <4> QED
          BY <2>2, <4>1, StepCases DEF TaskStep, TaskTop, TaskRecv, ReadFile, AfterRead, CompareFile,
             StatFile, MetadataOp, WriteFile
      <3>2. Len(errors') <= 1
        <4>1. Len(<<current["read"][t]>>) = 1
          OBVIOUS
        <4> QED
          BY <3>1, <4>1 DEF Record, ErrorsMean
      <3>3. "read" \in job.runners
        BY <3>1 DEF CompareFile, Active
      <3>4. task'["read"][t] = "failed"
        BY <1>0, <3>1, <3>3, TaskMoves DEF Fails, Places
      <3> QED
        BY <1>0, <3>2, <3>3, <3>4
    <2> QED
      BY <2>1, <2>2
  <1>3. main' = "reported" => /\ result'.success <=> SomeErr' = {}
                              /\ result'.mismatch <=> errors' # <<>>
    <2> SUFFICES ASSUME main' = "reported"
                 PROVE  /\ result'.success <=> SomeErr' = {}
                        /\ result'.mismatch <=> errors' # <<>>
      OBVIOUS
    <2>1. main # "running" /\ main' # "running" => SomeErr' = SomeErr /\ errors' = errors
      BY <1>0, Frozen DEF SomeErr, joinVars
    <2>2. CASE ReportResult
      BY <2>1, <2>2 DEF ReportResult
    <2>3. CASE ~ReportResult
      <3>1. UNCHANGED <<main, client, result>>
        BY <2>3, MainSteps DEF RunPreflight, WorkloadOver
      <3> QED
        BY <2>1, <3>1 DEF ErrorsMean
    <2> QED
      BY <2>2, <2>3
  <1> QED
    BY <1>2, <1>3 DEF ErrorsMean

LEMMA UnknownMeansKept == TypeOK /\ UnknownMeans /\ [Next]_vars => UnknownMeans'
  <1> SUFFICES ASSUME TypeOK, UnknownMeans, [Next]_vars PROVE UnknownMeans'
    OBVIOUS
  <1>1. told' => unknown'
    <2>1. CASE told
      BY <2>1, Kept DEF UnknownMeans
    <2>2. CASE told' /\ ~told
      <3>1. (\E r \in Fetching : FetchFileBatch(r)) \/ ProgressAnswered
        <4>1. TaskStep \/ UNCHANGED vars => told' = told
          BY TaskStepMoves DEF envVars, vars
        <4>2. \A r \in Fetching : FetcherTop(r) \/ BackoffEnds(r) \/ FetcherChecks(r) \/ FetcherSends(r)
                => told' = told
          BY DEF FetcherTop, BackoffEnds, FetcherChecks, FetcherSends, envVars
        <4>3. RunPreflight \/ (\E r \in Runners : JoinTask(r)) \/ WorkloadOver \/ ReportResult
                \/ ShutdownBridged \/ DeadlinePasses \/ MasterEnds => told' = told
          BY DEF RunPreflight, JoinTask, WorkloadOver, ReportResult, ShutdownBridged, DeadlinePasses,
             MasterEnds, envVars
        <4> QED
          BY <2>2, <4>1, <4>2, <4>3, StepCases DEF FetchStep, Fetch, OtherStep, Around
      <3>2. ASSUME NEW r \in Fetching, FetchFileBatch(r) PROVE unknown'
        <4>1. master = "gone" /\ fetcher'[r] = "ended"
          BY <2>2, <3>2 DEF FetchFileBatch
        <4>2. CallFailed(r) => fetcher'[r] = "backoff"
          BY DEF CallFailed, TypeOK
        <4> QED
          BY <3>2, <4>1, <4>2 DEF FetchFileBatch, ToldUnknown, ToldCancelled, GivenFiles
      <3> QED
        BY <2>2, <3>1, <3>2 DEF ProgressAnswered
    <2> QED
      BY <2>1, <2>2
  <1>2. main' \in {"reporting", "reported"} => ~unknown'
    <2>1. CASE main = "running"
      <3>1. main' \in {"reporting", "reported"} => WorkloadOver
        BY <2>1, MainSteps DEF RunPreflight, ReportResult
      <3> QED
        BY <3>1 DEF WorkloadOver, flagVars
    <2>2. CASE main # "running"
      <3>1. unknown' = unknown
        BY <2>2, Frozen DEF flagVars
      <3>2. main' \in {"reporting", "reported"} => main \in {"reporting", "reported"}
        BY <2>2, MainSteps DEF RunPreflight, WorkloadOver, ReportResult
      <3> QED
        BY <3>1, <3>2 DEF UnknownMeans
    <2> QED
      BY <2>1, <2>2
  <1> QED
    BY <1>1, <1>2 DEF UnknownMeans

LEMMA ClientMeansKept == TypeOK /\ ClientMeans /\ [Next]_vars => ClientMeans'
  <1> SUFFICES ASSUME TypeOK, ClientMeans, [Next]_vars PROVE ClientMeans'
    OBVIOUS
  <1>0. ClientMade' = ClientMade
    BY Kept DEF ClientMade
  <1>1. main' \notin {"preflight", "refused"} => client' = ClientMade'
    BY <1>0, MainSteps DEF RunPreflight, WorkloadOver, ReportResult, ClientMeans
  <1>2. main' \in {"preflight", "refused"} => main \in {"preflight", "refused"}
    BY MainSteps DEF RunPreflight, WorkloadOver, ReportResult
  <1>3. main' \in {"preflight", "refused"} \/ ClientMade' => uncompared' = {}
    <2>1. CASE uncompared' = uncompared
      BY <1>0, <1>2, <2>1 DEF ClientMeans
    <2>2. CASE uncompared' # uncompared
      <3>1. PICK t \in Tasks : AfterRead(t) /\ ~client
        <4>1. FetchStep \/ OtherStep \/ UNCHANGED vars => uncompared' = uncompared
          BY FetchLeavesTasks, OtherLeavesTasks DEF vars, historyVars
        <4> QED
          BY <2>2, <4>1, StepCases DEF TaskStep, TaskTop, TaskRecv, ReadFile, AfterRead, CompareFile,
             StatFile, MetadataOp, WriteFile, historyVars
      <3>2. main = "running" /\ main' = main
        BY <3>1 DEF AfterRead, Active
      <3> QED
        BY <1>0, <3>1, <3>2 DEF ClientMeans
    <2> QED
      BY <2>1, <2>2
  <1> QED
    BY <1>1, <1>3 DEF ClientMeans

LEMMA ReportKept == TypeOK /\ ReportInv /\ [Next]_vars => ReportInv'
BY FailuresSeenKept, ErrorsMeanKept, UnknownMeansKept, ClientMeansKept DEF ReportInv

LEMMA ReportInit == Init => ReportInv
  <1> SUFFICES ASSUME Init PROVE ReportInv
    OBVIOUS
  <1>1. Len(<<>>) = 0 /\ 1..0 = {}
    OBVIOUS
  <1>2. \A r \in Runners : joined[r] = 0 /\ firstErr[r] = 0 /\ \A t \in Tasks : task[r][t] = "top"
    BY DEF Init
  <1>3. FailuresSeen
    BY <1>1, <1>2 DEF FailuresSeen, Init
  <1>4. ErrorsMean /\ UnknownMeans /\ ClientMeans
    BY <1>1 DEF ErrorsMean, UnknownMeans, ClientMeans, Init
  <1> QED
    BY <1>3, <1>4 DEF ReportInv

LEMMA ReportInvMeans ==
  TypeOK /\ ReportInv => FailureReported /\ AbandonedIfUnknown /\ EveryReadCompared
  <1> SUFFICES ASSUME TypeOK, ReportInv PROVE FailureReported /\ AbandonedIfUnknown /\ EveryReadCompared
    OBVIOUS
  <1> USE DEF ReportInv
  <1>1. job.runners \subseteq Runners
    BY WorkloadAssumption DEF TypeOK
  <1>2. main = "reported" => (result.success <=> ~AnyFailed)
    <2> SUFFICES ASSUME main = "reported" PROVE result.success <=> ~AnyFailed
      OBVIOUS
    <2>1. \A r \in job.runners : joined[r] = N
      BY DEF FailuresSeen, RunnerOver
    <2>2. SomeErr = {} <=> ~AnyFailed
      BY <1>1, <2>1 DEF FailuresSeen, SomeErr, AnyFailed, Tasks
    <2> QED
      BY <2>2 DEF ErrorsMean
  <1>3. main = "reported" /\ result.mismatch => ~result.success
    BY <1>2 DEF ErrorsMean, AnyFailed
  <1>4. AbandonedIfUnknown /\ EveryReadCompared
    BY DEF UnknownMeans, ClientMeans, ClientMade, AbandonedIfUnknown, EveryReadCompared
  <1> QED
    BY <1>2, <1>3, <1>4 DEF FailureReported, ErrorsMean

-----------------------------------------------------------------------------
(* The files between the master and the tasks.                             *)

Waits(f, r, i) == i \in 1..Len(Line(r)) /\ Line(r)[i] = f

(* Every file that waits, or that a task has in hand, was handed out, has  *)
(* not been handled, and is in this one place only.                        *)
LineOK ==
  \A r \in Fetching : \A i \in 1..Len(Line(r)) : Line(r)[i] \in 1..manifest /\ handled[Line(r)[i]] = 0

LinesApart ==
  \A r, q \in Fetching : \A i \in 1..Len(Line(r)), k \in 1..Len(Line(q)) :
    Line(r)[i] = Line(q)[k] => r = q /\ i = k

HeldOK ==
  \A r \in Fetching, t \in Tasks : Holds(r, t) =>
    /\ current[r][t] \in 1..manifest /\ handled[current[r][t]] = 0
    /\ \A q \in Fetching : \A i \in 1..Len(Line(q)) : Line(q)[i] # current[r][t]

HeldApart ==
  \A r, q \in Fetching, t, u \in Tasks :
    Holds(r, t) /\ Holds(q, u) /\ current[r][t] = current[q][u] => r = q /\ t = u

HandledOK == \A f \in Files : handled[f] <= 1 /\ (f > manifest => handled[f] = 0)

(* Unless a flag is up, no file that was handed out is lost.               *)
Covered ==
  ~Stopped => \A f \in 1..manifest : \/ handled[f] = 1
                                     \/ \E r \in Fetching : \E i : Waits(f, r, i)
                                     \/ \E r \in Fetching, t \in Tasks : Holds(r, t) /\ current[r][t] = f

PlacesInv == LineOK /\ LinesApart /\ HeldOK /\ HeldApart /\ HandledOK /\ Covered

(* The four things that a step can do to the files: none of them moves,    *)
(* some are given to a fetcher, a task takes one, a task is done with one. *)
NoneMoves ==
  /\ \A r \in Fetching : Line(r)' = Line(r)
  /\ manifest' = manifest /\ handled' = handled
  /\ \A r \in Fetching, t \in Tasks :
       /\ Holds(r, t)' => Holds(r, t) /\ current'[r][t] = current[r][t]
       /\ Holds(r, t) => Holds(r, t)' \/ Stopped'

Given(r, n) ==
  /\ manifest' = manifest + n /\ manifest' <= NFiles /\ UNCHANGED <<handled, taskVars>>
  /\ UNCHANGED <<abort, cancelled>>
  /\ \A q \in Fetching \ {r} : Line(q)' = Line(q)
  /\ Len(Line(r)') = Len(Line(r)) + n
  /\ \A i \in 1..Len(Line(r)') :
       Line(r)'[i] = IF i <= Len(Line(r)) THEN Line(r)[i] ELSE manifest + (i - Len(Line(r)))

Others(r, t) ==
  \A q \in Fetching, u \in Tasks :
    q # r \/ u # t => (Holds(q, u)' <=> Holds(q, u)) /\ current'[q][u] = current[q][u]

Takes(r, t) ==
  /\ manifest' = manifest /\ handled' = handled /\ UNCHANGED <<abort, cancelled>>
  /\ \A q \in Fetching \ {r} : Line(q)' = Line(q)
  /\ Len(Line(r)) >= 1 /\ Len(Line(r)') = Len(Line(r)) - 1
  /\ \A i \in 1..Len(Line(r)') : Line(r)'[i] = Line(r)[i + 1]
  /\ ~Holds(r, t) /\ Holds(r, t)' /\ current'[r][t] = Line(r)[1]
  /\ Others(r, t)

IsDone(r, t) ==
  /\ manifest' = manifest /\ Handle(r, t) /\ UNCHANGED <<abort, cancelled>>
  /\ \A q \in Fetching : Line(q)' = Line(q)
  /\ Holds(r, t) /\ ~Holds(r, t)' /\ Others(r, t)

LEMMA NoneMovesKeeps ==
  ASSUME TypeOK, PlacesInv, NoneMoves, Stopped => Stopped'
  PROVE  PlacesInv'
  <1> USE DEF PlacesInv
  <1>1. LineOK' /\ LinesApart'
    BY DEF LineOK, LinesApart, NoneMoves
  <1>2. HeldOK' /\ HeldApart'
    BY DEF HeldOK, HeldApart, NoneMoves
  <1>3. HandledOK'
    BY DEF HandledOK, NoneMoves
  <1>4. Covered'
    BY DEF Covered, NoneMoves, Waits
  <1> QED
    BY <1>1, <1>2, <1>3, <1>4

LEMMA LineLength == TypeOK => \A r \in Fetching : Line(r) \in Seq(Files) /\ Len(Line(r)) \in Nat
  <1> SUFFICES ASSUME TypeOK, NEW r \in Fetching PROVE Line(r) \in Seq(Files) /\ Len(Line(r)) \in Nat
    OBVIOUS
  <1>1. buffer[r] \in Seq(Files) /\ batch[r] \in Seq(Files)
    BY DEF TypeOK
  <1>2. Line(r) \in Seq(Files)
    BY <1>1 DEF Line
  <1> QED
    BY <1>2

LEMMA GivenKeeps ==
  ASSUME TypeOK, PlacesInv, NEW r \in Fetching, NEW n \in Nat, Given(r, n), Stopped => Stopped'
  PROVE  PlacesInv'
  <1> USE DEF PlacesInv
  <1>0. manifest \in Nat /\ NFiles \in Nat /\ manifest' = manifest + n /\ manifest' <= NFiles
        /\ Len(Line(r)) \in Nat
    BY WorkloadAssumption, LineLength DEF TypeOK, Given
  <1>1. handled' = handled /\ current' = current /\ \A q, t : Holds(q, t)' <=> Holds(q, t)
    BY DEF Given, taskVars, Holds
  <1>2. \A q \in Fetching : \A i \in 1..Len(Line(q)') :
          \/ i \in 1..Len(Line(q)) /\ Line(q)'[i] = Line(q)[i]
          \/ q = r /\ i \in Nat /\ i > Len(Line(r)) /\ Line(q)'[i] = manifest + (i - Len(Line(r)))
             /\ Line(q)'[i] \in Files /\ Line(q)'[i] > manifest /\ Line(q)'[i] <= manifest'
    <2> TAKE q \in Fetching
    <2>1. CASE q # r
      BY <2>1 DEF Given
    <2>2. CASE q = r
      <3> TAKE i \in 1..Len(Line(q)')
      <3>1. Len(Line(r)') = Len(Line(r)) + n /\ i \in 1..Len(Line(r)')
        BY <2>2 DEF Given
      <3>2. CASE i <= Len(Line(r))
        <4>1. i \in 1..Len(Line(r))
          BY <1>0, <3>1, <3>2
        <4>2. Line(r)'[i] = Line(r)[i]
          BY <3>1, <3>2 DEF Given
        <4> QED
          BY <2>2, <4>1, <4>2
      <3>3. CASE ~(i <= Len(Line(r)))
        <4>1. Line(r)'[i] = manifest + (i - Len(Line(r)))
          BY <3>1, <3>3 DEF Given
        <4>2. i \in Nat /\ i > Len(Line(r)) /\ i - Len(Line(r)) \in 1..n
          BY <1>0, <3>1, <3>3
        <4>3. Line(r)'[i] \in Files /\ Line(r)'[i] > manifest /\ Line(r)'[i] <= manifest'
          BY <1>0, <4>1, <4>2 DEF Files
        <4> QED
          BY <2>2, <4>1, <4>2, <4>3
      <3> QED
        BY <3>2, <3>3
    <2> QED
      BY <2>1, <2>2
  <1>3. \A q \in Fetching : \A i \in 1..Len(Line(q)) : Line(q)[i] \in 1..manifest
    BY DEF LineOK
  <1>4. LineOK'
    <2> SUFFICES ASSUME NEW q \in Fetching, NEW i \in 1..Len(Line(q)')
                 PROVE  Line(q)'[i] \in 1..manifest' /\ handled'[Line(q)'[i]] = 0
      BY DEF LineOK
    <2>1. CASE i \in 1..Len(Line(q)) /\ Line(q)'[i] = Line(q)[i]
      BY <1>0, <1>1, <2>1 DEF LineOK
    <2>2. CASE Line(q)'[i] \in Files /\ Line(q)'[i] > manifest /\ Line(q)'[i] <= manifest'
      <3>1. handled[Line(q)'[i]] = 0
        BY <2>2 DEF HandledOK
      <3>2. Line(q)'[i] \in 1..manifest'
        BY <1>0, <2>2 DEF Files
      <3>3. handled' = handled
        BY <1>1
      <3> QED
        BY <3>1, <3>2, <3>3
    <2> QED
      BY <1>2, <2>1, <2>2
  <1>5. LinesApart'
    <2> SUFFICES ASSUME NEW p \in Fetching, NEW q \in Fetching,
                        NEW i \in 1..Len(Line(p)'), NEW k \in 1..Len(Line(q)'),
                        Line(p)'[i] = Line(q)'[k]
                 PROVE  p = q /\ i = k
      BY DEF LinesApart
    <2> DEFINE Old(x, j) == j \in 1..Len(Line(x)) /\ Line(x)'[j] = Line(x)[j]
               New(x, j) == x = r /\ j \in Nat /\ j > Len(Line(r))
                            /\ Line(x)'[j] = manifest + (j - Len(Line(r))) /\ Line(x)'[j] > manifest
    <2>1. (Old(p, i) \/ New(p, i)) /\ (Old(q, k) \/ New(q, k))
      BY <1>2
    <2>2. CASE Old(p, i) /\ Old(q, k)
      <3>1. i \in 1..Len(Line(p)) /\ k \in 1..Len(Line(q)) /\ Line(p)[i] = Line(q)[k]
        BY <2>2
      <3>2. \A a, b \in Fetching : \A j \in 1..Len(Line(a)), l \in 1..Len(Line(b)) :
              Line(a)[j] = Line(b)[l] => a = b /\ j = l
        BY DEF LinesApart
      <3> QED
        BY <3>1, <3>2
    <2>3. CASE New(p, i) /\ New(q, k)
      BY <1>0, <2>3
    <2>4. \A x \in Fetching : \A j : Old(x, j) => Line(x)'[j] <= manifest
      BY <1>0, <1>3
    <2>5. ~(Old(p, i) /\ New(q, k)) /\ ~(New(p, i) /\ Old(q, k))
      BY <1>0, <1>3
    <2> QED
      BY <2>1, <2>2, <2>3, <2>5
  <1>6. HeldOK'
    <2> SUFFICES ASSUME NEW p \in Fetching, NEW t \in Tasks, Holds(p, t)
                 PROVE  /\ current[p][t] \in 1..manifest' /\ handled[current[p][t]] = 0
                        /\ \A q \in Fetching : \A i \in 1..Len(Line(q)') : Line(q)'[i] # current[p][t]
      BY <1>1 DEF HeldOK
    <2>1. /\ current[p][t] \in 1..manifest /\ handled[current[p][t]] = 0
          /\ \A q \in Fetching : \A i \in 1..Len(Line(q)) : Line(q)[i] # current[p][t]
      BY DEF HeldOK
    <2>2. \A q \in Fetching : \A i \in 1..Len(Line(q)') : Line(q)'[i] # current[p][t]
      BY <1>0, <1>2, <2>1
    <2> QED
      BY <1>0, <2>1, <2>2
  <1>7. HeldApart'
    BY <1>1 DEF HeldApart
  <1>8. HandledOK'
    BY <1>0, <1>1 DEF HandledOK, Files
  <1>9. Covered'
    <2> SUFFICES ASSUME ~Stopped', NEW f \in 1..manifest'
                 PROVE  \/ handled[f] = 1
                        \/ \E q \in Fetching : \E i : Waits(f, q, i)'
                        \/ \E q \in Fetching, t \in Tasks : Holds(q, t) /\ current[q][t] = f
      BY <1>1 DEF Covered
    <2>0. \A q \in Fetching : \A i \in 1..Len(Line(q)) : i \in 1..Len(Line(q)') /\ Line(q)'[i] = Line(q)[i]
      <3> TAKE q \in Fetching
      <3>1. CASE q # r
        BY <3>1 DEF Given
      <3>2. CASE q = r
        <4> TAKE i \in 1..Len(Line(q))
        <4>1. i \in 1..Len(Line(q)') /\ i <= Len(Line(r))
          BY <1>0, <3>2 DEF Given
        <4> QED
          BY <3>2, <4>1 DEF Given
      <3> QED
        BY <3>1, <3>2
    <2>1. CASE f \in 1..manifest
      <3>1. \A q, i : q \in Fetching /\ Waits(f, q, i) => Waits(f, q, i)'
        BY <2>0 DEF Waits
      <3> QED
        BY <2>1, <3>1 DEF Covered
    <2>2. CASE f \notin 1..manifest
      <3>0. PICK i \in Int : i = Len(Line(r)) + (f - manifest)
        BY <1>0
      <3>1. Len(Line(r)') = Len(Line(r)) + n
        BY DEF Given
      <3>2. i \in 1..Len(Line(r)') /\ ~(i <= Len(Line(r))) /\ manifest + (i - Len(Line(r))) = f
        BY <1>0, <2>2, <3>0, <3>1
      <3>3. Line(r)'[i] = f
        BY <3>2 DEF Given
      <3>4. Waits(f, r, i)'
        BY <3>2, <3>3 DEF Waits
      <3> QED
        BY <3>4
    <2> QED
      BY <2>1, <2>2
  <1> QED
    BY <1>4, <1>5, <1>6, <1>7, <1>8, <1>9

LEMMA TakesKeeps ==
  ASSUME TypeOK, PlacesInv, NEW r \in Fetching, NEW t \in Tasks, Takes(r, t), Stopped => Stopped'
  PROVE  PlacesInv'
  <1> USE DEF PlacesInv
  <1>0. /\ manifest' = manifest /\ handled' = handled /\ manifest \in Nat
        /\ Len(Line(r)) \in Nat /\ 1 \in 1..Len(Line(r))
    BY LineLength DEF TypeOK, Takes
  <1>1. PICK back \in [Fetching -> {0, 1}] :
          /\ back[r] = 1 /\ \A q \in Fetching \ {r} : back[q] = 0
    <2> [q \in Fetching |-> IF q = r THEN 1 ELSE 0] \in [Fetching -> {0, 1}]
      OBVIOUS
    <2> QED
      OBVIOUS
  <1>2. \A q \in Fetching : \A i \in 1..Len(Line(q)') :
          /\ i + back[q] \in 1..Len(Line(q)) /\ Line(q)'[i] = Line(q)[i + back[q]]
          /\ q = r => i + back[q] # 1
    <2> TAKE q \in Fetching
    <2> TAKE i \in 1..Len(Line(q)')
    <2>1. CASE q # r
      BY <1>1, <2>1, LineLength DEF Takes
    <2>2. CASE q = r
      <3>1. Len(Line(r)') = Len(Line(r)) - 1 /\ i \in 1..Len(Line(r)')
        BY <2>2 DEF Takes
      <3>2. Line(r)'[i] = Line(r)[i + 1]
        BY <3>1 DEF Takes
      <3> QED
        BY <1>0, <1>1, <2>2, <3>1, <3>2
    <2> QED
      BY <2>1, <2>2
  <1>3. LineOK'
    <2> SUFFICES ASSUME NEW q \in Fetching, NEW i \in 1..Len(Line(q)')
                 PROVE  Line(q)'[i] \in 1..manifest /\ handled[Line(q)'[i]] = 0
      BY <1>0 DEF LineOK
    <2> QED
      BY <1>2 DEF LineOK
  <1>4. LinesApart'
    <2> SUFFICES ASSUME NEW p \in Fetching, NEW q \in Fetching,
                        NEW i \in 1..Len(Line(p)'), NEW k \in 1..Len(Line(q)'),
                        Line(p)'[i] = Line(q)'[k]
                 PROVE  p = q /\ i = k
      BY DEF LinesApart
    <2>1. /\ i + back[p] \in 1..Len(Line(p)) /\ k + back[q] \in 1..Len(Line(q))
          /\ Line(p)[i + back[p]] = Line(q)[k + back[q]]
      BY <1>2
    <2>2. \A a, b \in Fetching : \A j \in 1..Len(Line(a)), l \in 1..Len(Line(b)) :
            Line(a)[j] = Line(b)[l] => a = b /\ j = l
      BY DEF LinesApart
    <2>3. p = q /\ i + back[p] = k + back[q]
      BY <2>1, <2>2
    <2>4. back[p] \in {0, 1}
      BY <1>1
    <2> QED
      BY <2>3, <2>4
  <1>5. \A q \in Fetching, u \in Tasks : Holds(q, u)' =>
          \/ Holds(q, u) /\ current'[q][u] = current[q][u]
          \/ q = r /\ u = t /\ current'[q][u] = Line(r)[1]
    BY DEF Takes, Others
  <1>6. \A q \in Fetching : \A i \in 1..Len(Line(q)') : Line(q)'[i] # Line(r)[1]
    <2> SUFFICES ASSUME NEW q \in Fetching, NEW i \in 1..Len(Line(q)'), Line(q)'[i] = Line(r)[1]
                 PROVE  FALSE
      OBVIOUS
    <2>1. i + back[q] \in 1..Len(Line(q)) /\ Line(q)[i + back[q]] = Line(r)[1]
          /\ (q = r => i + back[q] # 1)
      BY <1>2
    <2>2. \A a, b \in Fetching : \A j \in 1..Len(Line(a)), l \in 1..Len(Line(b)) :
            Line(a)[j] = Line(b)[l] => a = b /\ j = l
      BY DEF LinesApart
    <2>3. q = r /\ i + back[q] = 1
      BY <1>0, <2>1, <2>2
    <2> QED
      BY <2>1, <2>3
  <1>7. HeldOK'
    <2> SUFFICES ASSUME NEW p \in Fetching, NEW u \in Tasks, Holds(p, u)'
                 PROVE  /\ current'[p][u] \in 1..manifest /\ handled[current'[p][u]] = 0
                        /\ \A q \in Fetching : \A i \in 1..Len(Line(q)') : Line(q)'[i] # current'[p][u]
      BY <1>0 DEF HeldOK
    <2>1. CASE Holds(p, u) /\ current'[p][u] = current[p][u]
      <3>1. /\ current[p][u] \in 1..manifest /\ handled[current[p][u]] = 0
            /\ \A q \in Fetching : \A i \in 1..Len(Line(q)) : Line(q)[i] # current[p][u]
        BY <2>1 DEF HeldOK
      <3>2. \A q \in Fetching : \A i \in 1..Len(Line(q)') : Line(q)'[i] # current[p][u]
        BY <1>2, <3>1
      <3> QED
        BY <2>1, <3>1, <3>2
    <2>2. CASE current'[p][u] = Line(r)[1]
      <3>1. Line(r)[1] \in 1..manifest /\ handled[Line(r)[1]] = 0
        BY <1>0 DEF LineOK
      <3> QED
        BY <1>6, <2>2, <3>1
    <2> QED
      BY <1>5, <2>1, <2>2
  <1>8. HeldApart'
    <2> SUFFICES ASSUME NEW p \in Fetching, NEW q \in Fetching, NEW u \in Tasks, NEW v \in Tasks,
                        Holds(p, u)', Holds(q, v)', current'[p][u] = current'[q][v]
                 PROVE  p = q /\ u = v
      BY DEF HeldApart
    <2>1. \A x \in Fetching, w \in Tasks : Holds(x, w) => current[x][w] # Line(r)[1]
      BY <1>0 DEF HeldOK
    <2> QED
      BY <1>5, <2>1 DEF HeldApart
  <1>9. HandledOK'
    BY <1>0 DEF HandledOK
  <1>10. Covered'
    <2> SUFFICES ASSUME ~Stopped', NEW f \in 1..manifest
                 PROVE  \/ handled[f] = 1
                        \/ \E q \in Fetching : \E i : Waits(f, q, i)'
                        \/ \E q \in Fetching, u \in Tasks : Holds(q, u)' /\ current'[q][u] = f
      BY <1>0 DEF Covered
    <2>1. CASE handled[f] = 1
      BY <2>1
    <2>2. CASE \E q \in Fetching, u \in Tasks : Holds(q, u) /\ current[q][u] = f
      BY <2>2 DEF Takes, Others
    <2>3. ASSUME NEW q \in Fetching, NEW i, Waits(f, q, i)
          PROVE  \/ \E p \in Fetching : \E j : Waits(f, p, j)'
                 \/ \E p \in Fetching, u \in Tasks : Holds(p, u)' /\ current'[p][u] = f
      <3>1. CASE q # r
        <4>1. Waits(f, q, i)'
          BY <2>3, <3>1 DEF Waits, Takes
        <4> QED
          BY <4>1
      <3>2. CASE q = r /\ i = 1
        BY <2>3, <3>2 DEF Waits, Takes
      <3>3. CASE q = r /\ i # 1
        <4>0. i \in 1..Len(Line(r)) /\ Line(r)[i] = f
          BY <2>3, <3>3 DEF Waits
        <4>1. PICK j \in Int : j = i - 1
          BY <4>0
        <4>2. j \in 1..Len(Line(r)') /\ j + 1 = i
          BY <1>0, <3>3, <4>0, <4>1 DEF Takes
        <4>3. Waits(f, r, j)'
          BY <4>0, <4>2 DEF Waits, Takes
        <4> QED
          BY <4>3
      <3> QED
        BY <3>1, <3>2, <3>3
    <2> QED
      BY <2>1, <2>2, <2>3 DEF Covered
  <1> QED
    BY <1>3, <1>4, <1>7, <1>8, <1>9, <1>10

LEMMA IsDoneKeeps ==
  ASSUME TypeOK, PlacesInv, NEW r \in Fetching, NEW t \in Tasks, IsDone(r, t), Stopped => Stopped'
  PROVE  PlacesInv'
  <1> USE DEF PlacesInv
  <1> DEFINE f == current[r][t]
  <1>0. /\ manifest' = manifest /\ manifest \in Nat /\ NFiles \in Nat /\ manifest <= NFiles
        /\ \A q \in Fetching : Line(q)' = Line(q)
    BY WorkloadAssumption DEF TypeOK, IsDone
  <1>1. /\ f \in 1..manifest /\ handled[f] = 0 /\ f \in Files
        /\ \A q \in Fetching : \A i \in 1..Len(Line(q)) : Line(q)[i] # f
    BY <1>0 DEF HeldOK, IsDone, Files
  <1>2. handled \in [Files -> Nat] /\ handled' = [handled EXCEPT ![f] = @ + 1]
    BY DEF TypeOK, IsDone, Handle
  <1>3. handled'[f] = 1 /\ \A g \in Files : g # f => handled'[g] = handled[g]
    BY <1>1, <1>2
  <1>4. \A q \in Fetching, u \in Tasks : Holds(q, u)' =>
          Holds(q, u) /\ current'[q][u] = current[q][u] /\ current[q][u] # f
    BY DEF IsDone, Others, HeldApart
  <1>5. 1..manifest \subseteq Files
    BY <1>0 DEF Files
  <1> HIDE DEF f
  <1>6. LineOK' /\ LinesApart'
    <2>1. \A q \in Fetching : \A i \in 1..Len(Line(q)) :
            Line(q)[i] \in 1..manifest /\ handled'[Line(q)[i]] = 0
      BY <1>1, <1>3, <1>5 DEF LineOK
    <2> QED
      BY <1>0, <2>1 DEF LineOK, LinesApart
  <1>7. HeldOK'
    <2> SUFFICES ASSUME NEW p \in Fetching, NEW u \in Tasks, Holds(p, u)'
                 PROVE  /\ current'[p][u] \in 1..manifest /\ handled'[current'[p][u]] = 0
                        /\ \A q \in Fetching : \A i \in 1..Len(Line(q)) : Line(q)[i] # current'[p][u]
      BY <1>0 DEF HeldOK
    <2>1. Holds(p, u) /\ current'[p][u] = current[p][u] /\ current[p][u] # f
      BY <1>4
    <2>2. /\ current[p][u] \in 1..manifest /\ handled[current[p][u]] = 0
          /\ \A q \in Fetching : \A i \in 1..Len(Line(q)) : Line(q)[i] # current[p][u]
      BY <2>1 DEF HeldOK
    <2> QED
      BY <1>3, <1>5, <2>1, <2>2
  <1>8. HeldApart'
    BY <1>4 DEF HeldApart
  <1>9. HandledOK'
    <2>1. f <= manifest
      BY <1>0, <1>1
    <2> QED
      BY <1>0, <1>3, <2>1 DEF HandledOK, Files
  <1>10. Covered'
    <2> SUFFICES ASSUME ~Stopped', NEW g \in 1..manifest
                 PROVE  \/ handled'[g] = 1
                        \/ \E q \in Fetching : \E i : Waits(g, q, i)'
                        \/ \E q \in Fetching, u \in Tasks : Holds(q, u)' /\ current'[q][u] = g
      BY <1>0 DEF Covered
    <2>1. CASE g = f
      BY <1>3, <2>1
    <2>2. CASE g # f
      <3>1. \A q \in Fetching : \A i : Waits(g, q, i) => Waits(g, q, i)'
        BY <1>0 DEF Waits
      <3>2. \A q \in Fetching, u \in Tasks : Holds(q, u) /\ current[q][u] = g =>
              Holds(q, u)' /\ current'[q][u] = g
        BY <2>2 DEF IsDone, Others, f
      <3>3. handled'[g] = handled[g]
        BY <1>3, <1>5, <2>2
      <3> QED
        BY <3>1, <3>2, <3>3 DEF Covered
    <2> QED
      BY <2>1, <2>2
  <1> QED
    BY <1>6, <1>7, <1>8, <1>9, <1>10

(* A fetcher that is about to call has nothing in hand.  Unless something  *)
(* stopped the workload, a fetcher ends with nothing in hand, and a task   *)
(* only when the fetcher has and the buffer is empty.                      *)
Drained ==
  \A r \in Fetching :
    /\ fetcher[r] \in {"top", "calling", "backoff"} => batch[r] = <<>>
    /\ ~Stopped /\ ~deadline =>
         /\ fetcher[r] = "ended" => batch[r] = <<>>
         /\ \A t \in Tasks : task[r][t] = "ended" => fetcher[r] = "ended" /\ buffer[r] = <<>>
    /\ r \notin job.runners => buffer[r] = <<>> /\ batch[r] = <<>>

FilesInv == PlacesInv /\ Drained

LEMMA StillFiles ==
  UNCHANGED <<buffer, batch, manifest, handled, taskVars>> => NoneMoves
BY DEF NoneMoves, Line, Holds, taskVars

(* Two facts about sequences: passing the head on to the end of another    *)
(* sequence, and taking the head away.                                     *)
LEMMA PassHead ==
  ASSUME NEW S, NEW b \in Seq(S), NEW c \in Seq(S), c # <<>>
  PROVE  Append(b, Head(c)) \o Tail(c) = b \o c
  <1> DEFINE d == Append(b, Head(c))
  <1>1. /\ Head(c) \in S /\ Tail(c) \in Seq(S) /\ Len(Tail(c)) = Len(c) - 1
        /\ \A i \in 1..Len(Tail(c)) : Tail(c)[i] = c[i + 1]
    BY HeadTailProperties
  <1>2. /\ d \in Seq(S) /\ Len(d) = Len(b) + 1 /\ d[Len(b) + 1] = Head(c)
        /\ \A i \in 1..Len(b) : d[i] = b[i]
    BY <1>1, AppendProperties
  <1>3. Head(c) = c[1] /\ Len(b) \in Nat /\ Len(c) \in Nat /\ Len(c) >= 1
    OBVIOUS
  <1> HIDE DEF d
  <1>4. /\ b \o c \in Seq(S) /\ Len(b \o c) = Len(b) + Len(c)
        /\ \A i \in 1..Len(b) + Len(c) : (b \o c)[i] = IF i <= Len(b) THEN b[i] ELSE c[i - Len(b)]
    BY ConcatProperties
  <1>5. /\ d \o Tail(c) \in Seq(S) /\ Len(d \o Tail(c)) = Len(d) + Len(Tail(c))
        /\ \A i \in 1..Len(d) + Len(Tail(c)) :
             (d \o Tail(c))[i] = IF i <= Len(d) THEN d[i] ELSE Tail(c)[i - Len(d)]
    BY <1>1, <1>2, ConcatProperties
  <1>6. Len(d \o Tail(c)) = Len(b \o c)
    BY <1>1, <1>2, <1>3, <1>4, <1>5
  <1>7. ASSUME NEW i \in 1..Len(d \o Tail(c)) PROVE (d \o Tail(c))[i] = (b \o c)[i]
    <2>0. i \in 1..Len(d) + Len(Tail(c)) /\ i \in 1..Len(b) + Len(c) /\ i \in Nat
      BY <1>1, <1>2, <1>3, <1>5
    <2>1. CASE i <= Len(b)
      BY <1>2, <1>3, <1>4, <1>5, <2>0, <2>1
    <2>2. CASE i = Len(b) + 1
      <3>1. (b \o c)[i] = c[i - Len(b)] /\ i - Len(b) = 1
        BY <1>3, <1>4, <2>0, <2>2
      <3>2. (d \o Tail(c))[i] = d[i]
        BY <1>2, <1>5, <2>0, <2>2
      <3> QED
        BY <1>2, <1>3, <2>2, <3>1, <3>2
    <2>3. CASE i > Len(b) + 1
      <3>1. (b \o c)[i] = c[i - Len(b)]
        BY <1>3, <1>4, <2>0, <2>3
      <3>2. (d \o Tail(c))[i] = Tail(c)[i - Len(d)]
        BY <1>2, <1>3, <1>5, <2>0, <2>3
      <3>3. i - Len(d) \in 1..Len(Tail(c)) /\ (i - Len(d)) + 1 = i - Len(b)
        BY <1>1, <1>2, <1>3, <2>0, <2>3
      <3> QED
        BY <1>1, <3>1, <3>2, <3>3
    <2> QED
      BY <1>3, <2>0, <2>1, <2>2, <2>3
  <1> QED
    BY <1>4, <1>5, <1>6, <1>7, SeqEqual DEF d

LEMMA TakeHead ==
  ASSUME NEW S, NEW b \in Seq(S), NEW c \in Seq(S), b # <<>>
  PROVE  /\ Len(b \o c) \in Nat /\ Len(b \o c) >= 1 /\ Len(Tail(b) \o c) = Len(b \o c) - 1
         /\ (b \o c)[1] = Head(b)
         /\ \A i \in 1..Len(Tail(b) \o c) : (Tail(b) \o c)[i] = (b \o c)[i + 1]
  <1>1. /\ Tail(b) \in Seq(S) /\ Len(Tail(b)) = Len(b) - 1
        /\ \A i \in 1..Len(Tail(b)) : Tail(b)[i] = b[i + 1]
    BY HeadTailProperties
  <1>2. Head(b) = b[1] /\ Len(b) \in Nat /\ Len(b) >= 1 /\ Len(c) \in Nat
    OBVIOUS
  <1>3. /\ Len(b \o c) = Len(b) + Len(c)
        /\ \A i \in 1..Len(b) + Len(c) : (b \o c)[i] = IF i <= Len(b) THEN b[i] ELSE c[i - Len(b)]
    BY ConcatProperties
  <1>4. /\ Len(Tail(b) \o c) = Len(Tail(b)) + Len(c)
        /\ \A i \in 1..Len(Tail(b)) + Len(c) :
             (Tail(b) \o c)[i] = IF i <= Len(Tail(b)) THEN Tail(b)[i] ELSE c[i - Len(Tail(b))]
    BY <1>1, ConcatProperties
  <1>5. Len(b \o c) \in Nat /\ Len(b \o c) >= 1 /\ Len(Tail(b) \o c) = Len(b \o c) - 1
    BY <1>1, <1>2, <1>3, <1>4
  <1>6. (b \o c)[1] = Head(b)
    <2>1. 1 \in 1..Len(b) + Len(c) /\ 1 <= Len(b)
      BY <1>2
    <2> QED
      BY <1>2, <1>3, <2>1
  <1>7. ASSUME NEW i \in 1..Len(Tail(b) \o c) PROVE (Tail(b) \o c)[i] = (b \o c)[i + 1]
    <2>0. i \in 1..Len(Tail(b)) + Len(c) /\ i + 1 \in 1..Len(b) + Len(c) /\ i \in Nat
      BY <1>1, <1>2, <1>4
    <2>1. CASE i <= Len(Tail(b))
      <3>1. (Tail(b) \o c)[i] = Tail(b)[i] /\ i \in 1..Len(Tail(b)) /\ i + 1 <= Len(b)
        BY <1>1, <1>2, <1>4, <2>0, <2>1
      <3> QED
        BY <1>1, <1>3, <2>0, <3>1
    <2>2. CASE ~(i <= Len(Tail(b)))
      <3>1. (Tail(b) \o c)[i] = c[i - Len(Tail(b))]
        BY <1>4, <2>0, <2>2
      <3>2. ~(i + 1 <= Len(b)) /\ (i + 1) - Len(b) = i - Len(Tail(b))
        BY <1>1, <1>2, <2>0, <2>2
      <3> QED
        BY <1>3, <2>0, <3>1, <3>2
    <2> QED
      BY <2>1, <2>2
  <1> QED
    BY <1>5, <1>6, <1>7

(* What a step of a fetcher does to the files.                             *)
LEMMA FetchPlaces ==
  TypeOK /\ Drained /\ FetchStep => NoneMoves \/ \E r \in Fetching, n \in Nat : Given(r, n)
  <1> SUFFICES ASSUME TypeOK, Drained, NEW r \in Fetching, Fetch(r)
               PROVE  NoneMoves \/ \E q \in Fetching, n \in Nat : Given(q, n)
    BY DEF FetchStep
  <1>1. CASE FetcherTop(r) \/ BackoffEnds(r) \/ FetcherChecks(r)
    BY <1>1, StillFiles DEF FetcherTop, BackoffEnds, FetcherChecks, historyVars
  <1>2. CASE FetchFileBatch(r) /\ ~GivenFiles(r)
    BY <1>2, StillFiles DEF FetchFileBatch, ToldUnknown, ToldCancelled, CallFailed, historyVars
  <1>3. CASE FetchFileBatch(r) /\ GivenFiles(r)
    <2>1. PICK n \in 0..Batch :
            /\ manifest + n <= NFiles /\ manifest' = manifest + n
            /\ batch' = [batch EXCEPT ![r] = [i \in 1..n |-> manifest + i]]
      BY <1>3 DEF GivenFiles
    <2>2. batch[r] = <<>> /\ UNCHANGED <<buffer, handled, taskVars, abort, cancelled>>
      BY <1>3 DEF FetchFileBatch, GivenFiles, Drained, historyVars, flagVars
    <2>3. n \in Nat /\ manifest \in Nat /\ manifest' <= NFiles
      BY <2>1, WorkloadAssumption DEF TypeOK
    <2>4. \A q \in Fetching \ {r} : Line(q)' = Line(q)
      BY <2>1, <2>2 DEF Line, TypeOK
    <2> DEFINE new == [i \in 1..n |-> manifest + i]
    <2>5. buffer[r] \in Seq(Files) /\ Len(buffer[r]) \in Nat
      BY DEF TypeOK
    <2>6. new \in Seq(Files) /\ Len(new) = n /\ \A k \in 1..n : new[k] = manifest + k
      <3>1. \A k \in 1..n : manifest + k \in Files
        BY <2>1, <2>3, WorkloadAssumption DEF Files
      <3> QED
        BY <2>3, <3>1
    <2>7. Line(r) = buffer[r] /\ Line(r)' = buffer[r] \o new
      BY <2>1, <2>2, <2>5, ConcatEmptySeq DEF Line, TypeOK
    <2> HIDE DEF new
    <2>9. /\ Len(buffer[r] \o new) = Len(buffer[r]) + n
          /\ \A i \in 1..Len(buffer[r]) + n :
               (buffer[r] \o new)[i] = IF i <= Len(buffer[r]) THEN buffer[r][i]
                                       ELSE new[i - Len(buffer[r])]
      BY <2>5, <2>6, ConcatProperties
    <2>10. \A i \in 1..Len(buffer[r]) + n : ~(i <= Len(buffer[r])) =>
             new[i - Len(buffer[r])] = manifest + (i - Len(buffer[r]))
      <3> TAKE i \in 1..Len(buffer[r]) + n
      <3> HAVE ~(i <= Len(buffer[r]))
      <3>1. i - Len(buffer[r]) \in 1..n
        BY <2>3, <2>5
      <3> QED
        BY <2>6, <3>1
    <2>11. Given(r, n)
      BY <2>1, <2>2, <2>3, <2>4, <2>7, <2>9, <2>10 DEF Given
    <2> QED
      BY <2>3, <2>11
  <1>4. CASE FetcherSends(r)
    <2>1. UNCHANGED <<manifest, taskVars, historyVars>> /\ fetcher[r] = "sending"
      BY <1>4 DEF FetcherSends
    <2>2. CASE UNCHANGED <<buffer, batch>>
      BY <2>1, <2>2, StillFiles DEF historyVars
    <2>3. CASE /\ buffer' = [buffer EXCEPT ![r] = Append(@, Head(batch[r]))]
               /\ batch' = [batch EXCEPT ![r] = Tail(@)]
      <3>1. buffer[r] \in Seq(Files) /\ batch[r] \in Seq(Files) /\ batch[r] # <<>>
        BY <2>1 DEF TypeOK
      <3>2. Append(buffer[r], Head(batch[r])) \o Tail(batch[r]) = buffer[r] \o batch[r]
        BY <3>1, PassHead
      <3>3. \A q \in Fetching : Line(q)' = Line(q)
        BY <2>3, <3>2 DEF Line, TypeOK
      <3> QED
        BY <2>1, <3>3 DEF NoneMoves, historyVars, taskVars, Holds
    <2> QED
      BY <1>4, <2>2, <2>3 DEF FetcherSends
  <1> QED
    BY <1>1, <1>2, <1>3, <1>4 DEF Fetch

LEMMA OtherPlaces == OtherStep => NoneMoves
BY OtherLeavesTasks, StillFiles DEF fetcherVars, historyVars

LEMMA StutterPlaces == UNCHANGED vars => NoneMoves
BY StillFiles DEF vars, fetcherVars, historyVars

(* What a step of a task does to the files.                                *)
LEMMA TaskPlaces ==
  TypeOK /\ TaskStep =>
    NoneMoves \/ \E r \in Fetching, t \in Tasks : Takes(r, t) \/ IsDone(r, t)
  <1> SUFFICES ASSUME TypeOK, TaskStep
               PROVE  NoneMoves \/ \E r \in Fetching, t \in Tasks : Takes(r, t) \/ IsDone(r, t)
    OBVIOUS
  <1>0. UNCHANGED <<job, manifest, batch>>
    BY TaskStepMoves DEF envVars, fetcherVars
  <1>1. ASSUME NEW r \in Runners, NEW t \in Tasks, TaskTop(r, t) PROVE NoneMoves
    <2>1. PICK where \in Places : GoesTo(r, t, where) /\ (r \in Fetching => where \in {"ended", "recv"})
      BY <1>1 DEF TaskTop, Places
    <2>2. /\ r \in job.runners /\ task[r][t] = "top" /\ current' = [current EXCEPT ![r][t] = 0]
          /\ UNCHANGED <<buffer, historyVars>>
      BY <1>1 DEF TaskTop, Active
    <2>3. \A q \in Runners, u \in Tasks :
            task'[q][u] = IF q = r /\ u = t THEN where ELSE task[q][u]
      BY <1>0, <2>1, <2>2, TaskMoves
    <2>4. \A q \in Runners, u \in Tasks : q # r \/ u # t => current'[q][u] = current[q][u]
      BY <2>2 DEF TypeOK
    <2>5. \A q \in Fetching : Line(q)' = Line(q)
      BY <1>0, <2>2 DEF Line
    <2> QED
      BY <1>0, <2>1, <2>2, <2>3, <2>4, <2>5 DEF NoneMoves, Holds, historyVars, Fetching, Runners
  <1>2. ASSUME NEW r \in Fetching, NEW t \in Tasks, TaskRecv(r, t) PROVE NoneMoves \/ Takes(r, t)
    <2>0. /\ r \in Runners /\ r \in job.runners /\ task[r][t] = "recv"
          /\ UNCHANGED <<abort, cancelled, historyVars>>
      BY <1>2 DEF TaskRecv, Active, Fetching, Runners, flagVars
    <2>1. CASE buffer[r] # <<>>
      <3>1. /\ GoesTo(r, t, "op") /\ current' = [current EXCEPT ![r][t] = Head(buffer[r])]
            /\ buffer' = [buffer EXCEPT ![r] = Tail(@)]
        BY <1>2, <2>1 DEF TaskRecv
      <3>2. \A q \in Runners, u \in Tasks :
              task'[q][u] = IF q = r /\ u = t THEN "op" ELSE task[q][u]
        BY <1>0, <2>0, <3>1, TaskMoves DEF Places
      <3>3. current'[r][t] = Head(buffer[r])
            /\ \A q \in Runners, u \in Tasks : q # r \/ u # t => current'[q][u] = current[q][u]
        BY <2>0, <3>1 DEF TypeOK
      <3>4. ~Holds(r, t) /\ Holds(r, t)' /\ Others(r, t)
        BY <2>0, <3>2, <3>3 DEF Holds, Others, Fetching, Runners
      <3>5. \A q \in Fetching \ {r} : Line(q)' = Line(q)
        BY <1>0, <3>1 DEF Line, TypeOK
      <3>6. buffer[r] \in Seq(Files) /\ batch[r] \in Seq(Files)
        BY DEF TypeOK
      <3>7. Line(r)' = Tail(buffer[r]) \o batch[r]
        BY <1>0, <3>1 DEF Line, TypeOK
      <3>8. /\ Len(Line(r)) >= 1 /\ Len(Line(r)') = Len(Line(r)) - 1 /\ Line(r)[1] = Head(buffer[r])
            /\ \A i \in 1..Len(Line(r)') : Line(r)'[i] = Line(r)[i + 1]
        <4>1. Line(r) = buffer[r] \o batch[r]
          BY DEF Line
        <4> DEFINE b == buffer[r]
                   c == batch[r]
        <4>2. /\ Len(b \o c) >= 1 /\ Len(Tail(b) \o c) = Len(b \o c) - 1
              /\ (b \o c)[1] = Head(b)
              /\ \A i \in 1..Len(Tail(b) \o c) : (Tail(b) \o c)[i] = (b \o c)[i + 1]
          <5> b \in Seq(Files) /\ c \in Seq(Files) /\ b # <<>>
            BY <2>1, <3>6
          <5> HIDE DEF b, c
          <5> QED
            BY TakeHead
        <4> QED
          BY ONLY <3>7, <4>1, <4>2
      <3> QED
        BY <1>0, <2>0, <3>3, <3>4, <3>5, <3>8 DEF Takes, historyVars
    <2>2. CASE buffer[r] = <<>>
      <3>1. GoesTo(r, t, "ended") /\ UNCHANGED <<current, buffer>>
        BY <1>2, <2>2 DEF TaskRecv
      <3>2. \A q \in Runners, u \in Tasks :
              task'[q][u] = IF q = r /\ u = t THEN "ended" ELSE task[q][u]
        BY <1>0, <2>0, <3>1, TaskMoves DEF Places
      <3>3. \A q \in Fetching : Line(q)' = Line(q)
        BY <1>0, <3>1 DEF Line
      <3> QED
        BY <1>0, <2>0, <3>1, <3>2, <3>3 DEF NoneMoves, Holds, historyVars, Fetching, Runners
    <2> QED
      BY <2>1, <2>2
  <1>3. ASSUME NEW t \in Tasks,
               ReadFile(t) \/ AfterRead(t) \/ CompareFile(t) \/ StatFile(t) \/ MetadataOp(t) \/ WriteFile(t)
        PROVE  NoneMoves \/ \E r \in Fetching : IsDone(r, t)
    <2>1. PICK r \in Runners, where \in Places :
            /\ GoesTo(r, t, where) /\ r \in job.runners
            /\ r \in Fetching => task[r][t] \in {"op", "after", "compare"}
            /\ \/ /\ r \in Fetching /\ where = "top" /\ Handle(r, t) /\ UNCHANGED <<abort, cancelled>>
               \/ /\ handled' = handled
                  /\ r \in Fetching => where \in {"after", "compare"} \/ Stopped'
                  /\ r \notin Fetching \/ where \in {"after", "compare", "ended", "failed"}
      BY <1>3 DEF ReadFile, AfterRead, CompareFile, StatFile, MetadataOp, WriteFile, Fails, Active,
         Places, Runners, Fetching, historyVars, Stopped, flagVars
    <2>2. UNCHANGED <<current, buffer>>
      BY <1>3 DEF ReadFile, AfterRead, CompareFile, StatFile, MetadataOp, WriteFile
    <2>3. \A q \in Runners, u \in Tasks :
            task'[q][u] = IF q = r /\ u = t THEN where ELSE task[q][u]
      BY <1>0, <2>1, TaskMoves
    <2>4. \A q \in Fetching : Line(q)' = Line(q)
      BY <1>0, <2>2 DEF Line
    <2>5. CASE r \in Fetching /\ where = "top" /\ Handle(r, t) /\ UNCHANGED <<abort, cancelled>>
      <3>1. Holds(r, t) /\ ~Holds(r, t)'
        BY <2>1, <2>3, <2>5 DEF Holds
      <3>2. Others(r, t)
        BY <2>2, <2>3 DEF Others, Holds, Fetching, Runners
      <3> QED
        BY <1>0, <2>4, <2>5, <3>1, <3>2 DEF IsDone
    <2>6. CASE /\ handled' = handled
               /\ r \in Fetching => where \in {"after", "compare"} \/ Stopped'
      BY <1>0, <2>1, <2>2, <2>3, <2>4, <2>6 DEF NoneMoves, Holds, Fetching, Runners
    <2> QED
      BY <2>1, <2>5, <2>6
  <1> QED
    BY <1>1, <1>2, <1>3 DEF TaskStep

(* Drained, runner by runner.                                              *)
DrainedAt(r) ==
  /\ fetcher[r] \in {"top", "calling", "backoff"} => batch[r] = <<>>
  /\ ~Stopped /\ ~deadline =>
       /\ fetcher[r] = "ended" => batch[r] = <<>>
       /\ \A t \in Tasks : task[r][t] = "ended" => fetcher[r] = "ended" /\ buffer[r] = <<>>
  /\ r \notin job.runners => buffer[r] = <<>> /\ batch[r] = <<>>

LEMMA SameDrained ==
  ASSUME TypeOK, [Next]_vars, NEW r \in Fetching, DrainedAt(r),
         fetcher'[r] = fetcher[r], batch'[r] = batch[r], buffer'[r] = buffer[r],
         \A t \in Tasks : task'[r][t] = "ended" => task[r][t] = "ended" \/ Stopped' \/ deadline'
  PROVE  DrainedAt(r)'
BY Kept DEF DrainedAt, Stopped

LEMMA FetchDrained == TypeOK /\ FailuresSeen /\ Drained /\ FetchStep /\ [Next]_vars => Drained'
  <1> SUFFICES ASSUME TypeOK, FailuresSeen, Drained, NEW r \in Fetching, Fetch(r), [Next]_vars
               PROVE  Drained'
    BY DEF FetchStep
  <1>0. job' = job /\ task' = task /\ (Stopped => Stopped') /\ (deadline => deadline') /\ r \in job.runners
    <2>1. FetchStep
      BY DEF FetchStep
    <2> QED
      BY <2>1, Kept, FetchLeavesTasks DEF taskVars, Stopped, Fetch, FetcherTop, FetchFileBatch,
         BackoffEnds, FetcherChecks, FetcherSends, Active
  <1>1. \A q \in Fetching : DrainedAt(q)
    BY DEF Drained, DrainedAt
  <1>2. \A q \in Fetching \ {r} :
          fetcher'[q] = fetcher[q] /\ batch'[q] = batch[q] /\ buffer'[q] = buffer[q]
    <2>1. FetcherTop(r) \/ BackoffEnds(r) \/ FetcherChecks(r) =>
            \A q \in Fetching \ {r} :
              fetcher'[q] = fetcher[q] /\ batch'[q] = batch[q] /\ buffer'[q] = buffer[q]
      BY DEF FetcherTop, BackoffEnds, FetcherChecks, TypeOK
    <2>2. FetchFileBatch(r) =>
            \A q \in Fetching \ {r} :
              fetcher'[q] = fetcher[q] /\ batch'[q] = batch[q] /\ buffer'[q] = buffer[q]
      BY DEF FetchFileBatch, ToldUnknown, ToldCancelled, GivenFiles, CallFailed, TypeOK
    <2>3. FetcherSends(r) =>
            \A q \in Fetching \ {r} :
              fetcher'[q] = fetcher[q] /\ batch'[q] = batch[q] /\ buffer'[q] = buffer[q]
      BY DEF FetcherSends, TypeOK
    <2> QED
      BY <2>1, <2>2, <2>3 DEF Fetch
  <1>3. \A q \in Fetching \ {r} : DrainedAt(q)'
    BY <1>0, <1>1, <1>2, SameDrained
  <1>4. ~Stopped /\ ~deadline /\ fetcher[r] # "ended" => \A t \in Tasks : task[r][t] # "ended"
    BY <1>1 DEF DrainedAt
  <1>5. DrainedAt(r)'
    <2>1. CASE FetcherTop(r)
      <3>1. fetcher[r] = "top" /\ batch'[r] = batch[r] /\ batch[r] = <<>>
        BY <1>1, <2>1 DEF FetcherTop, DrainedAt
      <3> QED
        BY <1>0, <1>4, <3>1 DEF DrainedAt
    <2>2. CASE FetchFileBatch(r)
      <3>1. fetcher[r] = "calling" /\ batch[r] = <<>>
        BY <1>1, <2>2 DEF FetchFileBatch, DrainedAt
      <3>2. batch'[r] = <<>> \/ fetcher'[r] = "checking"
        BY <2>2, <3>1 DEF FetchFileBatch, ToldUnknown, ToldCancelled, GivenFiles, CallFailed, TypeOK
      <3> QED
        BY <1>0, <1>4, <3>1, <3>2 DEF DrainedAt
    <2>3. CASE BackoffEnds(r)
      <3>1. fetcher[r] = "backoff" /\ batch'[r] = batch[r] /\ batch[r] = <<>>
        BY <1>1, <2>3 DEF BackoffEnds, DrainedAt
      <3> QED
        BY <1>0, <1>4, <3>1 DEF DrainedAt
    <2>4. CASE FetcherChecks(r)
      <3>1. /\ fetcher[r] = "checking" /\ batch'[r] = batch[r]
            /\ batch[r] = <<>> \/ (fetcher'[r] \in {"sending", "ended"} /\ (fetcher'[r] = "ended" => Stopped))
        BY <2>4 DEF FetcherChecks, TypeOK
      <3> QED
        BY <1>0, <1>4, <3>1 DEF DrainedAt
    <2>5. CASE FetcherSends(r)
      <3>1. fetcher[r] = "sending"
        BY <2>5 DEF FetcherSends
      <3>2. CASE ReceiversGone(r)
        <4>1. 1 \in Tasks
          BY WorkloadAssumption DEF Tasks
        <4>2. task[r][1] \in {"ended", "failed"} /\ (task[r][1] = "failed" => Stopped)
          BY <3>2, <4>1 DEF ReceiversGone, Gone, FailuresSeen, Fetching, Runners, Stopped
        <4>3. Stopped \/ deadline
          BY <1>4, <3>1, <4>1, <4>2
        <4>4. fetcher'[r] = "ended"
          BY <2>5, <3>2 DEF FetcherSends, TypeOK
        <4> QED
          BY <1>0, <4>3, <4>4 DEF DrainedAt
      <3>3. CASE ~ReceiversGone(r)
        <4>1. fetcher'[r] = "checking"
          BY <2>5, <3>3 DEF FetcherSends, TypeOK
        <4> QED
          BY <1>0, <1>4, <3>1, <4>1 DEF DrainedAt
      <3> QED
        BY <3>2, <3>3
    <2> QED
      BY <2>1, <2>2, <2>3, <2>4, <2>5 DEF Fetch
  <1> QED
    BY <1>3, <1>5 DEF Drained, DrainedAt

LEMMA TaskDrained == TypeOK /\ Drained /\ TaskStep /\ [Next]_vars => Drained'
  <1> SUFFICES ASSUME TypeOK, Drained, TaskStep, [Next]_vars PROVE Drained'
    OBVIOUS
  <1>0. UNCHANGED <<job, fetcher, batch, cancelled, deadline>> /\ (Stopped => Stopped')
    BY TaskStepMoves, Kept DEF envVars, fetcherVars, Stopped
  <1>1. \A q \in Fetching : DrainedAt(q)
    BY DEF Drained, DrainedAt
  <1>2. ASSUME NEW r \in Runners, NEW t \in Tasks, NEW where \in Places,
               GoesTo(r, t, where), r \in job.runners, UNCHANGED buffer,
               r \in Fetching /\ where = "ended" => Stopped' \/ deadline'
        PROVE  Drained'
    <2>1. \A q \in Runners, u \in Tasks :
            task'[q][u] = IF q = r /\ u = t THEN where ELSE task[q][u]
      BY <1>0, <1>2, TaskMoves
    <2>2. \A q \in Fetching, u \in Tasks :
            task'[q][u] = "ended" => task[q][u] = "ended" \/ Stopped' \/ deadline'
      BY <1>2, <2>1 DEF Fetching, Runners
    <2>3. \A q \in Fetching : DrainedAt(q)'
      BY <1>0, <1>1, <1>2, <2>2, SameDrained
    <2> QED
      BY <2>3 DEF Drained, DrainedAt
  <1>3. ASSUME NEW r \in Runners, NEW t \in Tasks, TaskTop(r, t) PROVE Drained'
    <2>1. PICK where \in Places :
            GoesTo(r, t, where) /\ (r \in Fetching /\ where = "ended" => Stopped \/ deadline)
      BY <1>3 DEF TaskTop, Places
    <2> QED
      BY <1>0, <1>2, <1>3, <2>1 DEF TaskTop, Active
  <1>4. ASSUME NEW t \in Tasks,
               ReadFile(t) \/ AfterRead(t) \/ CompareFile(t) \/ StatFile(t) \/ MetadataOp(t) \/ WriteFile(t)
        PROVE  Drained'
    <2>1. PICK r \in Runners, where \in Places :
            GoesTo(r, t, where) /\ r \in job.runners /\ (where = "ended" => Stopped)
      BY <1>4 DEF ReadFile, AfterRead, CompareFile, StatFile, MetadataOp, WriteFile, Fails, Active,
         Places, Runners
    <2>2. UNCHANGED buffer
      BY <1>4 DEF ReadFile, AfterRead, CompareFile, StatFile, MetadataOp, WriteFile
    <2> QED
      BY <1>0, <1>2, <2>1, <2>2
  <1>5. ASSUME NEW r \in Fetching, NEW t \in Tasks, TaskRecv(r, t) PROVE Drained'
    <2>0. r \in Runners /\ r \in job.runners
      BY <1>5 DEF TaskRecv, Active, Fetching, Runners
    <2>1. PICK where \in Places : GoesTo(r, t, where) /\ where \in {"op", "ended"}
            /\ \/ /\ where = "op" /\ buffer[r] # <<>>
                  /\ buffer' = [buffer EXCEPT ![r] = Tail(@)]
               \/ where = "ended" /\ buffer[r] = <<>> /\ fetcher[r] = "ended" /\ UNCHANGED buffer
      BY <1>5 DEF TaskRecv, Places
    <2>2. \A q \in Runners, u \in Tasks :
            task'[q][u] = IF q = r /\ u = t THEN where ELSE task[q][u]
      BY <1>0, <2>0, <2>1, TaskMoves
    <2>3. \A q \in Fetching \ {r} : buffer'[q] = buffer[q] /\ \A u \in Tasks : task'[q][u] = task[q][u]
      <3>1. buffer \in [Fetching -> Seq(Files)] /\ \A q \in Fetching : q \in Runners
        BY DEF TypeOK, Fetching, Runners
      <3>2. ASSUME NEW q \in Fetching \ {r} PROVE buffer'[q] = buffer[q]
        BY <2>1, <3>1
      <3>3. ASSUME NEW q \in Fetching \ {r}, NEW u \in Tasks PROVE task'[q][u] = task[q][u]
        <4>1. q \in Runners /\ q # r
          BY <3>1
        <4> QED
          BY <2>2, <4>1
      <3> QED
        BY <3>2, <3>3
    <2>4. \A q \in Fetching \ {r} : DrainedAt(q)'
      BY <1>0, <1>1, <2>3, SameDrained
    <2>5. DrainedAt(r)'
      <3>1. CASE where = "ended"
        BY <1>0, <1>1, <2>0, <2>1, <2>2, <3>1 DEF DrainedAt
      <3>2. CASE where = "op"
        <4>1. ~Stopped /\ ~deadline => \A u \in Tasks : task[r][u] # "ended"
          BY <1>1, <2>1, <3>2 DEF DrainedAt
        <4>2. ~Stopped' /\ ~deadline' => \A u \in Tasks : task'[r][u] # "ended"
          BY <1>0, <2>0, <2>2, <3>2, <4>1
        <4> QED
          BY <1>0, <1>1, <2>0, <4>2 DEF DrainedAt
      <3> QED
        BY <2>1, <3>1, <3>2
    <2> QED
      BY <2>4, <2>5 DEF Drained, DrainedAt
  <1> QED
    BY <1>3, <1>4, <1>5 DEF TaskStep

LEMMA OtherDrained ==
  TypeOK /\ Drained /\ (OtherStep \/ UNCHANGED vars) /\ [Next]_vars => Drained'
  <1> SUFFICES ASSUME TypeOK, Drained, OtherStep \/ UNCHANGED vars, [Next]_vars PROVE Drained'
    OBVIOUS
  <1>1. UNCHANGED <<job, fetcher, batch, buffer, task>>
    BY OtherLeavesTasks DEF vars, fetcherVars, taskVars
  <1>2. \A q \in Fetching : DrainedAt(q)
    BY DEF Drained, DrainedAt
  <1>3. \A q \in Fetching : DrainedAt(q)'
    BY <1>1, <1>2, SameDrained
  <1> QED
    BY <1>3 DEF Drained, DrainedAt

LEMMA FilesKept == TypeOK /\ FailuresSeen /\ FilesInv /\ [Next]_vars => FilesInv'
  <1> SUFFICES ASSUME TypeOK, FailuresSeen, FilesInv, [Next]_vars PROVE FilesInv'
    OBVIOUS
  <1>1. PlacesInv /\ Drained /\ (Stopped => Stopped')
    BY Kept DEF FilesInv, Stopped
  <1>2. NoneMoves \/ (\E r \in Fetching, n \in Nat : Given(r, n))
          \/ \E r \in Fetching, t \in Tasks : Takes(r, t) \/ IsDone(r, t)
    BY <1>1, StepCases, FetchPlaces, TaskPlaces, OtherPlaces, StutterPlaces
  <1>3. PlacesInv'
    BY <1>1, <1>2, NoneMovesKeeps, GivenKeeps, TakesKeeps, IsDoneKeeps
  <1>4. Drained'
    BY <1>1, StepCases, FetchDrained, TaskDrained, OtherDrained
  <1> QED
    BY <1>3, <1>4 DEF FilesInv

LEMMA FilesInit == Init => FilesInv
  <1> SUFFICES ASSUME Init PROVE FilesInv
    OBVIOUS
  <1>1. \A r \in Fetching : Line(r) = <<>> /\ Len(Line(r)) = 0
    BY DEF Init, Line
  <1>2. \A r \in Fetching, t \in Tasks : task[r][t] = "top"
    BY DEF Init, Fetching, Runners
  <1>3. manifest = 0 /\ 1..manifest = {} /\ \A f \in Files : handled[f] = 0
    BY DEF Init
  <1>4. LineOK /\ LinesApart
    BY <1>1 DEF LineOK, LinesApart
  <1>5. HeldOK /\ HeldApart
    BY <1>2 DEF HeldOK, HeldApart, Holds
  <1>6. HandledOK /\ Covered
    BY <1>3 DEF HandledOK, Covered
  <1>7. Drained
    BY <1>2 DEF Drained, Init
  <1> QED
    BY <1>4, <1>5, <1>6, <1>7 DEF FilesInv, PlacesInv

(* When the runners have returned, no task has a file; and if nothing       *)
(* stopped them, no file waits.                                            *)
LEMMA NothingLeft ==
  ASSUME TypeOK, ReportInv, FilesInv, main \in {"reporting", "reported"}
  PROVE  /\ \A r \in Fetching, t \in Tasks : ~Holds(r, t)
         /\ ~deadline /\ ~Stopped => \A r \in Fetching : Len(Line(r)) = 0
  <1>1. ASSUME NEW r \in Fetching, NEW t \in Tasks PROVE ~Holds(r, t)
    <2>1. CASE r \in job.runners
      BY <2>1 DEF ReportInv, FailuresSeen, RunnerOver, Tasks, Gone, Holds, Fetching, Runners
    <2>2. CASE r \notin job.runners
      BY <2>2 DEF TypeOK, Holds, Fetching, Runners
    <2> QED
      BY <2>1, <2>2
  <1>2. ASSUME ~deadline, ~Stopped, NEW r \in Fetching PROVE buffer[r] = <<>> /\ batch[r] = <<>>
    <2>1. CASE r \in job.runners
      <3>1. fetcher[r] = "ended" /\ joined[r] = N
        BY <2>1 DEF ReportInv, FailuresSeen, RunnerOver
      <3>2. 1 \in Tasks
        BY WorkloadAssumption DEF Tasks
      <3>3. task[r][1] = "ended"
        BY <1>2, <3>1, <3>2 DEF ReportInv, FailuresSeen, Tasks, Gone, Stopped, Fetching, Runners
      <3> QED
        BY <1>2, <3>1, <3>2, <3>3 DEF FilesInv, Drained
    <2>2. CASE r \notin job.runners
      BY <2>2 DEF FilesInv, Drained
    <2> QED
      BY <2>1, <2>2
  <1>3. <<>> \o <<>> = <<>> /\ Len(<<>>) = 0
    OBVIOUS
  <1> QED
    BY <1>1, <1>2, <1>3 DEF Line

LEMMA FilesInvMeans == TypeOK /\ ReportInv /\ FilesInv => EveryFileHandled
  <1> SUFFICES ASSUME TypeOK, ReportInv, FilesInv PROVE EveryFileHandled
    OBVIOUS
  <1>1. \A f \in Files : handled[f] <= 1
    BY DEF FilesInv, PlacesInv, HandledOK
  <1>2. ASSUME main \in {"reporting", "reported"}, ~deadline, ~Stopped, NEW f \in 1..manifest
        PROVE  handled[f] = 1
    <2>1. \A r \in Fetching, t \in Tasks : ~Holds(r, t)
      BY <1>2, NothingLeft
    <2>2. \A r \in Fetching : Len(Line(r)) = 0
      BY <1>2, NothingLeft
    <2>3. \A r \in Fetching : \A i : ~Waits(f, r, i)
      BY <2>2 DEF Waits
    <2> QED
      BY <1>2, <2>1, <2>3 DEF FilesInv, PlacesInv, Covered
  <1> QED
    BY <1>1, <1>2 DEF EveryFileHandled

-----------------------------------------------------------------------------
(* Why a flag is up.                                                       *)

(* abort is raised for a failed task or together with cancelled, unknown   *)
(* together with cancelled; a failure that was joined has raised abort; the *)
(* master has given nothing before the start.                              *)
FlagsMean ==
  /\ abort => cancelled \/ AnyFailed
  /\ unknown => cancelled
  /\ \A r \in Runners : firstErr[r] # 0 => abort
  /\ main = "preflight" => manifest = 0

LEMMA FailedStay == TypeOK /\ [Next]_vars /\ AnyFailed => AnyFailed'
  <1> SUFFICES ASSUME TypeOK, [Next]_vars, AnyFailed PROVE AnyFailed'
    OBVIOUS
  <1>1. PICK r \in job.runners, t \in Tasks : task[r][t] = "failed"
    BY DEF AnyFailed
  <1>2. r \in Runners
    BY WorkloadAssumption DEF TypeOK
  <1>3. task'[r][t] = "failed" /\ job' = job
    BY <1>1, <1>2, GoneStay, Kept DEF Gone
  <1> QED
    BY <1>1, <1>3 DEF AnyFailed

LEMMA AbortRaised ==
  ASSUME TypeOK, [Next]_vars, ~abort, abort'
  PROVE  cancelled' \/ AnyFailed'
  <1>1. CASE FetchStep
    <2>1. cancelled' = TRUE
      BY <1>1 DEF FetchStep, Fetch, FetcherTop, FetchFileBatch, ToldUnknown, ToldCancelled, GivenFiles,
         CallFailed, BackoffEnds, FetcherChecks, FetcherSends, flagVars
    <2> QED
      BY <2>1
  <1>2. CASE TaskStep
    <2>1. PICK r \in Runners, t \in Tasks : GoesTo(r, t, "failed") /\ r \in job.runners /\ job' = job
      BY <1>2 DEF TaskStep, TaskTop, TaskRecv, ReadFile, AfterRead, CompareFile, StatFile, MetadataOp,
         WriteFile, Fails, Active, Runners, flagVars, envVars
    <2>2. task'[r][t] = "failed"
      BY <2>1, TaskMoves DEF Places
    <2> QED
      BY <2>1, <2>2 DEF AnyFailed
  <1>3. CASE OtherStep
    <2>1. PICK r \in Runners : JoinTask(r)
      BY <1>3 DEF OtherStep, RunPreflight, WorkloadOver, ReportResult, Around, ProgressAnswered,
         ShutdownBridged, DeadlinePasses, MasterEnds, flagVars
    <2>2. joined[r] + 1 \in Tasks
      BY <2>1, JoinedTasks, WorkloadAssumption DEF JoinTask, TypeOK, Tasks
    <2>3. r \in job.runners /\ task[r][joined[r] + 1] = "failed"
      BY <2>1 DEF JoinTask, Active
    <2>4. AnyFailed
      BY <2>2, <2>3 DEF AnyFailed
    <2> QED
      BY <2>4, FailedStay
  <1>4. CASE UNCHANGED vars
    BY <1>4 DEF vars, flagVars
  <1> QED
    BY <1>1, <1>2, <1>3, <1>4, StepCases

LEMMA FlagsKept == TypeOK /\ FlagsMean /\ [Next]_vars => FlagsMean'
  <1> SUFFICES ASSUME TypeOK, FlagsMean, [Next]_vars PROVE FlagsMean'
    OBVIOUS
  <1>1. abort' => cancelled' \/ AnyFailed'
    <2>1. CASE abort
      BY <2>1, Kept, FailedStay DEF FlagsMean
    <2>2. CASE ~abort
      BY <2>2, AbortRaised
    <2> QED
      BY <2>1, <2>2
  <1>2. unknown' => cancelled'
    <2>1. CASE unknown
      BY <2>1, Kept DEF FlagsMean
    <2>2. CASE FetchStep /\ ~unknown
      BY <2>2 DEF FetchStep, Fetch, FetcherTop, FetchFileBatch, ToldUnknown, ToldCancelled, GivenFiles,
         CallFailed, BackoffEnds, FetcherChecks, FetcherSends, flagVars
    <2>3. CASE TaskStep /\ ~unknown
      BY <2>3, TaskStepMoves
    <2>4. CASE OtherStep /\ ~unknown
      <3>1. unknown' => cancelled' = TRUE
        BY <2>4 DEF OtherStep, RunPreflight, JoinTask, WorkloadOver, ReportResult, Around,
           ProgressAnswered, ShutdownBridged, DeadlinePasses, MasterEnds, flagVars
      <3> QED
        BY <3>1
    <2>5. CASE UNCHANGED vars
      BY <2>5 DEF vars, flagVars, FlagsMean
    <2> QED
      BY <2>1, <2>2, <2>3, <2>4, <2>5, StepCases
  <1>3. main' = "preflight" => manifest' = 0
    <2>1. main' = "preflight" => main = "preflight"
      <3>1. CASE main' = main
        BY <3>1
      <3>2. CASE RunPreflight \/ WorkloadOver \/ ReportResult
        BY <3>2 DEF RunPreflight, WorkloadOver, ReportResult
      <3> QED
        BY <3>1, <3>2, MainSteps
    <2>2. main = "preflight" => manifest' = manifest
      BY Frozen
    <2> QED
      BY <2>1, <2>2 DEF FlagsMean
  <1>4. \A r \in Runners : firstErr'[r] # 0 => abort'
    <2>1. CASE firstErr' = firstErr
      BY <2>1, Kept DEF FlagsMean
    <2>2. ASSUME NEW r \in Runners, JoinTask(r) PROVE \A q \in Runners : firstErr'[q] # 0 => abort'
      <3>1. /\ firstErr' = [firstErr EXCEPT ![r] = ErrOf(r, joined[r] + 1)]
            /\ abort' = (abort \/ task[r][joined[r] + 1] = "failed")
        BY <2>2 DEF JoinTask
      <3>2. \A q \in Runners : q # r => firstErr'[q] = firstErr[q]
        BY <3>1 DEF TypeOK
      <3>3. firstErr'[r] # 0 => firstErr[r] # 0 \/ task[r][joined[r] + 1] = "failed"
        BY <3>1 DEF TypeOK, ErrOf
      <3> QED
        BY <3>1, <3>2, <3>3 DEF FlagsMean
    <2>3. firstErr' = firstErr \/ \E r \in Runners : JoinTask(r)
      <3>1. FetchStep \/ TaskStep \/ UNCHANGED vars => UNCHANGED joinVars
        BY FetchLeavesTasks, TaskStepMoves DEF vars
      <3>2. RunPreflight \/ WorkloadOver \/ ReportResult \/ Around => UNCHANGED joinVars
        BY DEF RunPreflight, WorkloadOver, ReportResult, Around, ProgressAnswered, ShutdownBridged,
           DeadlinePasses, MasterEnds
      <3> QED
        BY <3>1, <3>2, StepCases DEF OtherStep, joinVars
    <2> QED
      BY <2>1, <2>2, <2>3
  <1> QED
    BY <1>1, <1>2, <1>3, <1>4 DEF FlagsMean

-----------------------------------------------------------------------------
(* The theorems.                                                           *)

IInv == TypeOK /\ ReportInv /\ FilesInv /\ FlagsMean

(* Every reachable state satisfies the inductive invariant.                *)
THEOREM Invariance == Spec => []IInv
  <1>1. Init => IInv
    BY InitTypes, ReportInit, FilesInit DEF IInv, FlagsMean, Init
  <1>2. TypeOK /\ FilesInv => HeldAreFiles
    BY WorkloadAssumption DEF FilesInv, PlacesInv, HeldOK, HeldAreFiles, TypeOK, Files
  <1>3. IInv /\ [Next]_vars => IInv'
    BY <1>2, NextTypes, ReportKept, FilesKept, FlagsKept DEF IInv, ReportInv
  <1> QED
    BY <1>1, <1>3, PTL DEF Spec

-----------------------------------------------------------------------------
(* The refinement of FileWork.                                             *)

(* While the workload runs, it has no verdict.                             *)
Going == /\ main = "running" /\ UNCHANGED <<main, result, deadline>>
         /\ Stopped => Stopped'

LEMMA GoingOpen == Going => Verdict = "none" /\ Verdict' = "none"
BY DEF Going, Verdict

LEMMA SameWaiting ==
  ASSUME \A r \in Fetching : Line(r)' = Line(r)
  PROVE  Waiting' = Waiting
BY DEF Waiting

(* No file moves, but some that are in hand may be dropped for a flag.     *)
LEMMA NoneMovesWorks ==
  ASSUME TypeOK, NoneMoves, Going
  PROVE  [Work!Next]_(Work!vars)
  <1>0. /\ Verdict = "none" /\ Verdict' = "none" /\ deadline' = deadline
        /\ manifest' = manifest /\ (Stopped => Stopped')
    BY GoingOpen DEF Going, NoneMoves
  <1>1. Waiting' = Waiting
    BY SameWaiting DEF NoneMoves
  <1>2. Handled' = Handled
    BY DEF Handled, NoneMoves
  <1>3. InHand' \subseteq InHand
    BY DEF InHand, NoneMoves
  <1>4. CASE Stopped'
    <2> DEFINE F == InHand \ InHand'
    <2>1. F \in SUBSET InHand /\ InHand' = InHand \ F
      BY <1>3
    <2> HIDE DEF F
    <2>2. Work!Interrupt(F)
      BY <1>0, <1>1, <1>2, <1>4, <2>1 DEF Work!Interrupt, Work!Open
    <2> QED
      BY <2>1, <2>2 DEF Work!Next
  <1>5. CASE ~Stopped'
    <2>1. InHand \subseteq InHand'
      BY <1>5 DEF InHand, NoneMoves
    <2>2. Stopped' = Stopped
      BY <1>0, <1>5 DEF Stopped
    <2> QED
      BY <1>0, <1>1, <1>2, <1>3, <2>1, <2>2 DEF Work!vars
  <1> QED
    BY <1>4, <1>5

(* A reply of the master with n files.                                     *)
LEMMA GivenWorks ==
  ASSUME TypeOK, Going, NEW r \in Fetching, NEW n \in Nat, Given(r, n)
  PROVE  [Work!Next]_(Work!vars)
  <1>0. /\ Verdict = "none" /\ Verdict' = "none" /\ deadline' = deadline
        /\ manifest' = manifest + n /\ manifest' <= NFiles /\ manifest \in Nat /\ NFiles \in Nat
        /\ Len(Line(r)) \in Nat
    BY GoingOpen, WorkloadAssumption, LineLength DEF Going, Given, TypeOK
  <1>1. Stopped' = Stopped
    BY DEF Given, Stopped
  <1>2. InHand' = InHand /\ Handled' = Handled
    BY DEF Given, InHand, Handled, Holds, taskVars
  <1>3. ASSUME NEW f \in Files PROVE f \in Waiting' <=> f \in Waiting \/ f \in (manifest + 1)..(manifest + n)
    <2>1. ASSUME NEW q \in Fetching, NEW i \in 1..Len(Line(q)'), Line(q)'[i] = f
          PROVE  f \in Waiting \/ f \in (manifest + 1)..(manifest + n)
      <3>1. CASE q # r
        BY <2>1, <3>1 DEF Given, Waiting
      <3>2. CASE q = r
        <4>1. i \in 1..Len(Line(r)) + n /\ i \in Nat
              /\ f = IF i <= Len(Line(r)) THEN Line(r)[i] ELSE manifest + (i - Len(Line(r)))
          BY <1>0, <2>1, <3>2 DEF Given
        <4>2. CASE i <= Len(Line(r))
          <5>1. i \in 1..Len(Line(r)) /\ Line(r)[i] = f
            BY <1>0, <4>1, <4>2
          <5> QED
            BY <5>1 DEF Waiting
        <4>3. CASE ~(i <= Len(Line(r)))
          BY <1>0, <4>1, <4>3
        <4> QED
          BY <4>2, <4>3
      <3> QED
        BY <3>1, <3>2
    <2>2. ASSUME NEW q \in Fetching, NEW i \in 1..Len(Line(q)), Line(q)[i] = f
          PROVE  f \in Waiting'
      <3>1. CASE q # r
        BY <2>2, <3>1 DEF Given, Waiting
      <3>2. CASE q = r
        <4>1. i \in 1..Len(Line(r)') /\ i <= Len(Line(r))
          BY <1>0, <2>2, <3>2 DEF Given
        <4>2. Line(r)'[i] = f
          BY <2>2, <3>2, <4>1 DEF Given
        <4> QED
          BY <4>1, <4>2 DEF Waiting
      <3> QED
        BY <3>1, <3>2
    <2>3. ASSUME f \in (manifest + 1)..(manifest + n) PROVE f \in Waiting'
      <3> DEFINE i == Len(Line(r)) + (f - manifest)
      <3>1. i \in 1..Len(Line(r)') /\ ~(i <= Len(Line(r))) /\ manifest + (i - Len(Line(r))) = f
        BY <1>0, <2>3 DEF Given
      <3> HIDE DEF i
      <3>2. Line(r)'[i] = f
        BY <3>1 DEF Given
      <3> QED
        BY <3>1, <3>2 DEF Waiting
    <2>4. f \in Waiting' => f \in Waiting \/ f \in (manifest + 1)..(manifest + n)
      BY <2>1 DEF Waiting
    <2>5. f \in Waiting => f \in Waiting'
      BY <2>2 DEF Waiting
    <2> QED
      BY <2>3, <2>4, <2>5
  <1>4. Waiting \subseteq Files /\ Waiting' \subseteq Files /\ (manifest + 1)..(manifest + n) \subseteq Files
    BY <1>0 DEF Waiting, Files
  <1>5. Waiting' = Waiting \cup ((manifest + 1)..(manifest + n))
    BY <1>3, <1>4
  <1>6. Work!Give(n)
    BY <1>0, <1>1, <1>2, <1>5 DEF Work!Give, Work!Open
  <1>7. n \in 0..NFiles
    BY <1>0
  <1> QED
    BY <1>6, <1>7 DEF Work!Next

(* A task that takes the first file of its line.                           *)
LEMMA TakesWorks ==
  ASSUME TypeOK, PlacesInv, Going, NEW r \in Fetching, NEW t \in Tasks, Takes(r, t)
  PROVE  [Work!Next]_(Work!vars)
  <1> DEFINE f == Line(r)[1]
  <1>0. /\ Verdict = "none" /\ Verdict' = "none" /\ deadline' = deadline
        /\ manifest' = manifest /\ Len(Line(r)) \in Nat /\ 1 \in 1..Len(Line(r))
    BY GoingOpen, LineLength DEF Going, Takes
  <1>1. Stopped' = Stopped /\ Handled' = Handled
    BY DEF Takes, Stopped, Handled
  <1>2. f \in Files /\ f \in Waiting
    <2>1. f \in Files
      BY <1>0, LineLength
    <2> QED
      BY <1>0, <2>1 DEF Waiting
  <1>3. current'[r][t] = f /\ Holds(r, t)' /\ ~Holds(r, t)
    BY DEF Takes
  <1>4. \A q \in Fetching : \A i \in 1..Len(Line(q)) : Line(q)[i] = f => q = r /\ i = 1
    BY <1>0 DEF PlacesInv, LinesApart
  <1> HIDE DEF f
  <1>5. ASSUME NEW g \in Files PROVE g \in InHand' <=> g \in InHand \/ g = f
    <2>1. \A q \in Fetching, u \in Tasks :
            (Holds(q, u) /\ current[q][u] = g) \/ (q = r /\ u = t /\ g = f)
               <=> Holds(q, u)' /\ current'[q][u] = g
      BY <1>3 DEF Takes, Others
    <2> QED
      BY <2>1 DEF InHand
  <1>6. InHand' = InHand \cup {f}
    <2>1. InHand \subseteq Files /\ InHand' \subseteq Files
      BY DEF InHand
    <2> QED
      BY <1>2, <1>5, <2>1
  <1>7. ASSUME NEW g \in Files PROVE g \in Waiting' <=> g \in Waiting /\ g # f
    <2>1. ASSUME NEW q \in Fetching, NEW i \in 1..Len(Line(q)'), Line(q)'[i] = g
          PROVE  g \in Waiting /\ g # f
      <3>1. CASE q # r
        BY <1>4, <2>1, <3>1 DEF Takes, Waiting
      <3>2. CASE q = r
        <4>1. i + 1 \in 1..Len(Line(r)) /\ i + 1 # 1
          BY <1>0, <2>1, <3>2 DEF Takes
        <4>2. Line(r)[i + 1] = g
          BY <2>1, <3>2 DEF Takes
        <4> QED
          BY <1>4, <4>1, <4>2 DEF Waiting
      <3> QED
        BY <3>1, <3>2
    <2>2. ASSUME NEW q \in Fetching, NEW i \in 1..Len(Line(q)), Line(q)[i] = g, g # f
          PROVE  g \in Waiting'
      <3>1. CASE q # r
        BY <2>2, <3>1 DEF Takes, Waiting
      <3>2. CASE q = r
        <4>1. i # 1
          BY <2>2, <3>2 DEF f
        <4>2. i - 1 \in 1..Len(Line(r)') /\ (i - 1) + 1 = i
          BY <1>0, <2>2, <3>2, <4>1 DEF Takes
        <4>3. Line(r)'[i - 1] = g
          BY <2>2, <3>2, <4>2 DEF Takes
        <4> QED
          BY <4>2, <4>3 DEF Waiting
      <3> QED
        BY <3>1, <3>2
    <2>3. g \in Waiting' => g \in Waiting /\ g # f
      BY <2>1 DEF Waiting
    <2>4. g \in Waiting /\ g # f => g \in Waiting'
      BY <2>2 DEF Waiting
    <2> QED
      BY <2>3, <2>4
  <1>8. Waiting' = Waiting \ {f}
    <2>1. Waiting \subseteq Files /\ Waiting' \subseteq Files
      BY DEF Waiting
    <2> QED
      BY <1>7, <2>1
  <1>9. Work!Take(f)
    BY <1>0, <1>1, <1>2, <1>6, <1>8 DEF Work!Take, Work!Open
  <1> QED
    BY <1>2, <1>9 DEF Work!Next

(* A task that is done with its file.                                      *)
LEMMA IsDoneWorks ==
  ASSUME TypeOK, PlacesInv, Going, NEW r \in Fetching, NEW t \in Tasks, IsDone(r, t)
  PROVE  [Work!Next]_(Work!vars)
  <1> DEFINE f == current[r][t]
  <1>0. /\ Verdict = "none" /\ Verdict' = "none" /\ deadline' = deadline /\ manifest' = manifest
    BY GoingOpen DEF Going, IsDone
  <1>1. Stopped' = Stopped
    BY DEF IsDone, Stopped
  <1>2. Waiting' = Waiting
    BY SameWaiting DEF IsDone
  <1>3. f \in 1..manifest /\ handled[f] = 0
    BY DEF PlacesInv, HeldOK, IsDone
  <1>4. f \in Files
    BY <1>3, WorkloadAssumption DEF TypeOK, Files
  <1>5. f \in InHand
    BY <1>4 DEF InHand, IsDone
  <1>6. \A q \in Fetching, u \in Tasks : Holds(q, u) /\ current[q][u] = f => q = r /\ u = t
    BY DEF PlacesInv, HeldApart, IsDone
  <1>7. handled' = [handled EXCEPT ![f] = @ + 1] /\ handled \in [Files -> Nat]
    BY DEF IsDone, Handle, TypeOK
  <1> HIDE DEF f
  <1>8. handled'[f] = 1 /\ \A g \in Files \ {f} : handled'[g] = handled[g]
    BY <1>3, <1>4, <1>7
  <1>9. Handled' = Handled \cup {f}
    BY <1>4, <1>8 DEF Handled
  <1>10. InHand' = InHand \ {f}
    <2>1. ASSUME NEW g \in Files PROVE g \in InHand' <=> g \in InHand /\ g # f
      <3>1. \A q \in Fetching, u \in Tasks :
              Holds(q, u)' /\ current'[q][u] = g <=> Holds(q, u) /\ current[q][u] = g /\ g # f
        BY <1>6 DEF IsDone, Others, f
      <3> QED
        BY <3>1 DEF InHand
    <2>2. InHand \subseteq Files /\ InHand' \subseteq Files
      BY DEF InHand
    <2> QED
      BY <2>1, <2>2
  <1>11. Work!Handle(f)
    BY <1>0, <1>1, <1>2, <1>5, <1>9, <1>10 DEF Work!Handle, Work!Open
  <1> QED
    BY <1>5, <1>11 DEF Work!Next

(* Steps of fetchers and tasks are steps of a workload that goes on.       *)
LEMMA WorkersGo == TypeOK /\ (FetchStep \/ TaskStep) /\ [Next]_vars => Going
  <1> SUFFICES ASSUME TypeOK, FetchStep \/ TaskStep, [Next]_vars PROVE Going
    OBVIOUS
  <1>1. UNCHANGED <<main, result, deadline>>
    BY FetchLeavesTasks, TaskStepMoves DEF envVars
  <1>2. FetchStep => main = "running"
    BY DEF FetchStep, Fetch, FetcherTop, FetchFileBatch, BackoffEnds, FetcherChecks, FetcherSends, Active
  <1>3. TaskStep => main = "running"
    BY DEF TaskStep, TaskTop, TaskRecv, ReadFile, AfterRead, CompareFile, StatFile, MetadataOp,
       WriteFile, Active
  <1>4. Stopped => Stopped'
    BY Kept DEF Stopped
  <1> QED
    BY <1>1, <1>2, <1>3, <1>4 DEF Going

(* The steps around the workload leave the files where they are.           *)
LEMMA AroundWorks ==
  ASSUME TypeOK, [Next]_vars, Around \/ \E r \in Runners : JoinTask(r)
  PROVE  [Work!Next]_(Work!vars)
  <1>0. OtherStep /\ main = "running" /\ UNCHANGED <<main, result>>
    BY DEF OtherStep, Around, ProgressAnswered, ShutdownBridged, DeadlinePasses, MasterEnds, JoinTask, Active
  <1>1. NoneMoves /\ (Stopped => Stopped')
    BY <1>0, OtherPlaces, Kept DEF Stopped
  <1>2. CASE deadline' = deadline
    BY <1>0, <1>1, <1>2, NoneMovesWorks DEF Going
  <1>3. CASE DeadlinePasses
    <2>1. deadline' = TRUE /\ UNCHANGED <<flagVars, manifest, buffer, fetcherVars, taskVars, historyVars>>
      BY <1>3 DEF DeadlinePasses
    <2>2. Waiting' = Waiting
      BY <1>1, SameWaiting DEF NoneMoves
    <2>3. InHand' = InHand /\ Handled' = Handled /\ Stopped' = Stopped /\ manifest' = manifest
      BY <2>1 DEF InHand, Handled, Holds, Stopped, taskVars, historyVars, flagVars
    <2>4. Verdict = "none" /\ Verdict' = "none"
      BY <1>0 DEF Verdict
    <2>5. Work!TimeIsUp
      BY <2>1, <2>2, <2>3, <2>4 DEF Work!TimeIsUp, Work!Open
    <2> QED
      BY <2>5 DEF Work!Next
  <1>4. deadline' = deadline \/ DeadlinePasses
    BY DEF Around, ProgressAnswered, ShutdownBridged, MasterEnds, JoinTask, envVars
  <1> QED
    BY <1>2, <1>3, <1>4

(* The steps of main leave everything but the verdict.                     *)
LEMMA MainWorks ==
  ASSUME IInv, [Next]_vars, RunPreflight \/ WorkloadOver \/ ReportResult
  PROVE  [Work!Next]_(Work!vars)
  <1>0. TypeOK /\ ReportInv /\ FilesInv /\ FlagsMean
    BY DEF IInv
  <1>1. UNCHANGED <<flagVars, deadline, manifest, fetcherVars, buffer, taskVars, historyVars>>
    BY DEF RunPreflight, WorkloadOver, ReportResult, envVars
  <1>2. /\ Waiting' = Waiting /\ InHand' = InHand /\ Handled' = Handled /\ Stopped' = Stopped
        /\ manifest' = manifest /\ deadline' = deadline
    <2>1. \A r \in Fetching : Line(r)' = Line(r)
      BY <1>1 DEF Line, fetcherVars
    <2>2. InHand' = InHand /\ Handled' = Handled
      BY <1>1 DEF InHand, Handled, Holds, taskVars, historyVars
    <2>3. Stopped' = Stopped
      BY <1>1 DEF Stopped, flagVars
    <2> QED
      BY <1>1, <2>1, <2>2, <2>3, SameWaiting
  <1>3. ASSUME Verdict' = Verdict PROVE [Work!Next]_(Work!vars)
    BY <1>2, <1>3 DEF Work!vars
  <1>4. ASSUME Verdict = "none", Stopped, Verdict' \in {"failure", "cancelled", "left"}
        PROVE  [Work!Next]_(Work!vars)
    <2>1. Work!GiveUp(Verdict')
      BY <1>2, <1>4 DEF Work!GiveUp, Work!Open
    <2> QED
      BY <1>4, <2>1 DEF Work!Next
  <1>5. CASE RunPreflight
    <2>1. main = "preflight" /\ main' \in {"running", "refused"} /\ manifest = 0
      BY <1>0, <1>5 DEF RunPreflight, FlagsMean
    <2>2. Verdict = "none" /\ (main' = "running" => Verdict' = "none")
          /\ (main' = "refused" => Verdict' = "refused")
      BY <2>1 DEF Verdict
    <2>3. CASE main' = "refused"
      <3>1. Work!Refuse
        BY <1>2, <2>1, <2>2, <2>3 DEF Work!Refuse, Work!Open
      <3> QED
        BY <3>1 DEF Work!Next
    <2> QED
      BY <1>3, <2>1, <2>2, <2>3
  <1>6. CASE WorkloadOver
    <2>1. main = "running" /\ main' = IF unknown THEN "left" ELSE "reporting"
      BY <1>6 DEF WorkloadOver
    <2>2. CASE unknown
      <3>1. Verdict = "none" /\ Verdict' = "left"
        BY <2>1, <2>2 DEF Verdict
      <3>2. Stopped
        BY <1>0, <2>2 DEF FlagsMean, Stopped
      <3> QED
        BY <1>4, <3>1, <3>2
    <2>3. CASE ~unknown
      BY <1>3, <2>1, <2>3 DEF Verdict
    <2> QED
      BY <2>2, <2>3
  <1>7. CASE ReportResult
    <2>1. /\ main = "reporting" /\ main' = "reported"
          /\ result'.error = IF SomeErr # {} THEN "failure" ELSE IF cancelled THEN "cancelled" ELSE "none"
      BY <1>7 DEF ReportResult
    <2>2. Verdict = "none"
          /\ Verdict' = IF SomeErr # {} THEN "failure" ELSE IF cancelled THEN "cancelled" ELSE "success"
      BY <2>1 DEF Verdict
    <2>3. CASE SomeErr # {}
      <3>1. Stopped
        BY <1>0, <2>3, WorkloadAssumption DEF FlagsMean, SomeErr, Stopped, TypeOK
      <3> QED
        BY <1>4, <2>2, <2>3, <3>1
    <2>4. CASE SomeErr = {} /\ cancelled
      <3>1. Stopped
        BY <2>4 DEF Stopped
      <3> QED
        BY <1>4, <2>2, <2>4, <3>1
    <2>5. CASE SomeErr = {} /\ ~cancelled
      <3>1. ~AnyFailed
        <4> SUFFICES ASSUME NEW r \in job.runners, NEW t \in Tasks, task[r][t] = "failed" PROVE FALSE
          BY DEF AnyFailed
        <4>1. r \in Runners /\ firstErr[r] = 0
          BY <1>0, <2>5, WorkloadAssumption DEF SomeErr, TypeOK
        <4>2. joined[r] = N
          BY <1>0, <2>1 DEF ReportInv, FailuresSeen, RunnerOver
        <4> QED
          BY <1>0, <4>1, <4>2 DEF ReportInv, FailuresSeen, Tasks
      <3>2. ~Stopped
        BY <1>0, <2>5, <3>1 DEF FlagsMean, Stopped
      <3>3. InHand = {}
        BY <1>0, <2>1, NothingLeft DEF InHand
      <3>4. deadline \/ Waiting = {}
        <4> SUFFICES ASSUME ~deadline PROVE Waiting = {}
          OBVIOUS
        <4>1. \A r \in Fetching : Len(Line(r)) = 0
          BY <1>0, <2>1, <3>2, NothingLeft
        <4> QED
          BY <4>1 DEF Waiting
      <3>5. Work!Succeed
        BY <1>2, <2>2, <2>5, <3>2, <3>3, <3>4 DEF Work!Succeed, Work!Open
      <3> QED
        BY <3>5 DEF Work!Next
    <2> QED
      BY <2>3, <2>4, <2>5
  <1> QED
    BY <1>5, <1>6, <1>7

LEMMA NextWorks == IInv /\ [Next]_vars => [Work!Next]_(Work!vars)
  <1> SUFFICES ASSUME IInv, [Next]_vars PROVE [Work!Next]_(Work!vars)
    OBVIOUS
  <1>0. TypeOK /\ PlacesInv /\ Drained
    BY DEF IInv, FilesInv
  <1>1. CASE FetchStep \/ TaskStep
    <2>1. Going
      BY <1>0, <1>1, WorkersGo
    <2>2. NoneMoves \/ (\E r \in Fetching, n \in Nat : Given(r, n))
            \/ \E r \in Fetching, t \in Tasks : Takes(r, t) \/ IsDone(r, t)
      BY <1>0, <1>1, FetchPlaces, TaskPlaces
    <2> QED
      BY <1>0, <2>1, <2>2, NoneMovesWorks, GivenWorks, TakesWorks, IsDoneWorks
  <1>2. CASE OtherStep
    BY <1>0, <1>2, AroundWorks, MainWorks DEF OtherStep
  <1>3. CASE UNCHANGED vars
    <2>1. UNCHANGED <<main, result, deadline, manifest, flagVars, fetcherVars, buffer, taskVars, historyVars>>
      BY <1>3 DEF vars
    <2>2. Waiting' = Waiting
      BY <2>1, SameWaiting DEF Line, fetcherVars
    <2>3. InHand' = InHand /\ Handled' = Handled /\ Stopped' = Stopped /\ Verdict' = Verdict
      BY <2>1 DEF InHand, Handled, Holds, Stopped, Verdict, taskVars, historyVars, flagVars
    <2> QED
      BY <2>1, <2>2, <2>3 DEF Work!vars
  <1> QED
    BY <1>1, <1>2, <1>3, StepCases

LEMMA InitWorks == Init => Work!Init
  <1> SUFFICES ASSUME Init PROVE Work!Init
    OBVIOUS
  <1>1. \A r \in Fetching : Len(Line(r)) = 0
    BY DEF Init, Line
  <1>2. Waiting = {}
    BY <1>1 DEF Waiting
  <1>3. InHand = {}
    BY DEF Init, InHand, Holds, Fetching, Runners
  <1>4. Handled = {} /\ manifest = 0 /\ deadline = FALSE /\ Stopped = FALSE /\ Verdict = "none"
    BY DEF Init, Handled, Stopped, Verdict
  <1> QED
    BY <1>2, <1>3, <1>4 DEF Work!Init

(* For any number of tasks and of files and any capacity of the buffers,   *)
(* the fetchers, buffers, tasks and flags of a workload do nothing to the  *)
(* files but what FileWork allows, and end with a verdict that it allows.  *)
THEOREM WorkImplemented == Spec => ImplementsWork
BY InitWorks, NextWorks, Invariance, PTL DEF Spec, ImplementsWork, Work!Spec

(* For any number of tasks, of files and of runners: the report says       *)
(* success exactly if no task failed, names a difference only if one was   *)
(* found, is not made for a job that is unknown, and stands for reads that *)
(* were compared if the job asked for it.                                  *)
THEOREM ReportIsTrueAlways == Spec => []ReportIsTrue
  <1>1. IInv => ReportIsTrue
    BY ReportInvMeans, FilesInvMeans DEF IInv, ReportIsTrue
  <1> QED
    BY <1>1, Invariance, PTL

(* No file that the master handed out is handled twice, and a workload     *)
(* that nothing ended early has handled every one of them.                 *)
THEOREM NoFileIsLost == Spec => []EveryFileHandled
BY Invariance, FilesInvMeans, PTL DEF IInv
=============================================================================
